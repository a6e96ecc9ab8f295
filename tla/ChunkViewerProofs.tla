--------------------------- MODULE ChunkViewerProofs ---------------------------
(***************************************************************************)
(* Proofs about the command loop of module ChunkViewer, for any loaded     *)
(* worlds, any lines, coordinates, numbers and textures.                   *)
(*                                                                         *)
(* The invariant says for each phase of main what the words read so far    *)
(* make of the options, so that what a handler answers can be compared     *)
(* with the line as a whole.                                               *)
(***************************************************************************)
EXTENDS ChunkViewer, FiniteSetTheorems, SequenceTheorems, WellFoundedInduction, TLAPS

(***************************************************************************)
(* The words.  ss is what is left of the line.                             *)
(***************************************************************************)
used == Len(line) - Len(ss)

Suffix(s, l) == Len(s) <= Len(l) /\ \A j \in 1 .. Len(s) : s[j] = l[Len(l) - Len(s) + j]
WordsInv ==
  /\ line \in Seq(Word) /\ ss \in Seq(Word) /\ Suffix(ss, line)
  /\ lineNo \in Nat

Begun(command)   == Len(line) >= 2 /\ line[1] = command /\ line[2] = "block"
Located(command) == Begun(command) /\ Len(line) >= 3 /\ line[3] \in DOMAIN CoordsOf

\* A blank line repeats the word that was read last.
AtCommand ==
  /\ xyzState = "none" /\ lineNo > 0
  /\ pc \in {"what", "graph"} => word = pc
  /\ line # << >> => used = 1 /\ line[1] = pc
AtCoords(command) ==
  /\ xyzState = "none" /\ lineNo > 0 /\ word = "block"
  /\ Begun(command) /\ used = 2
  /\ dim = "OVERWORLD" /\ facing = "n"
Querying(command) == Located(command) /\ xyz = CoordsOf[line[3]] /\ lineNo > 0

(***************************************************************************)
(* The flags among the first n words.                                      *)
(***************************************************************************)
DimensionsUpTo(n) == {j \in DimensionFlags(line) : j <= n}
AtWhatFlags ==
  /\ Querying("what") /\ used >= 3 /\ xyzState \in {"owned", "freed"}
  /\ xyzState = "owned" =>
       /\ \A j \in DimensionsUpTo(used) : j < Len(line) /\ line[j + 1] \in DOMAIN DimensionOf
       /\ dim = DimensionOf[LastOf(line, DimensionsUpTo(used), "overworld")]
  /\ xyzState = "freed" => ~GoodDimensions(line)

Bottom == Edge * (CoordsOf[line[3]][2] \div Edge)
AtGraphFile ==
  /\ Querying("graph") /\ used = 3 /\ xyzState = "owned"
  /\ dim = "OVERWORLD" /\ facing = "n" /\ yMin = Bottom /\ yMax = WrapInt(Bottom + Edge)

OptionUpTo(flag, n) == {j \in Option(line, flag) : j <= n}
GoodOption(j) ==
  /\ j < Len(line)
  /\ \/ line[j] = "-d" /\ line[j + 1] \in DOMAIN DimensionOf
     \/ line[j] = "-f" /\ line[j + 1] \in Facings
     \/ line[j] \in {"-ymin", "-ymax"} /\ line[j + 1] \in DOMAIN IntOf
NumberUpTo(flag, n, default) ==
  IF OptionUpTo(flag, n) = {} THEN default ELSE IntOf[LastOf(line, OptionUpTo(flag, n), "")]
OptionsRead(n) ==
  /\ \A j \in 5 .. n : (j - 5) % 2 = 0 => GoodOption(j)
  /\ dim = DimensionOf[LastOf(line, OptionUpTo("-d", n), "overworld")]
  /\ facing = LastOf(line, OptionUpTo("-f", n), "n")
  /\ yMin = NumberUpTo("-ymin", n, Bottom)
  /\ yMax = WrapInt(NumberUpTo("-ymax", n, Bottom + Edge - 1) + 1)
AtGraphFlags ==
  /\ Querying("graph") /\ xyzState = "owned"
  /\ used >= 4 /\ used % 2 = 0 /\ fileName = line[4]
  /\ OptionsRead(used)

\* Behind the checks the options are those of the line.
Checked ==
  /\ GraphAccepted(line) /\ Querying("graph") /\ xyzState = "owned"
  /\ dim = GraphDim(line) /\ dim \in ChunkDimension
  /\ facing = GraphFacing(line) /\ facing \in Facings
  /\ yMin = GraphMin(line) /\ yMax = GraphTop(line) + 1 /\ fileName = line[4]
  /\ GraphMin(line) \in IntType /\ GraphTop(line) \in IntType
  /\ chunk = getBlockChunk(world, xyz[1], xyz[2], xyz[3], dim)

(***************************************************************************)
(* The graph.  Each position passed that is not air has its two items.     *)
(***************************************************************************)
Item == [item : {"curve", "mark"}, texture : Textures \cup {<< >>}, at : {<< >>} \cup (Int \X Int)]
FilesInv == \A f \in DOMAIN files :
  /\ files[f] \in [kind : {"file", "directory"}, items : Seq(Item)]
  /\ \A n \in DOMAIN files[f].items :
       files[f].items[n].item = "curve" => files[f].items[n].texture \in Textures

Passed(at) == at[1] < index \/ (at[1] = index /\ at[2] < y)
Drawn == {at \in Side \X (GraphMin(line) .. GraphTop(line)) :
            Passed(at) /\ SeenTextures(line, at[1], at[2]) # {}}
Odds(items) == {n \in 1 .. Len(items) : n % 2 = 1}
Shows(items, done) ==
  /\ Len(items) = 2 * Cardinality(done)
  /\ {items[n + 1].at : n \in Odds(items)} = done
  /\ \A n \in Odds(items) :
       /\ items[n].item = "curve" /\ items[n + 1].item = "mark"
       /\ items[n].texture \in SeenTextures(line, items[n + 1].at[1], items[n + 1].at[2])
AtDraw ==
  /\ Checked
  /\ index \in 0 .. Edge /\ y \in yMin .. yMax
  /\ fileName \in DOMAIN files /\ files[fileName].kind = "file"
  /\ Shows(files[fileName].items, Drawn)

AnswerRight ==
  /\ WhatQuery(line) /\ GoodDimensions(line) =>
       \E b \in WhatBlocks(line) :
         reply = IF b.state < 0 THEN Says("block_not_valid")
                 ELSE [kind |-> "block", at |-> CoordsOf[line[3]], tags |-> b.tags]
  /\ ~WhatQuery(line) => reply.kind # "block"
  /\ reply.kind \in {"graphed", "open_failed"} <=> GraphAccepted(line)
  /\ reply.kind = "graphed" => Shows(files[line[4]].items, Picture(line))
AtPrompt == xyzState = "none" /\ (lineNo > 0 => AnswerRight)

Lost ==
  \/ WhatQuery(line) /\ ~GoodDimensions(line)
  \/ WhatQuery(line) /\ CoordsOf[line[3]][2] = Height
  \/ GraphAccepted(line) /\ y = Height
  \/ /\ GraphAccepted(line)
     /\ \E c \in DOMAIN heap : \E s \in SubChunk : \E e \in DOMAIN heap[c].blockStates[s] :
          Incomplete(heap[c].blockStates[s][e])

PhaseInv ==
  /\ pc \in Phase
  /\ pc = "prompt" => AtPrompt
  /\ pc \in {"what", "graph", "help"} => AtCommand
  /\ pc = "whatCoords" => AtCoords("what")
  /\ pc = "graphCoords" => AtCoords("graph")
  /\ pc = "whatFlags" => AtWhatFlags
  /\ pc = "graphFile" => AtGraphFile
  /\ pc = "graphFlags" => AtGraphFlags
  /\ pc = "graphOpen" => Checked
  /\ pc = "draw" => AtDraw
  /\ pc = "undefined" => Lost
  /\ pc = "exit" => \A c \in DOMAIN heap : freed[c] = 1

\* Before the first line there is no answer.
Unasked == lineNo = 0 => reply = NoReply

CommandsInv == Loaded(world, heap) /\ WordsInv /\ FilesInv /\ PhaseInv /\ Unasked

--------------------------------------------------------------------------------
(* Words and flags.                                                          *)

\* Taking a word off what is left of the line.
LEMMA TakeWord ==
  ASSUME WordsInv
  PROVE  /\ Len(line) \in Nat /\ Len(ss) \in Nat /\ used \in 0 .. Len(line)
         /\ ss = << >> <=> used = Len(line)
         /\ Rest(ss) \in Seq(Word) /\ Suffix(Rest(ss), line)
         /\ ss # << >> => /\ used < Len(line) /\ Head(ss) = line[used + 1] /\ ss[1] = line[used + 1]
                          /\ Rest(ss) = Tail(ss) /\ Len(Tail(ss)) = Len(ss) - 1
                          /\ Len(ss) >= 1 /\ (Len(ss) > 1 => ss[2] = line[used + 2])
<1>1. /\ line \in Seq(Word) /\ ss \in Seq(Word) /\ Len(ss) <= Len(line)
      /\ \A j \in 1 .. Len(ss) : ss[j] = line[Len(line) - Len(ss) + j]
      /\ Len(line) \in Nat /\ Len(ss) \in Nat
  BY LenProperties DEF WordsInv, Suffix
<1>2. ss = << >> <=> Len(ss) = 0
  BY ONLY <1>1, EmptySeq
<1>3. used = Len(line) - Len(ss) /\ used \in 0 .. Len(line) /\ (ss = << >> <=> used = Len(line))
  BY ONLY <1>1, <1>2 DEF used
<1>4. CASE ss = << >>
  BY ONLY <1>1, <1>3, <1>4 DEF Rest, WordsInv, Suffix
<1>5. CASE ss # << >>
  <2>1. Head(ss) = ss[1] /\ Tail(ss) \in Seq(Word) /\ Len(Tail(ss)) = Len(ss) - 1
        /\ \A j \in 1 .. Len(Tail(ss)) : Tail(ss)[j] = ss[j + 1]
    BY ONLY <1>1, <1>5, HeadTailProperties
  <2>2. Rest(ss) = Tail(ss)
    BY ONLY <1>5 DEF Rest
  <2>3. PICK t : t = Tail(ss)
    BY Zenon
  <2>4. Suffix(t, line)
    BY ONLY <1>1, <1>2, <1>5, <2>1, <2>3 DEF Suffix
  <2>5. Len(ss) >= 1 /\ used < Len(line) /\ ss[1] = line[used + 1] /\ (Len(ss) > 1 => ss[2] = line[used + 2])
    BY ONLY <1>1, <1>2, <1>3, <1>5
  <2> QED BY ONLY <1>1, <1>3, <1>5, <2>1, <2>2, <2>3, <2>4, <2>5, Zenon
<1> QED BY ONLY <1>4, <1>5

\* The three names of dimensions.
LEMMA Dimensions ==
  /\ DOMAIN DimensionOf = {"overworld", "nether", "end"}
  /\ DimensionOf["overworld"] = "OVERWORLD"
  /\ \A w \in DOMAIN DimensionOf : DimensionOf[w] \in ChunkDimension
  /\ \A w \in DOMAIN DimensionOf : w # "-d"
BY DEF DimensionOf, ChunkDimension

\* The library's well-founded order on the naturals, as a set of pairs.
LEMMA LessThanPairs == OpToRel(<, Nat) = {r \in Nat \X Nat : r[1] < r[2]}
  BY Zenon DEF OpToRel

\* A set of naturals has a least element.
LEMMA LeastNat ==
  ASSUME NEW T \in SUBSET Nat, T # {}
  PROVE  \E m \in T : \A k \in T : m <= k
<1>1. \E m \in T : \A k \in T : ~ (<<k, m>> \in OpToRel(<, Nat))
  BY NatLessThanWellFounded, WFMin
<1>2. \E m \in T : \A k \in T : ~ (<<k, m>> \in {r \in Nat \X Nat : r[1] < r[2]})
  BY <1>1, LessThanPairs, Zenon
<1>3. \A k, m \in Nat : k < m => <<k, m>> \in {r \in Nat \X Nat : r[1] < r[2]}
  OBVIOUS
<1>4. \E m \in T : \A k \in T : ~ (k < m)
  BY <1>2, <1>3, Zenon
<1> QED BY <1>4

\* The last flag is the one read last.
LEMMA LastIsNew ==
  ASSUME NEW l, NEW J \in SUBSET Int, NEW m \in Int, \A j \in J : j < m, NEW default
  PROVE  LastOf(l, J \cup {m}, default) = l[m + 1]
<1> DEFINE K == J \cup {m}
<1>1. m \in K /\ \A k \in K : m >= k
  OBVIOUS
<1>2. \A x \in K : (\A k \in K : x >= k) => x = m
  BY ONLY <1>1, J \in SUBSET Int, m \in Int
<1>3. Max(K) = m
  BY ONLY <1>1, <1>2, Zenon DEF Max
<1> QED BY ONLY <1>1, <1>3, Zenon DEF LastOf

\* What is left after a word, for any list of words.
LEMMA RestFacts ==
  ASSUME NEW l \in Seq(Word), NEW s \in Seq(Word), Suffix(s, l)
  PROVE  /\ Rest(s) \in Seq(Word) /\ Suffix(Rest(s), l) /\ Len(s) \in Nat /\ Len(l) \in Nat
         /\ Len(Rest(s)) = IF Len(s) = 0 THEN 0 ELSE Len(s) - 1
<1>1. Len(s) \in Nat /\ Len(l) \in Nat /\ (s = << >> <=> Len(s) = 0)
  BY EmptySeq, LenProperties
<1>2. CASE s = << >>
  BY ONLY <1>1, <1>2, s \in Seq(Word), Suffix(s, l) DEF Rest
<1>3. CASE s # << >>
  <2>1. PICK t : t = Tail(s)
    BY Zenon
  <2>2. t \in Seq(Word) /\ Len(t) = Len(s) - 1 /\ \A j \in 1 .. Len(t) : t[j] = s[j + 1]
    BY ONLY <1>3, <2>1, s \in Seq(Word), HeadTailProperties
  <2>3. Suffix(t, l)
    BY ONLY <1>1, <1>3, <2>2, Suffix(s, l) DEF Suffix
  <2>4. Rest(s) = t
    BY ONLY <1>3, <2>1 DEF Rest
  <2> QED BY ONLY <1>1, <1>3, <2>2, <2>3, <2>4
<1> QED BY ONLY <1>2, <1>3

\* The words stay in order when none, one or two of them are read.
LEMMA WordsRead ==
  ASSUME WordsInv, UNCHANGED <<line, lineNo>>
  PROVE  /\ ss' = ss => WordsInv' /\ used' = used
         /\ ss' = Rest(ss) => WordsInv' /\ used' = IF used = Len(line) THEN used ELSE used + 1
         /\ ss' = Rest(Tail(ss)) /\ ss # << >> =>
              WordsInv' /\ used' = IF used + 1 = Len(line) THEN used + 1 ELSE used + 2
<1>1. /\ line \in Seq(Word) /\ ss \in Seq(Word) /\ Suffix(ss, line) /\ lineNo \in Nat
      /\ line' = line /\ lineNo' = lineNo
  BY DEF WordsInv
<1>2. \A s \in Seq(Word) : Suffix(s, line) /\ ss' = s => WordsInv' /\ used' = Len(line) - Len(s)
  BY ONLY <1>1, Zenon DEF WordsInv, used
<1>3. /\ Rest(ss) \in Seq(Word) /\ Suffix(Rest(ss), line) /\ Len(ss) \in Nat /\ Len(line) \in Nat
      /\ Len(Rest(ss)) = IF Len(ss) = 0 THEN 0 ELSE Len(ss) - 1
  BY ONLY <1>1, RestFacts
<1>4. Len(ss) <= Len(line) /\ used = Len(line) - Len(ss)
  BY ONLY <1>1 DEF Suffix, used
<1>5. ss' = ss => WordsInv' /\ used' = used
  BY ONLY <1>1, <1>2, <1>4, Zenon
<1>6. ss' = Rest(ss) => WordsInv' /\ used' = IF used = Len(line) THEN used ELSE used + 1
  BY ONLY <1>2, <1>3, <1>4
<1>7. ASSUME ss' = Rest(Tail(ss)), ss # << >>
      PROVE  WordsInv' /\ used' = IF used + 1 = Len(line) THEN used + 1 ELSE used + 2
  <2>1. PICK t : t = Rest(ss)
    BY Zenon
  <2>2. t = Tail(ss) /\ Len(ss) # 0
    BY ONLY <1>1, <1>7, <2>1, EmptySeq, Zenon DEF Rest
  <2>3. /\ Rest(t) \in Seq(Word) /\ Suffix(Rest(t), line)
        /\ Len(Rest(t)) = IF Len(t) = 0 THEN 0 ELSE Len(t) - 1
    BY ONLY <1>1, <1>3, <2>1, RestFacts
  <2>4. ss' = Rest(t)
    BY ONLY <1>7, <2>2
  <2>5. WordsInv' /\ used' = Len(line) - Len(Rest(t))
    BY ONLY <1>2, <2>3, <2>4, Zenon
  <2>6. Len(t) = Len(ss) - 1 /\ Len(ss) \in Nat \ {0}
    BY ONLY <1>3, <2>1, <2>2
  <2>7. Len(Rest(t)) = IF Len(ss) = 1 THEN 0 ELSE Len(ss) - 2
    BY ONLY <2>3, <2>6
  <2>8. used' = IF used + 1 = Len(line) THEN used + 1 ELSE used + 2
    <3>1. PICK m : m = Len(Rest(t))
      BY Zenon
    <3>2. used' = Len(line) - m
      BY ONLY <2>5, <3>1
    <3>3. m = IF Len(ss) = 1 THEN 0 ELSE Len(ss) - 2
      BY ONLY <2>7, <3>1
    <3>4. Len(line) \in Nat /\ Len(ss) <= Len(line) /\ used = Len(line) - Len(ss)
      BY ONLY <1>3, <1>4
    <3>5. PICK n, k, u : n = Len(line) /\ k = Len(ss) /\ u = used
      BY Zenon
    <3>6. n \in Nat /\ k \in Nat \ {0} /\ u = n - k /\ m = IF k = 1 THEN 0 ELSE k - 2
      BY ONLY <2>6, <3>3, <3>4, <3>5
    <3>7. n - m = IF u + 1 = n THEN u + 1 ELSE u + 2
      BY ONLY <3>6
    <3> QED BY ONLY <3>2, <3>5, <3>7, Zenon
  <2> QED BY ONLY <2>5, <2>8
<1> QED BY ONLY <1>5, <1>6, <1>7

\* The phase main goes to decides what is to be shown of it.
LEMMA Lands ==
  /\ pc' = "prompt" /\ AtPrompt' => PhaseInv'
  /\ pc' \in {"what", "graph", "help"} /\ AtCommand' => PhaseInv'
  /\ pc' = "whatCoords" /\ AtCoords("what")' => PhaseInv'
  /\ pc' = "graphCoords" /\ AtCoords("graph")' => PhaseInv'
  /\ pc' = "whatFlags" /\ AtWhatFlags' => PhaseInv'
  /\ pc' = "graphFile" /\ AtGraphFile' => PhaseInv'
  /\ pc' = "graphFlags" /\ AtGraphFlags' => PhaseInv'
  /\ pc' = "graphOpen" /\ Checked' => PhaseInv'
  /\ pc' = "draw" /\ AtDraw' => PhaseInv'
  /\ pc' = "undefined" /\ Lost' => PhaseInv'
  /\ pc' = "aborted" => PhaseInv'
BY DEF PhaseInv, Phase, Terminal

\* What is asked for depends on the world and the line only.
LEMMA SameQuestion ==
  ASSUME UNCHANGED <<world, heap, line>>
  PROVE  /\ WhatBlocks(line)' = WhatBlocks(line)
         /\ GraphAccepted(line)' <=> GraphAccepted(line)
         /\ \A n, h : SeenTextures(line, n, h)' = SeenTextures(line, n, h)
         /\ Picture(line)' = Picture(line)
         /\ GraphMin(line)' = GraphMin(line) /\ GraphTop(line)' = GraphTop(line)
<1>1. WhatBlocks(line)' = WhatBlocks(line)
  BY DEF WhatBlocks, worldGetBlock, getBlockChunk, findChunk
<1>2. GraphAccepted(line)' <=> GraphAccepted(line)
  BY DEF GraphAccepted, getBlockChunk, findChunk
<1>3. ASSUME NEW n, NEW h PROVE SeenTextures(line, n, h)' = SeenTextures(line, n, h)
  <2>1. SeenBlocks(line, n, h)' = SeenBlocks(line, n, h)
    BY DEF SeenBlocks, worldGetBlock, getBlockChunk, findChunk
  <2> QED BY <2>1 DEF SeenTextures
<1>4. Picture(line)' = Picture(line)
  BY <1>3 DEF Picture
<1> QED BY <1>1, <1>2, <1>3, <1>4

\* A line that asks for nothing that can be answered gets a message.
LEMMA Refused ==
  ASSUME NEW kind, kind \notin {"block", "graphed", "open_failed"}, reply' = Says(kind), xyzState' = "none",
         ~(WhatQuery(line') /\ GoodDimensions(line')), ~(GraphAccepted(line))'
  PROVE  AtPrompt'
<1>1. reply'.kind = kind
  BY DEF Says, NoReply
<1>2. reply'.kind # "block" /\ reply'.kind # "graphed" /\ reply'.kind # "open_failed"
  BY <1>1
<1>3. AnswerRight'
  BY <1>2, Zenon DEF AnswerRight
<1> QED BY <1>3, Zenon DEF AtPrompt

\* Lines of other commands ask for nothing.
LEMMA OtherCommand ==
  ASSUME NEW l, Len(l) < 2 \/ ~(l[1] \in {"what", "graph"} /\ l[2] = "block"), Len(l) \in Nat
  PROVE  ~WhatQuery(l) /\ ~GraphAccepted(l) /\ (line' = l => ~(GraphAccepted(line))')
<1>1. ~WhatQuery(l) /\ ~GraphQuery(l)
  BY DEF WhatQuery, GraphQuery
<1> QED BY <1>1, Zenon DEF GraphAccepted

\* getline and the first word.
LEMMA ReadLineStep ==
  ASSUME CommandsInv, ReadLine
  PROVE  WordsInv' /\ PhaseInv'
<1>1. /\ pc = "prompt" /\ lineNo' = lineNo + 1 /\ lineNo \in Nat /\ xyzState' = "none"
  BY DEF ReadLine, CommandsInv, WordsInv, PhaseInv, AtPrompt
<1>2. PICK l \in Lines : \E first :
        /\ first = (IF l = << >> THEN word ELSE Head(l))
        /\ line' = l /\ ss' = Rest(l) /\ word' = first
        /\ IF first \in {"what", "graph", "help"}
           THEN pc' = first /\ reply' = NoReply
           ELSE pc' = "prompt" /\ reply' = Says("unknown_command")
  BY DEF ReadLine, Goto
<1>3. PICK first :
        /\ first = (IF l = << >> THEN word ELSE Head(l))
        /\ line' = l /\ ss' = Rest(l) /\ word' = first
        /\ IF first \in {"what", "graph", "help"}
           THEN pc' = first /\ reply' = NoReply
           ELSE pc' = "prompt" /\ reply' = Says("unknown_command")
  BY ONLY <1>2, Zenon
<1>4. l \in Seq(Word) /\ Len(l) \in Nat /\ (l = << >> <=> Len(l) = 0) /\ Suffix(l, l)
  <2>1. l \in Seq(Word)
    BY ViewerAssumption
  <2>2. Len(l) \in Nat /\ (l = << >> <=> Len(l) = 0)
    BY ONLY <2>1, EmptySeq, LenProperties
  <2> QED BY ONLY <2>1, <2>2 DEF Suffix
<1>5. /\ Rest(l) \in Seq(Word) /\ Suffix(Rest(l), l)
      /\ Len(Rest(l)) = IF Len(l) = 0 THEN 0 ELSE Len(l) - 1
  BY ONLY <1>4, RestFacts
<1>6. WordsInv'
  BY ONLY <1>1, <1>3, <1>4, <1>5 DEF WordsInv
<1>7. l # << >> => first = l[1] /\ used' = 1
  BY ONLY <1>3, <1>4, <1>5, HeadTailProperties DEF used
<1>8. CASE first \in {"what", "graph", "help"}
  <2>1. AtCommand'
    BY ONLY <1>1, <1>3, <1>7, <1>8 DEF AtCommand
  <2> QED BY <1>3, <1>6, <1>8, <2>1, Lands
<1>9. CASE first \notin {"what", "graph", "help"}
  <2>1. Len(l) < 2 \/ ~(l[1] \in {"what", "graph"} /\ l[2] = "block")
    BY ONLY <1>4, <1>7, <1>9
  <2>2. AtPrompt'
    BY ONLY <1>1, <1>3, <1>4, <1>9, <2>1, OtherCommand, Refused
  <2> QED BY <1>3, <1>6, <1>9, <2>2, Lands
<1> QED BY <1>8, <1>9

\* help.
LEMMA HelpStep ==
  ASSUME CommandsInv, Help
  PROVE  WordsInv' /\ PhaseInv'
<1>1. /\ pc = "help" /\ pc' = "prompt" /\ xyzState' = "none" /\ UNCHANGED <<line, lineNo>> /\ ss' = Rest(ss)
      /\ WordsInv /\ (line # << >> => line[1] = "help")
  BY DEF Help, Read, Answer, Goto, CommandsInv, PhaseInv, AtCommand
<1>2. PICK kind \in {"usage", "unknown_command"} : reply' = Says(kind)
  BY DEF Help, Answer
<1>3. WordsInv'
  BY <1>1, WordsRead
<1>4. Len(line) \in Nat /\ (line = << >> => Len(line) = 0) /\ line' = line
  BY ONLY <1>1, LenProperties DEF WordsInv
<1>5. Len(line) < 2 \/ ~(line[1] \in {"what", "graph"} /\ line[2] = "block")
  BY ONLY <1>1, <1>4
<1>6. AtPrompt'
  BY ONLY <1>1, <1>2, <1>4, <1>5, OtherCommand, Refused
<1> QED BY <1>1, <1>3, <1>6, Lands

\* The word behind the command.
LEMMA ArgumentStep ==
  ASSUME CommandsInv, NEW command \in {"what", "graph"},
         NEW next, Argument(command, next), pc' = next /\ AtCoords(command)' => PhaseInv'
  PROVE  WordsInv' /\ PhaseInv'
<1>1. /\ pc = command /\ UNCHANGED <<line, lineNo>> /\ ss' = Rest(ss) /\ word' = Extracted
      /\ WordsInv /\ AtCommand /\ word = command
  BY DEF Argument, Read, CommandsInv, PhaseInv, AtCommand
<1>2. WordsInv' /\ used' = IF used = Len(line) THEN used ELSE used + 1
  BY ONLY <1>1, WordsRead
<1>3. /\ Len(line) \in Nat /\ used \in 0 .. Len(line) /\ (ss = << >> <=> used = Len(line))
      /\ ss # << >> => Head(ss) = line[used + 1]
      /\ (line = << >> <=> Len(line) = 0)
  <2>1. line = << >> <=> Len(line) = 0
    BY ONLY <1>1, EmptySeq DEF WordsInv
  <2> QED BY ONLY <1>1, <2>1, TakeWord
<1>4. line # << >> => used = 1 /\ line[1] = command
  BY ONLY <1>1, Zenon DEF AtCommand
<1>5. ss # << >> => word' = line[2] /\ Len(line) >= 2 /\ line[1] = command /\ used' = 2
  BY ONLY <1>1, <1>2, <1>3, <1>4 DEF Extracted
<1>6. ss = << >> => word' = command /\ Len(line) < 2
  BY ONLY <1>1, <1>3, <1>4 DEF Extracted
<1>7. CASE word' = "block"
  <2>1. ss # << >>
    BY ONLY <1>6, <1>7
  <2>2. pc' = next /\ dim' = "OVERWORLD" /\ facing' = "n" /\ xyzState' = xyzState
    BY ONLY <1>1, <1>7, Argument(command, next) DEF Argument, Goto, Defaults
  <2>3. xyzState = "none" /\ lineNo > 0
    BY <1>1 DEF AtCommand
  <2>4. AtCoords(command)'
    BY ONLY <1>1, <1>5, <1>7, <2>1, <2>2, <2>3 DEF AtCoords, Begun
  <2> QED BY <1>2, <2>2, <2>4
<1>8. CASE word' # "block"
  <2>1. Len(line) < 2 \/ ~(line[1] \in {"what", "graph"} /\ line[2] = "block")
    BY ONLY <1>5, <1>6, <1>8
  <2>2. pc' = "prompt" /\ reply' = Says("invalid_argument") /\ xyzState' = "none"
    BY <1>1, <1>8 DEF Argument, Answer, Goto, AtCommand
  <2>3. AtPrompt'
    BY ONLY <1>1, <1>3, <2>1, <2>2, OtherCommand, Refused
  <2> QED BY <1>2, <2>2, <2>3, Lands
<1> QED BY <1>7, <1>8

LEMMA WhatArgumentStep ==
  ASSUME CommandsInv, WhatArgument
  PROVE  WordsInv' /\ PhaseInv'
BY ArgumentStep, Lands DEF WhatArgument

LEMMA GraphArgumentStep ==
  ASSUME CommandsInv, GraphArgument
  PROVE  WordsInv' /\ PhaseInv'
BY ArgumentStep, Lands DEF GraphArgument

\* parseCoords behind a command: the coordinates are the third word of the line, or the
\* line asks for nothing.
LEMMA CoordsRead ==
  ASSUME WordsInv, NEW command \in {"what", "graph"}, NEW next, AtCoords(command), ParseCoords(next),
         UNCHANGED <<line, lineNo>>
  PROVE  /\ WordsInv'
         /\ \/ /\ pc' = next /\ xyzState' = "owned" /\ Querying(command)' /\ used' = 3
               /\ CoordsOf[line[3]] \in IntType \X IntType \X IntType
            \/ pc' = "prompt" /\ AtPrompt' /\ xyzState' = "none"
<1>1. /\ line' = line /\ lineNo' = lineNo /\ ss' = Rest(ss) /\ word' = Extracted /\ word = "block"
      /\ xyzState = "none" /\ lineNo > 0 /\ Begun(command) /\ used = 2
  BY DEF ParseCoords, Read, AtCoords
<1>2. WordsInv' /\ used' = IF used = Len(line) THEN used ELSE used + 1
  BY ONLY <1>1, WordsInv, WordsRead
<1>3. /\ Len(line) \in Nat /\ (ss = << >> <=> used = Len(line))
      /\ ss # << >> => Head(ss) = line[used + 1] /\ used < Len(line)
  BY ONLY WordsInv, TakeWord
<1>4. ss # << >> => word' = line[3] /\ Len(line) >= 3 /\ used' = 3
  BY ONLY <1>1, <1>2, <1>3 DEF Extracted
<1>5. ss = << >> => word' = "block" /\ Len(line) = 2
  BY ONLY <1>1, <1>3 DEF Extracted
<1>6. CASE word' \in DOMAIN CoordsOf
  <2>1. ss # << >>
    BY <1>5, <1>6, ViewerAssumption
  <2>2. pc' = next /\ xyzState' = "owned" /\ xyz' = CoordsOf[word']
    BY <1>6 DEF ParseCoords, Goto
  <2>3. Querying(command)'
    BY ONLY <1>1, <1>4, <1>6, <2>1, <2>2, Zenon DEF Querying, Located, Begun
  <2>4. CoordsOf[line[3]] \in IntType \X IntType \X IntType
    BY <1>4, <1>6, <2>1, ViewerAssumption
  <2> QED BY ONLY <1>2, <1>4, <2>1, <2>2, <2>3, <2>4
<1>7. CASE word' \notin DOMAIN CoordsOf
  <2>1. Len(line) < 3 \/ line[3] \notin DOMAIN CoordsOf
    BY ONLY <1>4, <1>5, <1>7
  <2>2. ~WhatQuery(line) /\ ~GraphQuery(line)
    BY ONLY <1>3, <2>1 DEF WhatQuery, GraphQuery
  <2>3. ~(GraphAccepted(line))'
    BY ONLY <1>1, <2>2, Zenon DEF GraphAccepted
  <2>4. pc' = "prompt" /\ reply' = Says("bad_coordinates") /\ xyzState' = "none"
    BY <1>7 DEF ParseCoords, Answer, Goto
  <2>5. AtPrompt'
    BY ONLY <1>1, <2>2, <2>3, <2>4, Refused
  <2> QED BY ONLY <1>2, <2>4, <2>5
<1> QED BY ONLY <1>6, <1>7

\* The coordinates of "what": no flag has been read.
LEMMA WhatCoordsStep ==
  ASSUME CommandsInv, WhatCoords
  PROVE  WordsInv' /\ PhaseInv'
<1>1. /\ WordsInv /\ AtCoords("what") /\ ParseCoords("whatFlags") /\ UNCHANGED <<line, lineNo>>
      /\ dim' = dim
  BY DEF WhatCoords, CommandsInv, PhaseInv, optionVars
<1>2. /\ WordsInv'
      /\ \/ pc' = "whatFlags" /\ xyzState' = "owned" /\ Querying("what")' /\ used' = 3
         \/ pc' = "prompt" /\ AtPrompt'
  BY ONLY <1>1, CoordsRead
<1>3. CASE pc' = "prompt"
  BY <1>2, <1>3, Lands
<1>4. CASE pc' # "prompt"
  <2>1. pc' = "whatFlags" /\ xyzState' = "owned" /\ Querying("what")' /\ used' = 3
    BY <1>2, <1>4
  <2>2. (DimensionsUpTo(used))' = {}
    <3>1. (DimensionsUpTo(used))' = {j \in DimensionFlags(line') : j <= 3}
      BY ONLY <2>1 DEF DimensionsUpTo
    <3>2. \A j \in DimensionFlags(line') : j \in Int /\ j >= 4
      BY ONLY DEF DimensionFlags
    <3> QED BY ONLY <3>1, <3>2
  <2>3. dim' = "OVERWORLD"
    BY ONLY <1>1 DEF AtCoords
  <2>4. (dim = DimensionOf[LastOf(line, DimensionsUpTo(used), "overworld")])'
    BY ONLY <2>2, <2>3, Dimensions DEF LastOf
  <2>5. AtWhatFlags'
    BY ONLY <2>1, <2>2, <2>4 DEF AtWhatFlags
  <2> QED BY <1>2, <2>1, <2>5, Lands
<1> QED BY <1>3, <1>4

\* A word behind the coordinates of "what", with its value if it is "-d".
LEMMA WhatFlagStep ==
  ASSUME CommandsInv, WhatFlag
  PROVE  WordsInv' /\ PhaseInv'
<1>1. /\ pc = "whatFlags" /\ WordsInv /\ AtWhatFlags /\ ss # << >> /\ line' = line /\ lineNo' = lineNo
      /\ xyz' = xyz
  BY DEF WhatFlag, CommandsInv, PhaseInv
<1>2. PICK flag, value : flag = Head(ss) /\ value = IF Len(ss) > 1 THEN ss[2] ELSE flag
  BY Zenon
<1>3. \/ /\ flag # "-d" /\ ss' = Rest(ss) /\ UNCHANGED <<dim, xyzState, pc>>
      \/ /\ flag = "-d" /\ ss' = Rest(Tail(ss)) /\ value \in DOMAIN DimensionOf
         /\ dim' = DimensionOf[value] /\ UNCHANGED <<xyzState, pc>>
      \/ /\ flag = "-d" /\ ss' = Rest(Tail(ss)) /\ value \notin DOMAIN DimensionOf /\ xyzState' = "freed"
         /\ pc' = (IF xyzState = "freed" THEN "undefined" ELSE pc)
  <2>1. ss' = Tail(ss) => ss' = Rest(ss)
    BY ONLY <1>1 DEF Rest
  <2> QED BY <1>2, <2>1, Zenon DEF WhatFlag
<1>4. PICK n, L, r : n = used /\ L = Len(line) /\ r = Len(ss)
  BY Zenon
<1>5. /\ L \in Nat /\ n \in 0 .. L /\ n < L /\ flag = line[n + 1] /\ (r > 1 => value = line[n + 2])
      /\ r = L - n
  BY ONLY <1>1, <1>2, <1>4, TakeWord DEF used
<1>6. /\ Querying("what") /\ n >= 3 /\ xyzState \in {"owned", "freed"} /\ Querying("what")'
      /\ xyzState = "owned" =>
           /\ \A j \in DimensionsUpTo(n) : j < L /\ line[j + 1] \in DOMAIN DimensionOf
           /\ dim = DimensionOf[LastOf(line, DimensionsUpTo(n), "overworld")]
      /\ xyzState = "freed" => ~GoodDimensions(line)
  BY ONLY <1>1, <1>4 DEF AtWhatFlags, Querying, Located, Begun
<1>7. \A m : (DimensionsUpTo(m))' = {j \in 4 .. L : line[j] = "-d" /\ j <= m}
             /\ DimensionsUpTo(m) = {j \in 4 .. L : line[j] = "-d" /\ j <= m}
  BY ONLY <1>1, <1>4 DEF DimensionsUpTo, DimensionFlags
<1>8. CASE flag # "-d"
  <2>1. ss' = Rest(ss) /\ UNCHANGED <<dim, xyzState, pc>>
    BY ONLY <1>3, <1>8
  <2>2. WordsInv' /\ used' = n + 1
    BY ONLY <1>1, <1>4, <1>5, <2>1, WordsRead
  <2>3. (DimensionsUpTo(used))' = DimensionsUpTo(n)
    <3>1. (DimensionsUpTo(used))' = {j \in 4 .. L : line[j] = "-d" /\ j <= n + 1}
      BY ONLY <1>1, <1>4, <2>2 DEF DimensionsUpTo, DimensionFlags
    <3>2. \A j \in 4 .. L : line[j] = "-d" => (j <= n + 1 <=> j <= n)
      BY ONLY <1>5, <1>8
    <3> QED BY ONLY <1>7, <3>1, <3>2, Zenon
  <2>4. AtWhatFlags'
    BY ONLY <1>1, <1>4, <1>5, <1>6, <2>1, <2>2, <2>3 DEF AtWhatFlags
  <2> QED BY <1>1, <2>1, <2>2, <2>4, Lands
<1>9. CASE flag = "-d" /\ value \in DOMAIN DimensionOf
  <2>1. ss' = Rest(Tail(ss)) /\ dim' = DimensionOf[value] /\ UNCHANGED <<xyzState, pc>>
    BY ONLY <1>3, <1>9
  <2>2. r > 1 /\ n + 2 <= L /\ line[n + 2] = value /\ value # "-d"
    BY ONLY <1>2, <1>4, <1>5, <1>9, Dimensions
  <2>3. WordsInv' /\ used' = n + 2
    BY ONLY <1>1, <1>4, <1>5, <2>1, <2>2, WordsRead
  <2>4. (DimensionsUpTo(used))' = DimensionsUpTo(n) \cup {n + 1}
    <3>1. (DimensionsUpTo(used))' = {j \in 4 .. L : line[j] = "-d" /\ j <= n + 2}
      BY ONLY <1>1, <1>4, <2>3 DEF DimensionsUpTo, DimensionFlags
    <3>2. \A j \in 4 .. L : line[j] = "-d" => (j <= n + 2 <=> j <= n \/ j = n + 1)
      BY ONLY <1>5, <2>2
    <3>3. n + 1 \in 4 .. L /\ line[n + 1] = "-d"
      BY ONLY <1>5, <1>6, <1>9
    <3> QED BY ONLY <1>7, <3>1, <3>2, <3>3, Zenon
  <2>5. LastOf(line, DimensionsUpTo(n) \cup {n + 1}, "overworld") = value
    <3>1. DimensionsUpTo(n) \in SUBSET Int /\ n + 1 \in Int /\ \A j \in DimensionsUpTo(n) : j < n + 1
      BY ONLY <1>5, <1>7
    <3>2. n + 1 + 1 = n + 2
      BY ONLY <1>5
    <3> QED BY ONLY <2>2, <3>1, <3>2, LastIsNew
  <2>6. (dim = DimensionOf[LastOf(line, DimensionsUpTo(used), "overworld")])'
    BY ONLY <1>1, <2>1, <2>4, <2>5
  <2>7. xyzState = "owned" => \A j \in DimensionsUpTo(n) \cup {n + 1} : j < L /\ line[j + 1] \in DOMAIN DimensionOf
    BY ONLY <1>5, <1>6, <1>9, <2>2
  <2>8. AtWhatFlags'
    BY ONLY <1>1, <1>4, <1>5, <1>6, <2>1, <2>3, <2>4, <2>6, <2>7 DEF AtWhatFlags
  <2> QED BY <1>1, <2>1, <2>3, <2>8, Lands
<1>10. CASE flag = "-d" /\ value \notin DOMAIN DimensionOf
  <2>1. /\ ss' = Rest(Tail(ss)) /\ xyzState' = "freed"
        /\ pc' = (IF xyzState = "freed" THEN "undefined" ELSE pc)
    BY ONLY <1>3, <1>10
  <2>2. WordsInv' /\ used' >= 3
    BY ONLY <1>1, <1>4, <1>5, <1>6, <2>1, WordsRead
  <2>3. ~GoodDimensions(line)
    <3>1. n + 1 \in DimensionFlags(line)
      <4>1. n + 1 \in 4 .. Len(line) /\ line[n + 1] = "-d"
        BY ONLY <1>4, <1>5, <1>6, <1>10
      <4> QED BY ONLY <4>1, Zenon DEF DimensionFlags
    <3>2. ~(n + 1 < Len(line) /\ line[n + 2] \in DOMAIN DimensionOf)
      BY ONLY <1>4, <1>5, <1>10
    <3>3. n + 1 + 1 = n + 2
      BY ONLY <1>5
    <3> QED BY ONLY <3>1, <3>2, <3>3, Zenon DEF GoodDimensions
  <2>4. WhatQuery(line)
    BY ONLY <1>4, <1>5, <1>6 DEF Querying, Located, Begun, WhatQuery
  <2>5. CASE xyzState = "freed"
    <3>1. Lost' /\ pc' = "undefined"
      BY ONLY <1>1, <2>1, <2>3, <2>4, <2>5, Zenon DEF Lost
    <3> QED BY <2>2, <3>1, Lands
  <2>6. CASE xyzState # "freed"
    <3>1. AtWhatFlags' /\ pc' = "whatFlags"
      BY ONLY <1>1, <1>6, <2>1, <2>2, <2>3, <2>6 DEF AtWhatFlags
    <3> QED BY <2>2, <3>1, Lands
  <2> QED BY <2>5, <2>6
<1> QED BY <1>8, <1>9, <1>10

\* The value of the last flag is in a set all values are in, the default included.
LEMMA LastOfIn ==
  ASSUME NEW l, NEW m \in Nat, NEW n \in Nat, NEW J \in SUBSET (m .. n), NEW default, NEW S,
         J = {} => default \in S, \A j \in J : l[j + 1] \in S
  PROVE  LastOf(l, J, default) \in S
<1>1. CASE J = {}
  BY <1>1 DEF LastOf
<1>2. CASE J # {}
  <2>1. \E j \in J : \A k \in J : j >= k
    <3> DEFINE D == {n - j : j \in J}
    <3>1. \A j \in J : n - j \in Nat
      OBVIOUS
    <3>2. D \in SUBSET Nat /\ D # {}
      BY <1>2, <3>1, Zenon DEF D
    <3>3. \E d \in D : \A e \in D : d <= e
      BY ONLY <3>2, LeastNat, Zenon
    <3>4. PICK j \in J : \A e \in D : n - j <= e
      BY ONLY <3>3 DEF D
    <3>5. \A k \in J : n - j <= n - k
      BY ONLY <3>4 DEF D
    <3>6. \A k \in J : j >= k
      BY ONLY <3>5, m \in Nat, n \in Nat, J \in SUBSET (m .. n)
    <3> QED BY ONLY <3>6
  <2>2. Max(J) \in J
    BY ONLY <2>1, Zenon DEF Max
  <2> QED BY ONLY <1>2, <2>2, \A j \in J : l[j + 1] \in S, Zenon DEF LastOf
<1> QED BY ONLY <1>1, <1>2

\* What a line asks for, once all of it is read.
LEMMA AllRead ==
  ASSUME WordsInv, ss = << >>
  PROVE  used = Len(line) /\ Len(line) \in Nat
BY TakeWord

\* The coordinates are three numbers.
LEMMA Located3 ==
  ASSUME NEW l, l[3] \in DOMAIN CoordsOf
  PROVE  /\ CoordsOf[l[3]] \in IntType \X IntType \X IntType
         /\ CoordsOf[l[3]][1] \in Int /\ CoordsOf[l[3]][2] \in IntType /\ CoordsOf[l[3]][3] \in Int
<1>1. CoordsOf[l[3]] \in IntType \X IntType \X IntType
  BY ViewerAssumption
<1>2. PICK t : t = CoordsOf[l[3]]
  BY Zenon
<1>3. IntType \subseteq Int
  BY ViewerAssumption DEF IntType
<1>4. t[1] \in IntType /\ t[2] \in IntType /\ t[3] \in IntType
  BY ONLY <1>1, <1>2
<1> QED BY ONLY <1>1, <1>2, <1>3, <1>4

\* A wild tag pointer is read at one height only.
LEMMA WildHeight ==
  ASSUME NEW T, NEW h \in ChunkOver(T), NEW x, NEW yy \in Int, NEW z, NEW b \in chunkGetBlock(h, x, yy, z)
  PROVE  b.state \in Int /\ (b.state >= 0 /\ b.tags = << >> => yy = Height)
<1>1. Height \in Nat
  BY ChunkAssumption DEF Height
<1>2. CASE outOfBounds(x, yy, z)
  BY ONLY <1>2, b \in chunkGetBlock(h, x, yy, z) DEF chunkGetBlock, NoBlock, Unset
<1>3. CASE ~outOfBounds(x, yy, z) /\ yy >= Height
  <2>1. yy = Height
    BY ONLY <1>1, <1>3, yy \in Int DEF outOfBounds
  <2>2. b \in {NoBlock, CorruptBlock, WildBlock}
    BY ONLY <1>3, b \in chunkGetBlock(h, x, yy, z) DEF chunkGetBlock
  <2> QED BY ONLY <2>1, <2>2 DEF NoBlock, CorruptBlock, WildBlock, Unset, Corrupt
<1>4. CASE ~outOfBounds(x, yy, z) /\ ~(yy >= Height)
  <2>1. <<x, yy, z>> \in Cell
    BY ONLY <1>1, <1>4, yy \in Int DEF outOfBounds, Cell
  <2>2. PICK s : s = h.blocks[<<x, yy, z>>]
    BY Zenon
  <2>3. PICK t : b = [state |-> s, tags |-> IF s >= 0 THEN <<t>> ELSE << >>]
    BY ONLY <1>4, <2>2, b \in chunkGetBlock(h, x, yy, z), Zenon DEF chunkGetBlock
  <2>4. b.state = s /\ (s >= 0 => b.tags = <<t>>)
    BY ONLY <2>3
  <2>5. s \in Int
    <3>1. h.blocks \in [Cell -> Int]
      BY ONLY h \in ChunkOver(T) DEF ChunkOver
    <3> QED BY ONLY <2>1, <2>2, <3>1, Zenon
  <2> QED BY ONLY <2>4, <2>5
<1> QED BY ONLY <1>2, <1>3, <1>4

\* Inside the column the block is one of the palette of its sub-chunk.
LEMMA BlockInside ==
  ASSUME NEW T, NEW h \in ChunkOver(T), NEW x \in Side, NEW yy \in 0 .. Height - 1, NEW z \in Side,
         NEW b \in chunkGetBlock(h, x, yy, z), b.state >= 0
  PROVE  /\ <<x, yy, z>> \in Cell /\ b.state = h.blocks[<<x, yy, z>>]
         /\ b.tags = <<h.blockStates[yy \div Edge][b.state + 1]>>
<1>1. ~outOfBounds(x, yy, z) /\ ~(yy >= Height) /\ <<x, yy, z>> \in Cell
  BY ChunkAssumption DEF Height, outOfBounds, Cell
<1>2. PICK s, t : s = h.blocks[<<x, yy, z>>] /\ t = h.blockStates[yy \div Edge][s + 1]
  BY Zenon
<1>3. b = [state |-> s, tags |-> IF s >= 0 THEN <<t>> ELSE << >>]
  BY ONLY <1>1, <1>2, b \in chunkGetBlock(h, x, yy, z), Zenon DEF chunkGetBlock
<1>4. b.state = s /\ (s >= 0 => b.tags = <<t>>)
  BY ONLY <1>3
<1>5. b.tags = <<h.blockStates[yy \div Edge][b.state + 1]>>
  BY ONLY <1>2, <1>4, b.state >= 0, Zenon
<1> QED BY ONLY <1>1, <1>2, <1>4, <1>5, Zenon

\* A chunk that is found has the coordinates it was looked for under.
LEMMA Found ==
  ASSUME Loaded(world, heap), NEW d \in ChunkDimension, NEW id, NEW c, c = findChunk(world, id, d), c # nullptr
  PROVE  /\ c \in DOMAIN heap /\ id = chunkID(heap[c].x, heap[c].z)
         /\ heap[c] \in ChunkOver(PaletteTags(heap))
         /\ heap[c].x \in Int /\ heap[c].z \in Int
<1>1. id \in DOMAIN world[d] /\ c = world[d][id]
  BY Zenon DEF findChunk
<1>2. c \in DOMAIN heap /\ id = chunkID(heap[c].x, heap[c].z)
  <2>1. \A e \in ChunkDimension : \A j \in DOMAIN world[e] :
          world[e][j] \in DOMAIN heap /\ j = chunkID(heap[world[e][j]].x, heap[world[e][j]].z)
    BY Zenon DEF Loaded
  <2>2. PICK w : w = world[d][id]
    BY Zenon
  <2>3. w \in DOMAIN heap /\ id = chunkID(heap[w].x, heap[w].z)
    BY ONLY <1>1, <2>1, <2>2, d \in ChunkDimension, Zenon
  <2> QED BY ONLY <1>1, <2>2, <2>3, Zenon
<1>3. heap[c] \in ChunkOver(PaletteTags(heap))
  <2>1. PICK T : T = PaletteTags(heap)
    BY Zenon
  <2>2. heap \in Seq(ChunkOver(T))
    BY ONLY <2>1, Loaded(world, heap), Zenon DEF Loaded
  <2> QED BY ONLY <1>2, <2>1, <2>2
<1>4. heap[c].x \in Int /\ heap[c].z \in Int
  BY ONLY <1>3 DEF ChunkOver
<1> QED BY ONLY <1>2, <1>3, <1>4

\* What getBlock of the world returns.
LEMMA WorldBlocks ==
  ASSUME Loaded(world, heap), NEW d \in ChunkDimension, NEW x, NEW yy \in Int, NEW z,
         NEW b \in worldGetBlock(world, heap, x, yy, z, d)
  PROVE  b.state \in Int /\ (b.state >= 0 /\ b.tags = << >> => yy = Height)
<1>1. PICK id, c : id = chunkID(ChunkOf(x), ChunkOf(z)) /\ c = findChunk(world, id, d)
  BY Zenon
<1>2. b \in IF c = nullptr THEN {NoBlock} ELSE chunkGetBlock(heap[c], RawOf(x), yy, RawOf(z))
  BY ONLY <1>1, b \in worldGetBlock(world, heap, x, yy, z, d), Zenon DEF worldGetBlock, getBlockChunk
<1>3. CASE c = nullptr
  BY ONLY <1>2, <1>3 DEF NoBlock, Unset
<1>4. CASE c # nullptr
  <2>1. PICK h, T : h = heap[c] /\ T = PaletteTags(heap)
    BY Zenon
  <2>2. h \in ChunkOver(T)
    BY ONLY <1>1, <1>4, <2>1, Found, Loaded(world, heap), d \in ChunkDimension, Zenon
  <2>3. PICK rx, rz : b \in chunkGetBlock(h, rx, yy, rz)
    BY ONLY <1>2, <1>4, <2>1, Zenon
  <2> QED BY ONLY <2>2, <2>3, yy \in Int, WildHeight, Zenon
<1> QED BY ONLY <1>3, <1>4

\* A dimension that is asked for is one.
LEMMA AtDimension ==
  ASSUME WordsInv, AtWhatFlags, xyzState = "owned"
  PROVE  dim \in ChunkDimension
<1>1. PICK J : J = DimensionsUpTo(used)
  BY Zenon
<1>2. /\ \A j \in J : j < Len(line) /\ line[j + 1] \in DOMAIN DimensionOf
      /\ dim = DimensionOf[LastOf(line, J, "overworld")]
  BY ONLY <1>1, AtWhatFlags, xyzState = "owned", Zenon DEF AtWhatFlags
<1>3. J \in SUBSET (4 .. Len(line)) /\ Len(line) \in Nat
  BY ONLY <1>1, WordsInv, LenProperties DEF DimensionsUpTo, DimensionFlags, WordsInv
<1>4. LastOf(line, J, "overworld") \in DOMAIN DimensionOf
  BY ONLY <1>2, <1>3, Dimensions, LastOfIn, 4 \in Nat
<1> QED BY ONLY <1>2, <1>4, Dimensions

\* The answer to "what block".
LEMMA WhatAnswerStep ==
  ASSUME CommandsInv, WhatAnswer
  PROVE  WordsInv' /\ PhaseInv'
<1>1. /\ WordsInv /\ AtWhatFlags /\ ss = << >> /\ xyzState = "owned"
      /\ line' = line /\ lineNo' = lineNo /\ ss' = ss /\ UNCHANGED <<world, heap>>
  BY DEF WhatAnswer, CommandsInv, PhaseInv, worldVars
<1>2. WordsInv'
  BY ONLY <1>1, WordsRead
<1>3. /\ Querying("what") /\ Len(line) \in Nat
      /\ \A j \in DimensionsUpTo(Len(line)) : j < Len(line) /\ line[j + 1] \in DOMAIN DimensionOf
      /\ dim = DimensionOf[LastOf(line, DimensionsUpTo(Len(line)), "overworld")]
  BY ONLY <1>1, AllRead, Zenon DEF AtWhatFlags
<1>4. DimensionsUpTo(Len(line)) = DimensionFlags(line)
  BY ONLY <1>3 DEF DimensionsUpTo, DimensionFlags
<1>5. WhatQuery(line) /\ GoodDimensions(line) /\ ~GraphQuery(line) /\ xyz = CoordsOf[line[3]]
  <2>1. WhatQuery(line) /\ ~GraphQuery(line)
    BY ONLY <1>3 DEF Querying, Located, Begun, WhatQuery, GraphQuery
  <2>2. GoodDimensions(line)
    BY ONLY <1>3, <1>4, Zenon DEF GoodDimensions
  <2> QED BY ONLY <1>3, <2>1, <2>2, Zenon DEF Querying
<1>6. worldGetBlock(world, heap, xyz[1], xyz[2], xyz[3], dim) = WhatBlocks(line)
  BY ONLY <1>3, <1>4, <1>5, Zenon DEF WhatBlocks
<1>7. ~(GraphAccepted(line))'
  BY ONLY <1>1, <1>5, Zenon DEF GraphAccepted
<1>8. PICK b \in WhatBlocks(line) :
        \/ b.state < 0 /\ Answer(Says("block_not_valid"), "none")
        \/ /\ b.state >= 0 /\ b.tags # << >>
           /\ Answer([kind |-> "block", at |-> xyz, tags |-> b.tags], "none")
        \/ b.state >= 0 /\ b.tags = << >> /\ Goto("undefined")
  BY ONLY <1>6, WhatAnswer, Zenon DEF WhatAnswer
<1>9. b.state \in Int /\ (b.state >= 0 /\ b.tags = << >> => xyz[2] = Height)
  <2>1. xyz[2] \in Int
    <3>1. line[3] \in DOMAIN CoordsOf
      BY ONLY <1>3 DEF Querying, Located
    <3>2. IntType \subseteq Int
      BY ViewerAssumption DEF IntType
    <3> QED BY ONLY <1>5, <3>1, <3>2, Located3
  <2>2. dim \in ChunkDimension
    BY ONLY <1>1, AtDimension
  <2>3. Loaded(world, heap)
    BY DEF CommandsInv
  <2>4. PICK x, z : x = xyz[1] /\ z = xyz[3]
    BY Zenon
  <2>5. b \in worldGetBlock(world, heap, x, xyz[2], z, dim)
    BY ONLY <1>6, <2>4, b \in WhatBlocks(line), Zenon
  <2> QED BY ONLY <2>1, <2>2, <2>3, <2>5, WorldBlocks, Zenon
<1>10. WhatBlocks(line)' = WhatBlocks(line)
  BY ONLY <1>1, SameQuestion
<1>11. CASE b.state < 0 /\ Answer(Says("block_not_valid"), "none")
  <2>1. reply' = Says("block_not_valid") /\ pc' = "prompt" /\ xyzState' = "none"
    BY ONLY <1>11 DEF Answer, Goto
  <2>2. reply'.kind = "block_not_valid"
    BY ONLY <2>1 DEF Says, NoReply
  <2>3. reply' = IF b.state < 0 THEN Says("block_not_valid")
                 ELSE [kind |-> "block", at |-> CoordsOf[line'[3]], tags |-> b.tags]
    BY ONLY <1>11, <2>1
  <2>4. AnswerRight'
    BY ONLY <1>1, <1>5, <1>7, <1>10, b \in WhatBlocks(line), <2>2, <2>3, Zenon DEF AnswerRight
  <2>5. AtPrompt'
    BY ONLY <2>1, <2>4, Zenon DEF AtPrompt
  <2> QED BY <1>2, <2>1, <2>5, Lands
<1>12. CASE ~(b.state < 0) /\ Answer([kind |-> "block", at |-> xyz, tags |-> b.tags], "none")
  <2>1. reply' = [kind |-> "block", at |-> xyz, tags |-> b.tags] /\ pc' = "prompt" /\ xyzState' = "none"
    BY ONLY <1>12 DEF Answer, Goto
  <2>2. reply'.kind = "block"
    BY ONLY <2>1
  <2>3. reply' = IF b.state < 0 THEN Says("block_not_valid")
                 ELSE [kind |-> "block", at |-> CoordsOf[line'[3]], tags |-> b.tags]
    BY ONLY <1>1, <1>5, <1>12, <2>1, Zenon
  <2>4. AnswerRight'
    BY ONLY <1>1, <1>5, <1>7, <1>10, b \in WhatBlocks(line), <2>2, <2>3, Zenon DEF AnswerRight
  <2>5. AtPrompt'
    BY ONLY <2>1, <2>4, Zenon DEF AtPrompt
  <2> QED BY <1>2, <2>1, <2>5, Lands
<1>13. CASE b.state >= 0 /\ b.tags = << >> /\ Goto("undefined")
  <2>1. CoordsOf[line[3]][2] = Height
    BY ONLY <1>5, <1>13, <1>9, Zenon
  <2>2. Lost'
    BY ONLY <1>1, <1>5, <2>1, Zenon DEF Lost
  <2>3. pc' = "undefined"
    BY ONLY <1>13 DEF Goto
  <2> QED BY <1>2, <2>2, <2>3, Lands
<1>14. b.state >= 0 => ~(b.state < 0)
  BY ONLY <1>9
<1> QED BY ONLY <1>8, <1>11, <1>12, <1>13, <1>14, Zenon

\* The query that goes on after delete[] xyz.
LEMMA WhatAfterFreeStep ==
  ASSUME CommandsInv, WhatAfterFree
  PROVE  WordsInv' /\ PhaseInv'
<1>1. /\ WordsInv /\ AtWhatFlags /\ xyzState = "freed" /\ pc' = "undefined"
      /\ line' = line /\ lineNo' = lineNo /\ ss' = ss
  BY DEF WhatAfterFree, CommandsInv, PhaseInv, Goto
<1>2. WordsInv'
  BY ONLY <1>1, WordsRead
<1>3. WhatQuery(line) /\ ~GoodDimensions(line)
  BY ONLY <1>1 DEF AtWhatFlags, Querying, Located, Begun, WhatQuery
<1>4. Lost'
  BY ONLY <1>1, <1>3, Zenon DEF Lost
<1> QED BY <1>1, <1>2, <1>4, Lands

\* The coordinates of "graph", and the bounds of the sub-chunk they lie in.
LEMMA GraphCoordsStep ==
  ASSUME CommandsInv, GraphCoords
  PROVE  WordsInv' /\ PhaseInv'
<1>1. /\ WordsInv /\ AtCoords("graph") /\ ParseCoords("graphFile") /\ UNCHANGED <<line, lineNo>>
      /\ dim' = dim /\ facing' = facing
      /\ \/ /\ yMin' = Edge * (xyz'[2] \div Edge) /\ yMax' = WrapInt(yMin' + Edge)
         \/ xyzState' = "none"
  BY DEF GraphCoords, CommandsInv, PhaseInv
<1>2. /\ WordsInv'
      /\ \/ pc' = "graphFile" /\ xyzState' = "owned" /\ Querying("graph")' /\ used' = 3
         \/ pc' = "prompt" /\ AtPrompt'
  BY ONLY <1>1, CoordsRead
<1>3. CASE pc' = "prompt"
  BY <1>2, <1>3, Lands
<1>4. CASE pc' # "prompt"
  <2>1. pc' = "graphFile" /\ xyzState' = "owned" /\ Querying("graph")' /\ used' = 3
    BY <1>2, <1>4
  <2>2. dim' = "OVERWORLD" /\ facing' = "n"
    BY ONLY <1>1, Zenon DEF AtCoords
  <2>3. yMin' = Edge * (xyz'[2] \div Edge) /\ yMax' = WrapInt(yMin' + Edge) /\ xyz' = CoordsOf[line'[3]]
    BY ONLY <1>1, <2>1 DEF Querying
  <2>4. yMin' = Bottom' /\ yMax' = WrapInt(Bottom' + Edge)
    BY ONLY <2>3, Zenon DEF Bottom
  <2>5. AtGraphFile'
    BY ONLY <2>1, <2>2, <2>4, Zenon DEF AtGraphFile, WrapInt
  <2> QED BY <1>2, <2>1, <2>5, Lands
<1> QED BY <1>3, <1>4

\* Division with remainder.
LEMMA Division ==
  ASSUME NEW n \in Int
  PROVE  n \div Edge \in Int /\ n % Edge \in Side /\ n = Edge * (n \div Edge) + (n % Edge)
BY ChunkAssumption DEF Side

\* The sub-chunk the coordinates of a graph lie in has bounds that an int can hold.
LEMMA BottomFits ==
  ASSUME line[3] \in DOMAIN CoordsOf
  PROVE  /\ Bottom \in IntType /\ Bottom + Edge - 1 \in IntType /\ Edge \in Nat \ {0}
         /\ IntMax \in Nat /\ IntType \subseteq Int
<1>1. PICK c : c = CoordsOf[line[3]][2]
  BY Zenon
<1>2. c \in IntType /\ IntMax \in Nat
  BY <1>1, Located3, ViewerAssumption
<1>3. PICK q \in Int, r \in Side : q = c \div Edge /\ c = Edge * q + r
  BY ONLY <1>2, Division DEF IntType
<1>4. Edge \in Nat \ {0}
  BY ChunkAssumption
<1>5. PICK m, k : m \in Int /\ m = (IntMax + 1) \div Edge /\ k = Edge * m /\ k = IntMax + 1
  <2>1. PICK i : i = IntMax + 1
    BY Zenon
  <2>2. i \in Int /\ i % Edge = 0
    BY ONLY <2>1, ViewerAssumption, IntMax \in Nat
  <2>3. i \div Edge \in Int /\ i = Edge * (i \div Edge) + 0
    BY ONLY <2>2, Division
  <2>4. i = Edge * (i \div Edge)
    BY ONLY <1>4, <2>2, <2>3
  <2> QED BY ONLY <2>1, <2>3, <2>4, Zenon
<1>6. q < m /\ -m <= q
  BY ONLY <1>2, <1>3, <1>5, <1>4 DEF IntType, Side
<1>7. Edge * q <= Edge * m - Edge /\ -(Edge * m) <= Edge * q
  BY ONLY <1>4, <1>5, <1>6, q \in Int
<1>8. PICK b : b = Edge * q /\ Bottom = b
  BY ONLY <1>1, <1>3 DEF Bottom
<1>9. b \in Int /\ b <= k - Edge /\ -k <= b /\ k = IntMax + 1
  BY ONLY <1>5, <1>4, <1>7, <1>8, q \in Int
<1>10. b \in IntType /\ b + Edge - 1 \in IntType
  BY ONLY <1>2, <1>4, <1>9 DEF IntType
<1> QED BY ONLY <1>2, <1>4, <1>8, <1>10 DEF IntType

\* The name of the file; no flag has been read.
LEMMA GraphFileStep ==
  ASSUME CommandsInv, GraphFile
  PROVE  WordsInv' /\ PhaseInv'
<1>1. /\ WordsInv /\ AtGraphFile /\ line' = line /\ lineNo' = lineNo /\ xyz' = xyz /\ ss' = Rest(ss)
      /\ fileName' = (IF ss = << >> THEN "" ELSE Head(ss))
      /\ UNCHANGED <<dim, facing, yMin, yMax>>
      /\ \/ fileName' # "" /\ pc' = "graphFlags" /\ xyzState' = xyzState
         \/ fileName' = "" /\ pc' = "prompt" /\ reply' = Says("bad_file_name") /\ xyzState' = "none"
  BY DEF GraphFile, CommandsInv, PhaseInv, Goto, Answer
<1>2. WordsInv' /\ used' = IF used = Len(line) THEN used ELSE used + 1
  BY ONLY <1>1, WordsRead
<1>3. /\ used = 3 /\ Len(line) \in Nat /\ (ss = << >> <=> used = Len(line))
      /\ ss # << >> => Head(ss) = line[4] /\ 3 < Len(line)
      /\ Head(ss) # "" \/ ss = << >>
  <2>1. used = 3
    BY ONLY <1>1, Zenon DEF AtGraphFile
  <2>2. ss # << >> => Head(ss) \in Word
    BY ONLY <1>1, HeadTailProperties DEF WordsInv
  <2>3. \A w \in Word : w # ""
    BY Zenon DEF Word
  <2>4. ss # << >> => Head(ss) = line[4] /\ 3 < Len(line)
    <3>1. ss # << >> => used < Len(line) /\ Head(ss) = line[used + 1]
      BY ONLY <1>1, TakeWord
    <3> QED BY ONLY <2>1, <3>1
  <2>5. Len(line) \in Nat /\ (ss = << >> <=> used = Len(line))
    BY ONLY <1>1, TakeWord
  <2> QED BY ONLY <2>1, <2>2, <2>3, <2>4, <2>5, Zenon
<1>4. CASE ss = << >>
  <2>1. pc' = "prompt" /\ reply' = Says("bad_file_name") /\ xyzState' = "none" /\ Len(line) = 3
    BY ONLY <1>1, <1>3, <1>4
  <2>2. ~WhatQuery(line) /\ ~GraphQuery(line)
    <3>1. line[1] = "graph"
      BY ONLY <1>1 DEF AtGraphFile, Querying, Located, Begun
    <3> QED BY ONLY <2>1, <3>1 DEF WhatQuery, GraphQuery
  <2>3. ~(GraphAccepted(line))'
    BY ONLY <1>1, <2>2, Zenon DEF GraphAccepted
  <2>4. AtPrompt'
    BY ONLY <1>1, <2>1, <2>2, <2>3, Refused
  <2> QED BY <1>2, <2>1, <2>4, Lands
<1>5. CASE ss # << >>
  <2>1. /\ pc' = "graphFlags" /\ xyzState' = "owned" /\ fileName' = line[4] /\ used' = 4 /\ 4 <= Len(line)
        /\ dim' = "OVERWORLD" /\ facing' = "n" /\ yMin' = Bottom /\ yMax' = WrapInt(Bottom + Edge)
    <3>1. xyzState = "owned" /\ dim = "OVERWORLD" /\ facing = "n" /\ yMin = Bottom /\ yMax = WrapInt(Bottom + Edge)
      BY ONLY <1>1, Zenon DEF AtGraphFile
    <3>2. fileName' = line[4] /\ fileName' # ""
      <4>1. fileName' = Head(ss)
        BY ONLY <1>1, <1>5
      <4>2. Head(ss) = line[4] /\ Head(ss) # ""
        BY ONLY <1>3, <1>5
      <4> QED BY ONLY <4>1, <4>2
    <3>3. used' = 4 /\ 4 <= Len(line)
      <4>1. 3 < Len(line) /\ used = 3 /\ Len(line) \in Nat
        BY ONLY <1>3, <1>5
      <4>2. PICK u, n, t : u = used /\ n = Len(line) /\ t = used'
        BY Zenon
      <4>3. t = (IF u = n THEN u ELSE u + 1) /\ 3 < n /\ u = 3 /\ n \in Nat
        BY ONLY <1>2, <4>1, <4>2, Zenon
      <4>4. t = 4 /\ 4 <= n
        BY ONLY <4>3
      <4> QED BY ONLY <4>2, <4>4, Zenon
    <3> QED BY ONLY <1>1, <3>1, <3>2, <3>3, Zenon
  <2>2. Querying("graph") /\ Querying("graph")' /\ Bottom' = Bottom
    BY ONLY <1>1 DEF AtGraphFile, Querying, Located, Begun, Bottom
  <2>3. \A flag : (OptionUpTo(flag, 4))' = {}
    BY ONLY DEF OptionUpTo, Option
  <2>4. /\ (LastOf(line, OptionUpTo("-d", 4), "overworld") = "overworld")'
        /\ (LastOf(line, OptionUpTo("-f", 4), "n") = "n")'
        /\ NumberUpTo("-ymin", 4, Bottom)' = Bottom'
        /\ NumberUpTo("-ymax", 4, Bottom + Edge - 1)' = (Bottom + Edge - 1)'
    BY ONLY <2>3, Zenon DEF LastOf, NumberUpTo
  <2>5. WrapInt(Bottom + Edge) = WrapInt(Bottom + Edge - 1 + 1)
    <3>1. line[3] \in DOMAIN CoordsOf
      BY ONLY <2>2 DEF Querying, Located
    <3>2. Bottom + Edge = Bottom + Edge - 1 + 1
      <4>1. Bottom \in IntType /\ IntType \subseteq Int /\ Edge \in Nat
        BY ONLY <3>1, BottomFits
      <4> QED BY ONLY <4>1
    <3> QED BY ONLY <3>2, Zenon
  <2>6. OptionsRead(4)'
    <3>1. (\A j \in 5 .. 4 : (j - 5) % 2 = 0 => GoodOption(j))'
      OBVIOUS
    <3>2. (dim = DimensionOf[LastOf(line, OptionUpTo("-d", 4), "overworld")])'
      BY ONLY <2>1, <2>4, Dimensions, Zenon
    <3>3. (facing = LastOf(line, OptionUpTo("-f", 4), "n"))'
      BY ONLY <2>1, <2>4, Zenon
    <3>4. (yMin = NumberUpTo("-ymin", 4, Bottom))' 
      BY ONLY <2>1, <2>2, <2>4, Zenon
    <3>5. (yMax = WrapInt(NumberUpTo("-ymax", 4, Bottom + Edge - 1) + 1))'
      BY ONLY <2>1, <2>2, <2>4, <2>5, Zenon
    <3> QED BY ONLY <3>1, <3>2, <3>3, <3>4, <3>5, Zenon DEF OptionsRead
  <2>7. AtGraphFlags'
    <3>1. used' >= 4 /\ used' % 2 = 0
      BY ONLY <2>1
    <3> QED BY ONLY <1>1, <2>1, <2>2, <2>6, <3>1, Zenon DEF AtGraphFlags
  <2> QED BY <1>2, <2>1, <2>7, Lands
<1> QED BY ONLY <1>4, <1>5

\* One more option: it is the last of its flag.
LEMMA OptionAdded ==
  ASSUME NEW n \in Nat, n >= 4, n % 2 = 0, n + 2 <= Len(line), Len(line) \in Nat
  PROVE  /\ \A f : OptionUpTo(f, n + 2) = IF line[n + 1] = f THEN OptionUpTo(f, n) \cup {n + 1} ELSE OptionUpTo(f, n)
         /\ \A f, default : LastOf(line, OptionUpTo(f, n + 2), default) =
              IF line[n + 1] = f THEN line[n + 2] ELSE LastOf(line, OptionUpTo(f, n), default)
         /\ \A f, default : NumberUpTo(f, n + 2, default) =
              IF line[n + 1] = f THEN IntOf[line[n + 2]] ELSE NumberUpTo(f, n, default)
<1>1. \A f : OptionUpTo(f, n + 2) = IF line[n + 1] = f THEN OptionUpTo(f, n) \cup {n + 1} ELSE OptionUpTo(f, n)
  <2> SUFFICES ASSUME NEW f
               PROVE  OptionUpTo(f, n + 2) = IF line[n + 1] = f THEN OptionUpTo(f, n) \cup {n + 1} ELSE OptionUpTo(f, n)
    OBVIOUS
  <2>1. \A k : OptionUpTo(f, k) = {j \in 5 .. Len(line) : (j - 5) % 2 = 0 /\ line[j] = f /\ j <= k}
    BY ONLY DEF OptionUpTo, Option
  <2>2. n + 1 \in 5 .. Len(line) /\ (n + 1 - 5) % 2 = 0
    BY ONLY n \in Nat, n >= 4, n % 2 = 0, n + 2 <= Len(line), Len(line) \in Nat
  <2>3. \A j \in 5 .. Len(line) : (j - 5) % 2 = 0 => (j <= n + 2 <=> j <= n \/ j = n + 1)
    BY ONLY n \in Nat, n >= 4, n % 2 = 0, n + 2 <= Len(line), Len(line) \in Nat
  <2>4. CASE line[n + 1] = f
    BY ONLY <2>1, <2>2, <2>3, <2>4
  <2>5. CASE line[n + 1] # f
    BY ONLY <2>1, <2>2, <2>3, <2>5
  <2> QED BY ONLY <2>4, <2>5
<1>2. \A f, default : LastOf(line, OptionUpTo(f, n + 2), default) =
        IF line[n + 1] = f THEN line[n + 2] ELSE LastOf(line, OptionUpTo(f, n), default)
  <2> SUFFICES ASSUME NEW f, NEW default
               PROVE  LastOf(line, OptionUpTo(f, n + 2), default) =
                        IF line[n + 1] = f THEN line[n + 2] ELSE LastOf(line, OptionUpTo(f, n), default)
    OBVIOUS
  <2>1. PICK J, m : J = OptionUpTo(f, n) /\ m = n + 1
    BY Zenon
  <2>2. J \in SUBSET Int /\ \A j \in J : j < m
    BY ONLY <2>1, n \in Nat DEF OptionUpTo, Option
  <2>3. m \in Int /\ m + 1 = n + 2
    BY ONLY <2>1, n \in Nat
  <2>4. LastOf(line, J \cup {m}, default) = line[n + 2]
    BY ONLY <2>2, <2>3, LastIsNew
  <2> QED BY ONLY <1>1, <2>1, <2>4, Zenon
<1>3. ASSUME NEW f, NEW default
      PROVE  NumberUpTo(f, n + 2, default) = IF line[n + 1] = f THEN IntOf[line[n + 2]] ELSE NumberUpTo(f, n, default)
  <2>1. CASE line[n + 1] = f
    <3>1. OptionUpTo(f, n + 2) # {}
      <4>1. n + 1 \in OptionUpTo(f, n + 2)
        BY ONLY <1>1, <2>1, Zenon
      <4> QED BY ONLY <4>1, Zenon
    <3> QED BY ONLY <1>2, <2>1, <3>1, Zenon DEF NumberUpTo
  <2>2. CASE line[n + 1] # f
    <3>1. OptionUpTo(f, n + 2) = OptionUpTo(f, n)
      BY ONLY <1>1, <2>2, Zenon
    <3> QED BY ONLY <2>2, <3>1, Zenon DEF NumberUpTo
  <2> QED BY ONLY <2>1, <2>2
<1> QED BY ONLY <1>1, <1>2, <1>3, Zenon

\* The options stand for the words read when a good one is added to them.
LEMMA OptionsGrow ==
  ASSUME NEW n \in Nat, n >= 4, n % 2 = 0, n + 2 <= Len(line), Len(line) \in Nat,
         OptionsRead(n), GoodOption(n + 1), UNCHANGED line,
         dim' = IF line[n + 1] = "-d" THEN DimensionOf[line[n + 2]] ELSE dim,
         facing' = IF line[n + 1] = "-f" THEN line[n + 2] ELSE facing,
         yMin' = IF line[n + 1] = "-ymin" THEN IntOf[line[n + 2]] ELSE yMin,
         yMax' = IF line[n + 1] = "-ymax" THEN WrapInt(IntOf[line[n + 2]] + 1) ELSE yMax
  PROVE  OptionsRead(n + 2)'
<1>1. /\ \A j \in 5 .. n : (j - 5) % 2 = 0 => GoodOption(j)
      /\ dim = DimensionOf[LastOf(line, OptionUpTo("-d", n), "overworld")]
      /\ facing = LastOf(line, OptionUpTo("-f", n), "n")
      /\ yMin = NumberUpTo("-ymin", n, Bottom)
      /\ yMax = WrapInt(NumberUpTo("-ymax", n, Bottom + Edge - 1) + 1)
  BY Zenon DEF OptionsRead
<1>2. /\ \A f, default : LastOf(line, OptionUpTo(f, n + 2), default) =
           IF line[n + 1] = f THEN line[n + 2] ELSE LastOf(line, OptionUpTo(f, n), default)
      /\ \A f, default : NumberUpTo(f, n + 2, default) =
           IF line[n + 1] = f THEN IntOf[line[n + 2]] ELSE NumberUpTo(f, n, default)
  BY OptionAdded, Zenon
<1>3. /\ \A f : (OptionUpTo(f, n + 2))' = OptionUpTo(f, n + 2)
      /\ Bottom' = Bottom /\ \A j : GoodOption(j)' <=> GoodOption(j)
  BY ONLY UNCHANGED line DEF OptionUpTo, Option, Bottom, GoodOption
<1>4. /\ \A f, default : (LastOf(line, OptionUpTo(f, n + 2), default))' = LastOf(line, OptionUpTo(f, n + 2), default)
      /\ \A f, default : (NumberUpTo(f, n + 2, default))' = NumberUpTo(f, n + 2, default)
  <2>1. \A f, default : (LastOf(line, OptionUpTo(f, n + 2), default))' = LastOf(line, OptionUpTo(f, n + 2), default)
    BY ONLY <1>3, UNCHANGED line DEF LastOf
  <2>2. \A f, default : (NumberUpTo(f, n + 2, default))' = NumberUpTo(f, n + 2, default)
    BY ONLY UNCHANGED line DEF NumberUpTo, LastOf, OptionUpTo, Option
  <2> QED BY ONLY <2>1, <2>2
<1>5. (\A j \in 5 .. n + 2 : (j - 5) % 2 = 0 => GoodOption(j))'
  <2>1. \A j \in 5 .. n + 2 : (j - 5) % 2 = 0 => j \in 5 .. n \/ j = n + 1
    BY ONLY n \in Nat, n >= 4, n % 2 = 0
  <2> QED BY ONLY <1>1, <1>3, <2>1, GoodOption(n + 1), Zenon
<1>6. (dim = DimensionOf[LastOf(line, OptionUpTo("-d", n + 2), "overworld")])'
  <2>1. LastOf(line, OptionUpTo("-d", n + 2), "overworld") =
          IF line[n + 1] = "-d" THEN line[n + 2] ELSE LastOf(line, OptionUpTo("-d", n), "overworld")
    BY ONLY <1>2, Zenon
  <2> QED BY <1>1, <1>4, <2>1, Zenon
<1>7. (facing = LastOf(line, OptionUpTo("-f", n + 2), "n"))'
  BY <1>1, <1>2, <1>4, Zenon
<1>8. (yMin = NumberUpTo("-ymin", n + 2, Bottom))'
  BY <1>1, <1>2, <1>3, <1>4, Zenon
<1>9. (yMax = WrapInt(NumberUpTo("-ymax", n + 2, Bottom + Edge - 1) + 1))'
  <2>1. NumberUpTo("-ymax", n + 2, Bottom + Edge - 1) =
          IF line[n + 1] = "-ymax" THEN IntOf[line[n + 2]] ELSE NumberUpTo("-ymax", n, Bottom + Edge - 1)
    BY ONLY <1>2, Zenon
  <2>2. (NumberUpTo("-ymax", n + 2, Bottom + Edge - 1))' = NumberUpTo("-ymax", n + 2, Bottom + Edge - 1)
    BY ONLY <1>3, <1>4, Zenon
  <2>3. yMax' = WrapInt(NumberUpTo("-ymax", n + 2, Bottom + Edge - 1) + 1)
    BY <1>1, <2>1, Zenon
  <2> QED BY ONLY <2>2, <2>3, Zenon
<1> QED BY ONLY <1>5, <1>6, <1>7, <1>8, <1>9, Zenon DEF OptionsRead

\* A line with a flag that is not followed by a value of its own asks for nothing.
LEMMA BadOption ==
  ASSUME NEW n \in Nat, n < Len(line), n >= 4, n % 2 = 0, Len(line) \in Nat,
         NEW flag, flag = line[n + 1], NEW value, Len(line) - n > 1 => line[n + 2] = value,
         ~(flag = "-d" /\ value \in DOMAIN DimensionOf), ~(flag = "-f" /\ value \in Facings),
         ~(flag \in {"-ymin", "-ymax"} /\ value \in DOMAIN IntOf)
  PROVE  ~GoodOptions(line)
<1>1. SUFFICES ASSUME GoodOptions(line) PROVE FALSE
  OBVIOUS
<1>2. PICK L, i : L = Len(line) /\ i = n + 1
  BY Zenon
<1>3. L % 2 = 0 /\ L \in Nat
  BY ONLY <1>1, <1>2, Len(line) \in Nat DEF GoodOptions
<1>4. i \in 5 .. L /\ (i - 5) % 2 = 0 /\ i + 1 = n + 2 /\ L - n > 1
  BY ONLY <1>2, <1>3, n \in Nat, n < Len(line), n >= 4, n % 2 = 0
<1>5. \/ line[i] = "-d" /\ line[i + 1] \in DOMAIN DimensionOf
      \/ line[i] = "-f" /\ line[i + 1] \in Facings
      \/ line[i] \in {"-ymin", "-ymax"} /\ line[i + 1] \in DOMAIN IntOf
  BY ONLY <1>1, <1>2, <1>4, Zenon DEF GoodOptions
<1>6. line[i] = flag /\ line[i + 1] = value
  BY <1>2, <1>4
<1> QED BY <1>5, <1>6, Zenon

\* A word behind the file name, with its value.
LEMMA GraphFlagStep ==
  ASSUME CommandsInv, GraphFlag
  PROVE  WordsInv' /\ PhaseInv'
<1> DEFINE Named == {"-d", "-f", "-ymin", "-ymax"}
<1>1. /\ pc = "graphFlags" /\ WordsInv /\ AtGraphFlags /\ ss # << >> /\ line' = line /\ lineNo' = lineNo
      /\ xyz' = xyz /\ fileName' = fileName
  BY DEF GraphFlag, CommandsInv, PhaseInv
<1>2. PICK flag, value : flag = Head(ss) /\ value = IF Len(ss) > 1 THEN ss[2] ELSE flag
  BY Zenon
<1>3. /\ ss' = IF flag \in Named THEN Rest(Tail(ss)) ELSE Tail(ss)
      /\ facing' = IF flag = "-f" THEN value ELSE facing
      /\ \/ /\ flag = "-d" /\ value \in DOMAIN DimensionOf /\ dim' = DimensionOf[value]
            /\ UNCHANGED <<reply, xyzState, pc>> /\ UNCHANGED <<yMin, yMax>>
         \/ /\ flag = "-f" /\ value \in Facings
            /\ UNCHANGED <<reply, xyzState, pc>> /\ UNCHANGED <<dim, yMin, yMax>>
         \/ /\ flag = "-ymin" /\ value \in DOMAIN IntOf /\ yMin' = IntOf[value]
            /\ UNCHANGED <<reply, xyzState, pc>> /\ UNCHANGED <<dim, yMax>>
         \/ /\ flag = "-ymax" /\ value \in DOMAIN IntOf /\ yMax' = WrapInt(IntOf[value] + 1)
            /\ UNCHANGED <<reply, xyzState, pc>> /\ UNCHANGED <<dim, yMin>>
         \/ /\ flag = "-d" => value \notin DOMAIN DimensionOf
            /\ flag = "-f" => value \notin Facings
            /\ flag \in {"-ymin", "-ymax"} => value \notin DOMAIN IntOf
            /\ Answer(Says("bad_option"), "none")
  BY <1>2, Zenon DEF GraphFlag
<1>4. PICK n, L, r : n = used /\ L = Len(line) /\ r = Len(ss)
  BY Zenon
<1>5. /\ L \in Nat /\ n \in 0 .. L /\ n < L /\ flag = line[n + 1] /\ (r > 1 => value = line[n + 2])
      /\ r = L - n
  BY ONLY <1>1, <1>2, <1>4, TakeWord DEF used
<1>6. /\ Querying("graph") /\ xyzState = "owned" /\ Querying("graph")' /\ n >= 4 /\ n % 2 = 0
      /\ fileName = line[4] /\ OptionsRead(n)
  BY ONLY <1>1, <1>4 DEF AtGraphFlags, Querying, Located, Begun
<1>7. CASE Answer(Says("bad_option"), "none") /\ ~(flag = "-d" /\ value \in DOMAIN DimensionOf)
           /\ ~(flag = "-f" /\ value \in Facings) /\ ~(flag \in {"-ymin", "-ymax"} /\ value \in DOMAIN IntOf)
  <2>1. pc' = "prompt" /\ reply' = Says("bad_option") /\ xyzState' = "none"
    BY ONLY <1>7 DEF Answer, Goto
  <2>2. WordsInv'
    <3>1. Tail(ss) = Rest(ss)
      BY ONLY <1>1 DEF Rest
    <3> QED BY ONLY <1>1, <1>3, <3>1, WordsRead
  <2>3. ~GoodOptions(line)
    <3>1. Len(line) = L /\ L \in Nat /\ n \in Nat /\ n < L /\ n >= 4 /\ n % 2 = 0
      BY ONLY <1>4, <1>5, <1>6
    <3>2. L - n > 1 => line[n + 2] = value
      BY ONLY <1>5
    <3> QED BY ONLY <1>5, <1>7, <3>1, <3>2, BadOption
  <2>4. ~WhatQuery(line)
    BY ONLY <1>6 DEF Querying, Located, Begun, WhatQuery
  <2>5. ~(GraphAccepted(line))'
    BY ONLY <1>1, <2>3, Zenon DEF GraphAccepted
  <2>6. AtPrompt'
    BY ONLY <1>1, <2>1, <2>4, <2>5, Refused
  <2> QED BY <2>1, <2>2, <2>6, Lands
<1>8. CASE \/ flag = "-d" /\ value \in DOMAIN DimensionOf
           \/ flag = "-f" /\ value \in Facings
           \/ flag \in {"-ymin", "-ymax"} /\ value \in DOMAIN IntOf
  <2>1. value # flag
    <3>1. {"-ymin", "-ymax"} \cap DOMAIN IntOf = {}
      BY ViewerAssumption
    <3> QED BY ONLY <1>8, <3>1, Dimensions DEF Facings
  <2>2. r > 1 /\ n + 2 <= L /\ line[n + 2] = value
    BY ONLY <1>2, <1>4, <1>5, <2>1
  <2>3. /\ ss' = Rest(Tail(ss)) /\ UNCHANGED <<xyzState, pc>>
        /\ dim' = IF flag = "-d" THEN DimensionOf[value] ELSE dim
        /\ facing' = IF flag = "-f" THEN value ELSE facing
        /\ yMin' = IF flag = "-ymin" THEN IntOf[value] ELSE yMin
        /\ yMax' = IF flag = "-ymax" THEN WrapInt(IntOf[value] + 1) ELSE yMax
    BY ONLY <1>3, <1>8
  <2>4. WordsInv' /\ used' = n + 2
    BY ONLY <1>1, <1>4, <1>5, <2>2, <2>3, WordsRead
  <2>5. GoodOption(n + 1)
    <3>1. n + 1 < Len(line) /\ n + 1 + 1 = n + 2
      BY ONLY <1>4, <1>5, <2>2
    <3> QED BY ONLY <1>5, <1>8, <2>2, <3>1 DEF GoodOption
  <2>6. OptionsRead(n + 2)'
    <3>1. n \in Nat /\ n + 2 <= Len(line) /\ Len(line) \in Nat
      BY ONLY <1>4, <1>5, <2>2
    <3>2. /\ dim' = IF line[n + 1] = "-d" THEN DimensionOf[line[n + 2]] ELSE dim
          /\ facing' = IF line[n + 1] = "-f" THEN line[n + 2] ELSE facing
          /\ yMin' = IF line[n + 1] = "-ymin" THEN IntOf[line[n + 2]] ELSE yMin
          /\ yMax' = IF line[n + 1] = "-ymax" THEN WrapInt(IntOf[line[n + 2]] + 1) ELSE yMax
      BY ONLY <1>5, <2>2, <2>3, Zenon
    <3> QED BY ONLY <1>1, <1>6, <2>5, <3>1, <3>2, OptionsGrow
  <2>7. AtGraphFlags'
    <3>1. used' >= 4 /\ used' % 2 = 0
      BY ONLY <1>5, <1>6, <2>4
    <3> QED BY ONLY <1>1, <1>6, <2>3, <2>4, <2>6, <3>1, Zenon DEF AtGraphFlags
  <2>8. pc' = "graphFlags"
    BY ONLY <1>1, <2>3
  <2> QED BY <2>4, <2>7, <2>8, Lands
<1> QED BY ONLY <1>3, <1>7, <1>8, Zenon

\* Behind the last flag the options are those of the whole line.
LEMMA OptionsComplete ==
  ASSUME WordsInv, AtGraphFlags, ss = << >>
  PROVE  /\ GraphQuery(line) /\ GoodOptions(line)
         /\ dim = GraphDim(line) /\ dim \in ChunkDimension
         /\ facing = GraphFacing(line) /\ facing \in Facings
         /\ yMin = GraphMin(line) /\ GraphMin(line) \in IntType
         /\ yMax = WrapInt(GraphTop(line) + 1) /\ GraphTop(line) \in IntType
<1>1. used = Len(line) /\ Len(line) \in Nat
  BY AllRead
<1>2. PICK L : L = Len(line)
  BY Zenon
<1>3. L \in Nat /\ L >= 4 /\ L % 2 = 0 /\ OptionsRead(L) /\ Querying("graph")
  BY ONLY <1>1, <1>2, AtGraphFlags DEF AtGraphFlags
<1>4. \A f : OptionUpTo(f, L) = Option(line, f)
  BY ONLY <1>2, <1>3 DEF OptionUpTo, Option
<1>5. /\ \A j \in 5 .. L : (j - 5) % 2 = 0 => GoodOption(j)
      /\ dim = DimensionOf[LastOf(line, Option(line, "-d"), "overworld")]
      /\ facing = LastOf(line, Option(line, "-f"), "n")
      /\ yMin = NumberUpTo("-ymin", L, Bottom)
      /\ yMax = WrapInt(NumberUpTo("-ymax", L, Bottom + Edge - 1) + 1)
  BY ONLY <1>3, <1>4, Zenon DEF OptionsRead
<1>6. GraphQuery(line)
  BY ONLY <1>1, <1>2, <1>3 DEF Querying, Located, Begun, GraphQuery
<1>7. GoodOptions(line)
  BY ONLY <1>2, <1>3, <1>5, Zenon DEF GoodOptions, GoodOption
<1>8. yMin = GraphMin(line) /\ yMax = WrapInt(GraphTop(line) + 1)
  <2>1. \A f, default : NumberUpTo(f, L, default) =
          IF Option(line, f) = {} THEN default ELSE IntOf[LastOf(line, Option(line, f), "")]
    <3> SUFFICES ASSUME NEW f, NEW default
                 PROVE  NumberUpTo(f, L, default) =
                          IF Option(line, f) = {} THEN default ELSE IntOf[LastOf(line, Option(line, f), "")]
      OBVIOUS
    <3>1. OptionUpTo(f, L) = Option(line, f)
      BY ONLY <1>4, Zenon
    <3> QED BY ONLY <3>1 DEF NumberUpTo
  <2>2. GraphMin(line) = IF Option(line, "-ymin") = {} THEN Bottom ELSE IntOf[LastOf(line, Option(line, "-ymin"), "")]
    BY Zenon DEF GraphMin, Bottom
  <2>3. GraphTop(line) = IF Option(line, "-ymax") = {} THEN Bottom + Edge - 1
                         ELSE IntOf[LastOf(line, Option(line, "-ymax"), "")]
    BY Zenon DEF GraphTop, Bottom
  <2> QED BY ONLY <1>5, <2>1, <2>2, <2>3, Zenon
<1>9. \A f : /\ Option(line, f) \in SUBSET (5 .. L)
             /\ \A j \in Option(line, f) : j \in 5 .. L /\ (j - 5) % 2 = 0 /\ line[j] = f
  BY ONLY <1>2 DEF Option
<1>10. \A f, d, S : (Option(line, f) = {} => d \in S) /\ (\A j \in Option(line, f) : line[j + 1] \in S)
                    => LastOf(line, Option(line, f), d) \in S
  <2> SUFFICES ASSUME NEW f, NEW d, NEW S, Option(line, f) = {} => d \in S,
                      \A j \in Option(line, f) : line[j + 1] \in S
               PROVE  LastOf(line, Option(line, f), d) \in S
    BY Zenon
  <2>1. PICK J : J = Option(line, f)
    BY Zenon
  <2>2. J \in SUBSET (5 .. L) /\ (J = {} => d \in S) /\ \A j \in J : line[j + 1] \in S
    BY <1>9, <2>1, Zenon
  <2>3. LastOf(line, J, d) \in S
    BY ONLY <1>3, <2>2, LastOfIn, 5 \in Nat
  <2> QED BY ONLY <2>1, <2>3
<1>11. LastOf(line, Option(line, "-d"), "overworld") \in DOMAIN DimensionOf
  <2>1. \A j \in Option(line, "-d") : line[j + 1] \in DOMAIN DimensionOf
    BY ONLY <1>5, <1>9 DEF GoodOption
  <2>2. "overworld" \in DOMAIN DimensionOf
    BY ONLY Dimensions
  <2> QED BY ONLY <1>10, <2>1, <2>2, Zenon
<1>12. facing \in Facings
  <2>1. \A j \in Option(line, "-f") : line[j + 1] \in Facings
    BY ONLY <1>5, <1>9 DEF GoodOption
  <2>2. "n" \in Facings
    BY DEF Facings
  <2> QED BY ONLY <1>5, <1>10, <2>1, <2>2, Zenon
<1>13. \A f \in {"-ymin", "-ymax"} : Option(line, f) # {} => IntOf[LastOf(line, Option(line, f), "")] \in IntType
  <2>1. \A f \in {"-ymin", "-ymax"} : \A j \in Option(line, f) : line[j + 1] \in DOMAIN IntOf
    BY ONLY <1>5, <1>9 DEF GoodOption
  <2>2. \A w \in DOMAIN IntOf : IntOf[w] \in IntType
    BY ViewerAssumption
  <2> QED BY ONLY <1>10, <2>1, <2>2, Zenon
<1>14. Bottom \in IntType /\ Bottom + Edge - 1 \in IntType
  <2>1. line[3] \in DOMAIN CoordsOf
    BY ONLY <1>6, Zenon DEF GraphQuery
  <2> QED BY ONLY <2>1, BottomFits
<1>15. GraphMin(line) \in IntType /\ GraphTop(line) \in IntType
  BY ONLY <1>13, <1>14, Zenon DEF GraphMin, GraphTop, Bottom
<1>16. dim = GraphDim(line) /\ dim \in ChunkDimension /\ facing = GraphFacing(line)
  BY ONLY <1>5, <1>11, Dimensions, Zenon DEF GraphDim, GraphFacing
<1> QED BY ONLY <1>6, <1>7, <1>8, <1>12, <1>15, <1>16, Zenon

\* The test of the bounds sees them as the line gives them, the wrapped sum included.
LEMMA BoundsTest ==
  ASSUME WordsInv, AtGraphFlags, ss = << >>
  PROVE  ~badBounds <=> GoodBounds(line)
<1>1. PICK m, t : m = GraphMin(line) /\ t = GraphTop(line)
  BY Zenon
<1>2. m \in IntType /\ t \in IntType /\ yMin = m /\ yMax = WrapInt(t + 1)
  BY <1>1, OptionsComplete
<1>3. IntMax \in Nat
  BY ViewerAssumption
<1>4. ~badBounds <=> 0 <= m /\ m <= t /\ t < IntMax
  BY ONLY <1>2, <1>3 DEF badBounds, IntType, WrapInt
<1> QED BY ONLY <1>1, <1>4, Zenon DEF GoodBounds

\* The checks behind the flags.
LEMMA GraphBoundsStep ==
  ASSUME CommandsInv, GraphBounds
  PROVE  WordsInv' /\ PhaseInv'
<1>1. /\ pc = "graphFlags" /\ WordsInv /\ AtGraphFlags /\ ss = << >> /\ UNCHANGED <<line, lineNo, ss, world, xyz>>
      /\ UNCHANGED <<dim, facing, yMin, yMax, fileName>>
  BY DEF GraphBounds, CommandsInv, PhaseInv, optionVars, worldVars
<1>2. PICK found : found = getBlockChunk(world, xyz[1], xyz[2], xyz[3], dim)
  BY Zenon
<1>3. \/ badBounds /\ Answer(Says("bad_bounds"), "none")
      \/ ~badBounds /\ found = nullptr /\ Answer(Says("block_not_valid"), "none")
      \/ ~badBounds /\ found # nullptr /\ chunk' = found /\ pc' = "graphOpen" /\ xyzState' = xyzState
  BY <1>2, Zenon DEF GraphBounds, Goto
<1>4. WordsInv'
  BY ONLY <1>1, WordsRead
<1>5. /\ GraphQuery(line) /\ GoodOptions(line)
      /\ dim = GraphDim(line) /\ dim \in ChunkDimension
      /\ facing = GraphFacing(line) /\ facing \in Facings
      /\ yMin = GraphMin(line) /\ GraphMin(line) \in IntType
      /\ yMax = WrapInt(GraphTop(line) + 1) /\ GraphTop(line) \in IntType
  BY ONLY <1>1, OptionsComplete, Zenon
<1>6. Querying("graph") /\ xyz = CoordsOf[line[3]] /\ xyzState = "owned" /\ fileName = line[4]
  BY ONLY <1>1, Zenon DEF AtGraphFlags, Querying
<1>7. PICK m, t : m = GraphMin(line) /\ t = GraphTop(line)
  BY Zenon
<1>8. ~badBounds <=> 0 <= m /\ m <= t /\ t < IntMax
  <2>1. ~badBounds <=> GoodBounds(line)
    BY ONLY <1>1, BoundsTest
  <2> QED BY ONLY <1>7, <2>1, Zenon DEF GoodBounds
<1>9. found = getBlockChunk(world, CoordsOf[line[3]][1], 0, CoordsOf[line[3]][3], GraphDim(line))
  BY ONLY <1>2, <1>5, <1>6, Zenon DEF getBlockChunk
<1>10. GraphAccepted(line) <=> ~badBounds /\ found # nullptr
  BY ONLY <1>5, <1>7, <1>8, <1>9, Zenon DEF GraphAccepted, GoodBounds
<1>11. (GraphAccepted(line))' <=> GraphAccepted(line)
  <2>1. UNCHANGED <<world, line>>
    BY ONLY <1>1
  <2> QED BY ONLY <2>1 DEF GraphAccepted, getBlockChunk, findChunk
<1>12. ~WhatQuery(line)
  BY ONLY <1>6 DEF Querying, Located, Begun, WhatQuery
<1>13. CASE badBounds \/ found = nullptr
  <2>1. PICK kind \in {"bad_bounds", "block_not_valid"} : reply' = Says(kind) /\ pc' = "prompt" /\ xyzState' = "none"
    BY ONLY <1>3, <1>13 DEF Answer, Goto
  <2>2. ~(GraphAccepted(line))' /\ ~WhatQuery(line')
    BY ONLY <1>1, <1>10, <1>11, <1>12, <1>13
  <2>3. kind \notin {"block", "graphed", "open_failed"}
    OBVIOUS
  <2>4. AtPrompt'
    BY ONLY <2>1, <2>2, <2>3, Refused
  <2> QED BY <1>4, <2>1, <2>4, Lands
<1>14. CASE ~badBounds /\ found # nullptr
  <2>1. chunk' = found /\ pc' = "graphOpen" /\ xyzState' = "owned" /\ (GraphAccepted(line))'
    BY ONLY <1>3, <1>6, <1>10, <1>11, <1>14, Zenon
  <2>2. yMax = t + 1
    <3>1. t \in IntType /\ t < IntMax /\ yMax = WrapInt(t + 1)
      BY ONLY <1>5, <1>7, <1>8, <1>14, Zenon
    <3>2. IntMax \in Nat
      BY ViewerAssumption
    <3> QED BY ONLY <3>1, <3>2 DEF IntType, WrapInt
  <2>3. (/\ dim = GraphDim(line) /\ dim \in ChunkDimension /\ facing = GraphFacing(line) /\ facing \in Facings
         /\ yMin = GraphMin(line) /\ yMax = GraphTop(line) + 1 /\ fileName = line[4]
         /\ GraphMin(line) \in IntType /\ GraphTop(line) \in IntType)'
    BY ONLY <1>1, <1>5, <1>6, <1>7, <2>2 DEF GraphDim, GraphFacing, GraphMin, GraphTop
  <2>4. (chunk = getBlockChunk(world, xyz[1], xyz[2], xyz[3], dim))'
    BY ONLY <1>1, <1>2, <2>1 DEF getBlockChunk, findChunk
  <2>5. Querying("graph")'
    BY ONLY <1>1, <1>6 DEF Querying, Located, Begun
  <2>6. Checked'
    BY ONLY <2>1, <2>3, <2>4, <2>5, Zenon DEF Checked
  <2> QED BY <1>4, <2>1, <2>6, Lands
<1> QED BY ONLY <1>13, <1>14

\* What the checks found stays while the graph is drawn.
LEMMA CheckedStays ==
  ASSUME Checked, UNCHANGED <<world, line, lineNo, xyz, xyzState, dim, facing, yMin, yMax, fileName, chunk>>
  PROVE  Checked'
<1>1. (GraphAccepted(line))' <=> GraphAccepted(line)
  BY DEF GraphAccepted, getBlockChunk, findChunk
<1>2. Querying("graph")' <=> Querying("graph")
  BY DEF Querying, Located, Begun
<1>3. (chunk = getBlockChunk(world, xyz[1], xyz[2], xyz[3], dim))' <=> chunk = getBlockChunk(world, xyz[1], xyz[2], xyz[3], dim)
  BY DEF getBlockChunk, findChunk
<1>4. /\ GraphDim(line)' = GraphDim(line) /\ GraphFacing(line)' = GraphFacing(line)
      /\ GraphMin(line)' = GraphMin(line) /\ GraphTop(line)' = GraphTop(line)
  BY DEF GraphDim, GraphFacing, GraphMin, GraphTop
<1> QED BY <1>1, <1>2, <1>3, <1>4, Zenon DEF Checked

\* The bounds of a graph.
LEMMA GraphBounded ==
  ASSUME Checked
  PROVE  /\ yMin = GraphMin(line) /\ yMax = GraphTop(line) + 1 /\ GraphMin(line) \in Nat /\ GraphTop(line) \in Nat
         /\ GraphMin(line) <= GraphTop(line) /\ ~WhatQuery(line)
<1>1. /\ yMin = GraphMin(line) /\ yMax = GraphTop(line) + 1
      /\ GraphMin(line) \in IntType /\ GraphTop(line) \in IntType
      /\ 0 <= GraphMin(line) /\ GraphMin(line) <= GraphTop(line) /\ line[1] = "graph"
  BY Zenon DEF Checked, GraphAccepted, GoodBounds, GraphQuery
<1>2. PICK m, t : m = GraphMin(line) /\ t = GraphTop(line)
  BY Zenon
<1>3. m \in Nat /\ t \in Nat
  <2>1. IntMax \in Nat
    BY ViewerAssumption
  <2> QED BY ONLY <1>1, <1>2, <2>1 DEF IntType
<1>4. ~WhatQuery(line)
  BY ONLY <1>1 DEF WhatQuery
<1> QED BY ONLY <1>1, <1>2, <1>3, <1>4, Zenon

\* remove and open.
LEMMA GraphOpenStep ==
  ASSUME CommandsInv, GraphOpen
  PROVE  WordsInv' /\ PhaseInv'
<1>1. /\ pc = "graphOpen" /\ WordsInv /\ Checked /\ UNCHANGED <<line, lineNo, ss, world, heap, xyz>>
      /\ UNCHANGED <<dim, facing, yMin, yMax, fileName, chunk>>
  BY DEF GraphOpen, CommandsInv, PhaseInv, optionVars, worldVars
<1>2. \/ /\ \E left : files' = [f \in DOMAIN left \cup {fileName} |->
                                IF f = fileName THEN [kind |-> "file", items |-> << >>] ELSE left[f]]
         /\ pc' = "draw" /\ index' = 0 /\ y' = yMin /\ xyzState' = xyzState
      \/ reply' = Says("open_failed") /\ xyzState' = "none" /\ pc' = "prompt"
  BY Zenon DEF GraphOpen, Goto, Answer
<1>3. WordsInv'
  BY ONLY <1>1, WordsRead
<1>4. /\ yMin = GraphMin(line) /\ yMax = GraphTop(line) + 1 /\ GraphMin(line) \in Nat /\ GraphTop(line) \in Nat
      /\ GraphMin(line) <= GraphTop(line) /\ ~WhatQuery(line) /\ GraphAccepted(line)
  BY ONLY <1>1, GraphBounded, Zenon DEF Checked
<1>5. /\ (GraphAccepted(line))' <=> GraphAccepted(line)
      /\ GraphMin(line)' = GraphMin(line) /\ GraphTop(line)' = GraphTop(line)
  BY ONLY <1>1, SameQuestion
<1>6. CASE reply' = Says("open_failed") /\ xyzState' = "none" /\ pc' = "prompt"
  <2>1. reply'.kind = "open_failed"
    BY ONLY <1>6 DEF Says, NoReply
  <2>2. reply'.kind # "block" /\ reply'.kind # "graphed"
    BY ONLY <2>1
  <2>3. AnswerRight'
    BY ONLY <1>1, <1>4, <1>5, <2>1, <2>2, Zenon DEF AnswerRight
  <2>4. AtPrompt'
    BY ONLY <1>6, <2>3, Zenon DEF AtPrompt
  <2> QED BY <1>3, <1>6, <2>4, Lands
<1>7. CASE /\ \E left : files' = [f \in DOMAIN left \cup {fileName} |->
                                  IF f = fileName THEN [kind |-> "file", items |-> << >>] ELSE left[f]]
           /\ pc' = "draw" /\ index' = 0 /\ y' = yMin /\ xyzState' = xyzState
  <2>1. fileName \in DOMAIN files' /\ files'[fileName] = [kind |-> "file", items |-> << >>]
    BY ONLY <1>7
  <2>2. PICK new : new = files'[fileName]
    BY Zenon
  <2>3. new.kind = "file" /\ new.items = << >>
    BY ONLY <2>1, <2>2
  <2>4. Drawn' = {}
    <3>1. \A at \in Side \X (GraphMin(line)' .. GraphTop(line)') : ~(Passed(at))'
      <4>1. \A a \in Side : \A b \in GraphMin(line) .. GraphTop(line) : ~(a < 0 \/ (a = 0 /\ b < yMin))
        BY ONLY <1>4 DEF Side
      <4>2. SUFFICES ASSUME NEW at \in Side \X (GraphMin(line)' .. GraphTop(line)') PROVE ~(Passed(at))'
        OBVIOUS
      <4>3. at[1] \in Side /\ at[2] \in GraphMin(line) .. GraphTop(line)
        BY <1>5
      <4>4. ~(at[1] < 0 \/ (at[1] = 0 /\ at[2] < yMin))
        BY ONLY <4>1, <4>3, Zenon
      <4> QED BY ONLY <1>7, <4>4 DEF Passed
    <3> QED BY ONLY <3>1 DEF Drawn
  <2>5. Shows(new.items, {})'
    <3>1. Odds(<< >>) = {}
      BY ONLY DEF Odds
    <3>2. Cardinality({}) = 0
      BY FS_EmptySet
    <3>3. Len(new.items) = 2 * Cardinality({}) /\ Odds(new.items) = {}
      BY ONLY <2>3, <3>1, <3>2
    <3> QED BY ONLY <3>3 DEF Shows
  <2>6. Checked'
    BY ONLY <1>1, <1>7, CheckedStays
  <2>7. index' \in 0 .. Edge /\ y' \in yMin' .. yMax'
    <3>1. Edge \in Nat
      BY ChunkAssumption
    <3> QED BY ONLY <1>1, <1>4, <1>7, <3>1
  <2>8. AtDraw'
    <3>1. fileName' \in DOMAIN files' /\ files'[fileName'] = new
      BY ONLY <1>1, <2>1, <2>2
    <3> QED BY ONLY <2>3, <2>4, <2>5, <2>6, <2>7, <3>1, Zenon DEF AtDraw
  <2> QED BY <1>3, <1>7, <2>8, Lands
<1> QED BY ONLY <1>2, <1>6, <1>7

\* A position in a chunk, from the chunk and the offset in it.
LEMMA PlaceOf ==
  ASSUME NEW q \in Int, NEW n \in Side
  PROVE  ChunkOf(Edge * q + n) = q /\ RawOf(Edge * q + n) = n
<1>1. \A b \in Nat \ {0} : \A r \in 0 .. b - 1 : (b * q + r) \div b = q
  OBVIOUS
<1>2. (Edge * q + n) \div Edge = q
  BY ONLY <1>1, ChunkAssumption DEF Side
<1>3. PICK e : e = Edge * q
  BY Zenon
<1>4. e \in Int /\ n \in Int
  BY ONLY <1>3, ChunkAssumption DEF Side
<1>5. PICK x : x = Edge * q + n
  BY Zenon
<1>6. ChunkOf(x) = q
  BY ONLY <1>2, <1>5, Zenon DEF ChunkOf
<1>7. x = e + n /\ RawOf(x) = x - e
  BY ONLY <1>3, <1>5, <1>6, Zenon DEF RawOf
<1>8. x - e = n
  BY ONLY <1>4, <1>7
<1> QED BY ONLY <1>5, <1>6, <1>7, <1>8, Zenon

LEMMA OffsetIn ==
  ASSUME NEW x \in Int
  PROVE  ChunkOf(x) \in Int /\ RawOf(x) \in Side
<1>1. PICK q \in Int, r \in Side : q = x \div Edge /\ x = Edge * q + r
  BY Division
<1>2. PICK e \in Int : e = Edge * q
  BY ONLY <1>1, ChunkAssumption
<1>3. x - e = r
  BY ONLY <1>1, <1>2 DEF Side
<1> QED BY ONLY <1>1, <1>2, <1>3 DEF ChunkOf, RawOf

\* drawSlice looks where a viewer of the slice does: the column that index counts from
\* the side of the facing, in the chunk of the coordinates.
LEMMA SliceSeen ==
  ASSUME Loaded(world, heap), Checked, index \in Side
  PROVE  /\ \A h : SeenBlocks(line, index, h) = chunkGetBlock(heap[chunk], sliceX, h, sliceZ) \ {WildBlock}
         /\ sliceX \in Side /\ sliceZ \in Side
         /\ chunk \in DOMAIN heap /\ heap[chunk] \in ChunkOver(PaletteTags(heap))
<1>1. PICK a1, a3, d, at : at = CoordsOf[line[3]] /\ a1 = at[1] /\ a3 = at[3] /\ d = GraphDim(line)
  BY Zenon
<1>2. /\ xyz = at /\ dim = d /\ d \in ChunkDimension /\ facing = GraphFacing(line) /\ facing \in Facings
      /\ chunk = getBlockChunk(world, xyz[1], xyz[2], xyz[3], dim)
      /\ getBlockChunk(world, at[1], 0, at[3], d) # nullptr /\ line[3] \in DOMAIN CoordsOf
  BY ONLY <1>1, Checked, Zenon DEF Checked, GraphAccepted, Querying, Located
<1>3. a1 \in Int /\ a3 \in Int
  BY ONLY <1>1, <1>2, Located3, Zenon
<1>4. PICK cx \in Int, cz \in Int : cx = ChunkOf(a1) /\ cz = ChunkOf(a3)
  BY ONLY <1>3, OffsetIn
<1>5. chunk = findChunk(world, chunkID(cx, cz), d) /\ chunk # nullptr
  BY ONLY <1>1, <1>2, <1>4, Zenon DEF getBlockChunk
<1>6. /\ chunk \in DOMAIN heap /\ chunkID(cx, cz) = chunkID(heap[chunk].x, heap[chunk].z)
      /\ heap[chunk] \in ChunkOver(PaletteTags(heap))
  BY ONLY <1>2, <1>5, Loaded(world, heap), Found, Zenon
<1>7. heap[chunk].x = cx /\ heap[chunk].z = cz
  BY ONLY <1>6 DEF chunkID
<1>8. ASSUME NEW x, NEW z, NEW h, ChunkOf(x) = cx, ChunkOf(z) = cz
      PROVE  worldGetBlock(world, heap, x, h, z, d) = chunkGetBlock(heap[chunk], RawOf(x), h, RawOf(z))
  BY ONLY <1>5, <1>8, Zenon DEF worldGetBlock, getBlockChunk
<1>9. PICK k, x0, z0 : k = sliceAt /\ x0 = Edge * cx /\ z0 = Edge * cz
  BY Zenon
<1>10. /\ k \in Side /\ Edge \in Nat /\ x0 \in Int /\ z0 \in Int /\ index \in Int
       /\ facing \in {"n", "e"} => k = index
       /\ facing \notin {"n", "e"} => k = Edge - 1 - index
  <2>1. Edge \in Nat \ {0}
    BY ChunkAssumption
  <2> QED BY ONLY <1>4, <1>9, <2>1, index \in Side DEF sliceAt, Side
<1>11. /\ ChunkOf(x0 + k) = cx /\ RawOf(x0 + k) = k /\ ChunkOf(z0 + k) = cz /\ RawOf(z0 + k) = k
  BY ONLY <1>4, <1>9, <1>10, PlaceOf
<1>12. /\ facing \in {"n", "s"} => sliceX = k /\ sliceZ = RawOf(a3)
       /\ facing \notin {"n", "s"} => sliceX = RawOf(a1) /\ sliceZ = k
  BY ONLY <1>1, <1>2, <1>4, <1>7, <1>9, Zenon DEF sliceX, sliceZ, RawOf
<1>13. sliceX \in Side /\ sliceZ \in Side
  BY ONLY <1>3, <1>10, <1>12, OffsetIn
<1>14. ASSUME NEW h
       PROVE  SeenBlocks(line, index, h) = chunkGetBlock(heap[chunk], sliceX, h, sliceZ) \ {WildBlock}
  <2>1. x0 = Edge * ChunkOf(at[1]) /\ z0 = Edge * ChunkOf(at[3])
    BY ONLY <1>1, <1>4, <1>9, Zenon
  <2>2. SeenBlocks(line, index, h) =
          CASE facing = "n" -> worldGetBlock(world, heap, x0 + index, h, a3, d) \ {WildBlock}
            [] facing = "s" -> worldGetBlock(world, heap, x0 + Edge - 1 - index, h, a3, d) \ {WildBlock}
            [] facing = "e" -> worldGetBlock(world, heap, a1, h, z0 + index, d) \ {WildBlock}
            [] facing = "w" -> worldGetBlock(world, heap, a1, h, z0 + Edge - 1 - index, d) \ {WildBlock}
    BY ONLY <1>1, <1>2, <2>1, Zenon DEF SeenBlocks
  <2>3. CASE facing \in {"n", "s"}
    <3>1. facing = "n" => x0 + index = x0 + k
      BY ONLY <1>10
    <3>2. facing = "s" => x0 + Edge - 1 - index = x0 + k
      BY ONLY <1>10
    <3>3. SeenBlocks(line, index, h) = worldGetBlock(world, heap, x0 + k, h, a3, d) \ {WildBlock}
      BY ONLY <2>2, <2>3, <3>1, <3>2
    <3>4. worldGetBlock(world, heap, x0 + k, h, a3, d) = chunkGetBlock(heap[chunk], k, h, RawOf(a3))
      BY ONLY <1>4, <1>8, <1>11, Zenon
    <3> QED BY ONLY <1>12, <2>3, <3>3, <3>4, Zenon
  <2>4. CASE facing \in {"e", "w"}
    <3>1. facing = "e" => z0 + index = z0 + k
      BY ONLY <1>10
    <3>2. facing = "w" => z0 + Edge - 1 - index = z0 + k
      BY ONLY <1>10
    <3>3. SeenBlocks(line, index, h) = worldGetBlock(world, heap, a1, h, z0 + k, d) \ {WildBlock}
      BY ONLY <2>2, <2>4, <3>1, <3>2
    <3>4. worldGetBlock(world, heap, a1, h, z0 + k, d) = chunkGetBlock(heap[chunk], RawOf(a1), h, k)
      BY ONLY <1>4, <1>8, <1>11, Zenon
    <3>5. facing \notin {"n", "s"}
      BY ONLY <2>4
    <3> QED BY ONLY <1>12, <3>3, <3>4, <3>5, Zenon
  <2> QED BY ONLY <1>2, <2>3, <2>4, Zenon DEF Facings
<1> QED BY ONLY <1>6, <1>13, <1>14, Zenon

\* Air has no type, so that it is not drawn.
LEMMA AirHasNoType ==
  ASSUME NEW tag, baseName(tag) = <<"air">>
  PROVE  getBlockType(tag) = NoType
<1>1. PICK n : n = blockName(tag)
  BY Zenon
<1>2. Tail(n) = <<"air">>
  BY ONLY <1>1, baseName(tag) = <<"air">>, Zenon DEF baseName
<1>3. \A x : Tail(<<"minecraft:", x>>) = <<x>>
  OBVIOUS
<1>4. \A x : <<x>> = <<"air">> => x = "air"
  OBVIOUS
<1>5. \A x : n = Minecraft(x) => x = "air"
  BY ONLY <1>2, <1>3, <1>4, Zenon DEF Minecraft
<1>6. "air" \notin DOMAIN FixedType
  BY DEF FixedType
<1>7. /\ n # Minecraft("stone") /\ n # Minecraft("leaves") /\ n # Minecraft("leaves2")
      /\ n # Minecraft("log") /\ n # Minecraft("sand")
  BY ONLY <1>5
<1>8. n \notin {Minecraft("leaves"), Minecraft("leaves2")} /\ n \notin {Minecraft(f) : f \in DOMAIN FixedType}
  BY ONLY <1>5, <1>6, <1>7, Zenon
<1> QED BY ONLY <1>1, <1>7, <1>8, Zenon DEF getBlockType

LEMMA TwoItems ==
  ASSUME NEW v, NEW w
  PROVE  <<v>> \o <<w>> = <<v, w>>
<1>1. PICK S, s, t, u : S = {v, w} /\ s = <<v>> /\ t = <<w>> /\ u = <<v, w>>
  BY Zenon
<1>2. /\ s \in Seq(S) /\ t \in Seq(S) /\ u \in Seq(S) /\ Len(s) = 1 /\ Len(t) = 1 /\ Len(u) = 2
      /\ s[1] = v /\ t[1] = w /\ u[1] = v /\ u[2] = w
  BY ONLY <1>1
<1>3. /\ s \o t \in Seq(S) /\ Len(s \o t) = Len(s) + Len(t)
      /\ \A i \in 1 .. Len(s) : (s \o t)[i] = s[i]
      /\ \A i \in Len(s) + 1 .. Len(s) + Len(t) : (s \o t)[i] = t[i - Len(s)]
  BY ONLY <1>2, ConcatProperties
<1>4. PICK r : r = s \o t
  BY Zenon
<1>5. r \in Seq(S) /\ Len(r) = 2 /\ r[1] = v /\ r[2] = w
  BY ONLY <1>2, <1>3, <1>4
<1>6. r = u
  BY ONLY <1>2, <1>5, SeqEqual
<1> QED BY ONLY <1>1, <1>4, <1>6, Zenon

\* What is written for a block: a curve and its mark, or nothing for air.
LEMMA ItemsOf ==
  ASSUME NEW b, b.state \in Int
  PROVE  /\ DrawnItems(b) = IF IsAir(b) THEN << >> ELSE <<Curve(SeenTexture(b)), Mark>>
         /\ SeenTexture(b) \in Textures
<1>1. SeenTexture(b) \in Textures
  <2>1. <<"unknown">> \in Textures /\ <<"barrier">> \in Textures
    BY ViewerAssumption
  <2> QED BY <2>1, Zenon DEF SeenTexture, texture
<1>2. PICK c, m, u : c = Curve(SeenTexture(b)) /\ m = Mark /\ u = Curve(<<"unknown">>)
  BY Zenon
<1>3. <<c>> \o <<m>> = <<c, m>>
  BY TwoItems
<1>4. << >> \o << >> = << >>
  OBVIOUS
<1>5. IsAir(b) => getBlockType(b.tags[1]) = NoType
  BY AirHasNoType, Zenon DEF IsAir
<1>6. CASE IsAir(b)
  <2>1. b.state >= 0 /\ baseName(b.tags[1]) = <<"air">> /\ getBlockType(b.tags[1]) = NoType
    BY ONLY <1>5, <1>6, Zenon DEF IsAir
  <2>2. DrawnItems(b) = << >> \o << >>
    BY ONLY <2>1 DEF DrawnItems
  <2> QED BY ONLY <1>1, <1>4, <1>6, <2>2, Zenon
<1>7. CASE ~IsAir(b)
  <2>1. DrawnItems(b) = <<c>> \o <<m>>
    <3>1. CASE b.state >= 0
      BY ONLY <1>2, <1>7, <3>1, Zenon DEF DrawnItems, IsAir, SeenTexture
    <3>2. CASE ~(b.state >= 0)
      BY ONLY <1>2, <1>7, <3>2, Zenon DEF DrawnItems, IsAir, SeenTexture
    <3> QED BY ONLY <3>1, <3>2
  <2>2. DrawnItems(b) = <<c, m>>
    BY ONLY <1>3, <2>1, Zenon
  <2>3. DrawnItems(b) = <<Curve(SeenTexture(b)), Mark>>
    BY ONLY <1>2, <2>2, Zenon
  <2> QED BY ONLY <1>1, <1>7, <2>3, Zenon
<1> QED BY ONLY <1>6, <1>7

\* A position with its two items behind those drawn already.
LEMMA OneMore ==
  ASSUME NEW items \in Seq(Item), NEW done, IsFiniteSet(done), Shows(items, done),
         NEW place, place \notin done, NEW c \in Item, NEW m \in Item,
         c.item = "curve", m.item = "mark", m.at = place, c.texture \in SeenTextures(line, place[1], place[2])
  PROVE  Shows(items \o <<c, m>>, done \cup {place})
<1>1. PICK k, more : k = Cardinality(done) /\ more = items \o <<c, m>>
  BY Zenon
<1>2. k \in Nat /\ Cardinality(done \cup {place}) = k + 1
  BY <1>1, FS_CardinalityType, FS_AddElement
<1>3. Len(items) = 2 * k
  BY ONLY <1>1, Shows(items, done), Zenon DEF Shows
<1>4. /\ Len(more) = 2 * k + 2 /\ \A n \in 1 .. 2 * k : more[n] = items[n]
      /\ more[2 * k + 1] = c /\ more[2 * k + 2] = m
  <2>1. <<c, m>> \in Seq(Item) /\ Len(<<c, m>>) = 2 /\ <<c, m>>[1] = c /\ <<c, m>>[2] = m
    OBVIOUS
  <2>2. PICK two : two = <<c, m>>
    BY Zenon
  <2>3. /\ Len(items \o two) = Len(items) + Len(two)
        /\ \A i \in 1 .. Len(items) : (items \o two)[i] = items[i]
        /\ \A i \in Len(items) + 1 .. Len(items) + Len(two) : (items \o two)[i] = two[i - Len(items)]
    BY ONLY <2>1, <2>2, items \in Seq(Item), ConcatProperties
  <2>4. PICK j : j = 2 * k
    BY Zenon
  <2>5. /\ Len(more) = j + 2 /\ \A i \in 1 .. j : more[i] = items[i]
        /\ \A i \in j + 1 .. j + 2 : more[i] = two[i - j]
    BY ONLY <1>1, <1>3, <2>1, <2>2, <2>3, <2>4
  <2>6. j \in Nat
    BY ONLY <1>2, <2>4
  <2>7. more[j + 1] = two[j + 1 - j] /\ more[j + 2] = two[j + 2 - j] /\ j + 1 - j = 1 /\ j + 2 - j = 2
    BY ONLY <2>5, <2>6
  <2> QED BY ONLY <2>1, <2>2, <2>4, <2>5, <2>7, Zenon
<1>5. Odds(more) = Odds(items) \cup {2 * k + 1}
  BY ONLY <1>2, <1>3, <1>4 DEF Odds
<1>6. \A n \in Odds(items) : n \in 1 .. 2 * k /\ n + 1 \in 1 .. 2 * k
  BY ONLY <1>2, <1>3 DEF Odds
<1>7. \A n \in Odds(items) : more[n] = items[n] /\ more[n + 1] = items[n + 1]
  BY ONLY <1>4, <1>6, Zenon
<1>8. PICK j : j = 2 * k + 1
  BY Zenon
<1>9. more[j] = c /\ more[j + 1] = m
  BY ONLY <1>2, <1>4, <1>8
<1>10. {more[n + 1].at : n \in Odds(more)} = done \cup {place}
  <2>1. done = {items[n + 1].at : n \in Odds(items)}
    BY ONLY Shows(items, done), Zenon DEF Shows
  <2>2. \A n \in Odds(items) : more[n + 1].at = items[n + 1].at
    BY ONLY <1>7, Zenon
  <2>3. more[j + 1].at = place
    BY ONLY <1>9, m.at = place
  <2>4. Odds(more) = Odds(items) \cup {j}
    BY ONLY <1>5, <1>8, Zenon
  <2>5. \A p \in done \cup {place} : \E n \in Odds(more) : p = more[n + 1].at
    BY ONLY <2>1, <2>2, <2>3, <2>4, Zenon
  <2>6. \A n \in Odds(more) : more[n + 1].at \in done \cup {place}
    BY ONLY <2>1, <2>2, <2>3, <2>4, Zenon
  <2> QED BY ONLY <2>5, <2>6, Zenon
<1>11. ASSUME NEW n \in Odds(more)
       PROVE  /\ more[n].item = "curve" /\ more[n + 1].item = "mark"
              /\ more[n].texture \in SeenTextures(line, more[n + 1].at[1], more[n + 1].at[2])
  <2>1. CASE n \in Odds(items)
    <3>1. /\ items[n].item = "curve" /\ items[n + 1].item = "mark"
          /\ items[n].texture \in SeenTextures(line, items[n + 1].at[1], items[n + 1].at[2])
      BY ONLY <2>1, Shows(items, done), Zenon DEF Shows
    <3> QED BY ONLY <1>7, <2>1, <3>1, Zenon
  <2>2. CASE n = j
    BY ONLY <1>9, <2>2, c.item = "curve", m.item = "mark", m.at = place,
            c.texture \in SeenTextures(line, place[1], place[2]), Zenon
  <2> QED BY ONLY <1>5, <1>8, <1>11, <2>1, <2>2, Zenon
<1>12. Len(more) = 2 * Cardinality(done \cup {place})
  BY ONLY <1>2, <1>4
<1> QED BY ONLY <1>1, <1>10, <1>11, <1>12, Zenon DEF Shows

\* The block that drawSlice reads is one the viewer sees.
LEMMA SeenHere ==
  ASSUME Loaded(world, heap), Checked, index \in Side, y \in Int,
         NEW b \in chunkGetBlock(heap[chunk], sliceX, y, sliceZ), ~WildTag(b)
  PROVE  /\ b.state \in Int
         /\ IsAir(b) => SeenTextures(line, index, y) = {}
         /\ ~IsAir(b) => SeenTexture(b) \in SeenTextures(line, index, y)
<1>1. PICK C, h, T, sx, sz : /\ C = chunkGetBlock(h, sx, y, sz) /\ h = heap[chunk] /\ T = PaletteTags(heap)
                             /\ sx = sliceX /\ sz = sliceZ
  BY Zenon
<1>2. SeenBlocks(line, index, y) = C \ {WildBlock} /\ h \in ChunkOver(T) /\ b \in C
  BY ONLY <1>1, Loaded(world, heap), Checked, index \in Side, SliceSeen,
          b \in chunkGetBlock(heap[chunk], sliceX, y, sliceZ), Zenon
<1>3. b.state \in Int
  BY ONLY <1>1, <1>2, y \in Int, WildHeight
<1>4. b # WildBlock
  <2>1. WildTag(WildBlock)
    BY DEF WildTag, WildBlock
  <2> QED BY ONLY <2>1, ~WildTag(b), Zenon
<1>5. ASSUME IsAir(b)
      PROVE  SeenTextures(line, index, y) = {}
  <2>1. b.state >= 0 /\ b.tags # << >>
    BY ONLY <1>5, ~WildTag(b), Zenon DEF IsAir, WildTag
  <2>2. b # NoBlock /\ b # CorruptBlock
    BY ONLY <2>1 DEF NoBlock, CorruptBlock
  <2>3. C = {b}
    <3>1. CASE outOfBounds(sx, y, sz)
      BY ONLY <1>1, <1>2, <2>2, <3>1 DEF chunkGetBlock
    <3>2. CASE ~outOfBounds(sx, y, sz) /\ y >= Height
      BY ONLY <1>1, <1>2, <1>4, <2>2, <3>2 DEF chunkGetBlock
    <3>3. CASE ~outOfBounds(sx, y, sz) /\ ~(y >= Height)
      <4>1. \E x : C = {x}
        BY ONLY <1>1, <3>3, Zenon DEF chunkGetBlock
      <4> QED BY ONLY <1>2, <4>1
    <3> QED BY ONLY <3>1, <3>2, <3>3
  <2>4. {c \in SeenBlocks(line, index, y) : ~IsAir(c)} = {}
    BY ONLY <1>2, <1>5, <2>3, Zenon
  <2> QED BY ONLY <2>4, Zenon DEF SeenTextures
<1>6. ASSUME ~IsAir(b)
      PROVE  SeenTexture(b) \in SeenTextures(line, index, y)
  <2>1. b \in {c \in SeenBlocks(line, index, y) : ~IsAir(c)}
    BY ONLY <1>2, <1>4, <1>6, Zenon
  <2> QED BY ONLY <2>1, Zenon DEF SeenTextures
<1> QED BY ONLY <1>3, <1>5, <1>6

\* The positions drawn are finitely many.
LEMMA DrawnFinite ==
  ASSUME Checked
  PROVE  IsFiniteSet(Drawn)
<1>1. PICK m \in Nat, t \in Nat : m = GraphMin(line) /\ t = GraphTop(line)
  BY GraphBounded
<1>2. IsFiniteSet(Side) /\ IsFiniteSet(m .. t)
  BY ChunkAssumption, FS_Interval DEF Side
<1>3. IsFiniteSet(Side \X (m .. t))
  BY ONLY <1>2, FS_Product
<1>4. Drawn \subseteq Side \X (m .. t)
  BY ONLY <1>1, Zenon DEF Drawn
<1> QED BY ONLY <1>3, <1>4, FS_Subset

\* One more height is passed.
LEMMA DrawnGrows ==
  ASSUME Checked, index \in Side, y \in yMin .. yMax - 1, y' = y + 1, UNCHANGED <<index, world, heap, line>>
  PROVE  /\ SeenTextures(line, index, y) = {} => Drawn' = Drawn
         /\ SeenTextures(line, index, y) # {} => Drawn' = Drawn \cup {<<index, y>>}
         /\ <<index, y>> \notin Drawn
<1>1. PICK m \in Nat, t \in Nat : m = GraphMin(line) /\ t = GraphTop(line) /\ yMin = m /\ yMax = t + 1
  BY GraphBounded
<1>2. y \in m .. t /\ <<index, y>> \in Side \X (m .. t)
  BY ONLY <1>1, index \in Side, y \in yMin .. yMax - 1
<1>3. \A at \in Side \X (m .. t) : (Passed(at))' <=> Passed(at) \/ at = <<index, y>>
  <2> SUFFICES ASSUME NEW i \in Side, NEW h \in m .. t
               PROVE  (Passed(<<i, h>>))' <=> Passed(<<i, h>>) \/ <<i, h>> = <<index, y>>
    OBVIOUS
  <2>1. (i < index \/ (i = index /\ h < y + 1)) <=> (i < index \/ (i = index /\ h < y)) \/ (i = index /\ h = y)
    BY ONLY <1>1, <1>2, i \in Side, h \in m .. t
  <2> QED BY ONLY <2>1, y' = y + 1, UNCHANGED <<index, world, heap, line>> DEF Passed
<1>4. \A n, h : SeenTextures(line, n, h)' = SeenTextures(line, n, h)
  BY ONLY UNCHANGED <<index, world, heap, line>>, SameQuestion
<1>5. GraphMin(line)' = m /\ GraphTop(line)' = t
  BY ONLY <1>1, UNCHANGED <<index, world, heap, line>>, SameQuestion
<1>6. Drawn = {at \in Side \X (m .. t) : Passed(at) /\ SeenTextures(line, at[1], at[2]) # {}}
  BY ONLY <1>1, Zenon DEF Drawn
<1>7. Drawn' = {at \in Side \X (m .. t) : (Passed(at))' /\ SeenTextures(line, at[1], at[2]) # {}}
  <2>1. Drawn' = {at \in Side \X (m .. t) : (Passed(at))' /\ SeenTextures(line, at[1], at[2])' # {}}
    BY ONLY <1>5, Zenon DEF Drawn
  <2> QED BY ONLY <1>4, <2>1, Zenon
<1>8. PICK place : place = <<index, y>>
  BY Zenon
<1>9. place \in Side \X (m .. t) /\ place[1] = index /\ place[2] = y
  BY ONLY <1>2, <1>8
<1>10. ~Passed(place)
  BY ONLY <1>1, <1>2, <1>9, index \in Side DEF Passed, Side
<1>11. SeenTextures(line, place[1], place[2]) = SeenTextures(line, index, y)
  BY ONLY <1>9, Zenon
<1>12. \A at \in Side \X (m .. t) : (Passed(at))' <=> Passed(at) \/ at = place
  BY ONLY <1>3, <1>8, Zenon
<1>13. place \notin Drawn
  BY ONLY <1>6, <1>10, Zenon
<1>14. SeenTextures(line, index, y) = {} => Drawn' = Drawn
  BY ONLY <1>6, <1>7, <1>11, <1>12, Zenon
<1>15. SeenTextures(line, index, y) # {} => Drawn' = Drawn \cup {place}
  BY ONLY <1>6, <1>7, <1>9, <1>11, <1>12, Zenon
<1> QED BY ONLY <1>8, <1>13, <1>14, <1>15, Zenon

\* The items are written behind those of the file, and the other files stay.
LEMMA Written ==
  ASSUME FilesInv, fileName \in DOMAIN files, NEW more \in Seq(Item), Write(more)
  PROVE  /\ DOMAIN files' = DOMAIN files /\ \A f \in DOMAIN files : f # fileName => files'[f] = files[f]
         /\ files[fileName].items \in Seq(Item)
         /\ files'[fileName].kind = files[fileName].kind
         /\ files'[fileName].items = files[fileName].items \o more
         /\ files'[fileName] \in [kind : {"file", "directory"}, items : Seq(Item)]
<1>1. PICK r : r = files[fileName]
  BY Zenon
<1>2. r \in [kind : {"file", "directory"}, items : Seq(Item)]
  BY <1>1, Zenon DEF FilesInv
<1>3. files' = [files EXCEPT ![fileName].items = @ \o more]
  BY Zenon DEF Write
<1>4. PICK new : new = [r EXCEPT !.items = r.items \o more]
  BY Zenon
<1>5. /\ DOMAIN files' = DOMAIN files /\ \A f \in DOMAIN files : f # fileName => files'[f] = files[f]
      /\ files'[fileName] = new
  BY ONLY <1>1, <1>3, <1>4, fileName \in DOMAIN files
<1>6. r.items \o more \in Seq(Item)
  BY ONLY <1>2, more \in Seq(Item), ConcatProperties
<1>7. new.kind = r.kind /\ new.items = r.items \o more /\ r.items \in Seq(Item)
      /\ new \in [kind : {"file", "directory"}, items : Seq(Item)]
  BY ONLY <1>2, <1>4, <1>6
<1> QED BY ONLY <1>1, <1>5, <1>7

\* The curve and the mark of a block are items.
LEMMA ItemTypes ==
  ASSUME index \in Int, y \in Int, NEW t \in Textures
  PROVE  /\ Curve(t) \in Item /\ Curve(t).item = "curve" /\ Curve(t).texture = t
         /\ Mark \in Item /\ Mark.item = "mark" /\ Mark.at = <<index, y>>
BY DEF Item, Curve, Mark

\* Why drawSlice fails on a block.
LEMMA WhyLost ==
  ASSUME Loaded(world, heap), Checked, index \in Side, y \in Nat,
         NEW b \in chunkGetBlock(heap[chunk], sliceX, y, sliceZ), WildTag(b) \/ NullTag(b)
  PROVE  Lost
<1>1. GraphAccepted(line)
  BY Zenon DEF Checked
<1>2. PICK h, T, sx, sz : /\ h = heap[chunk] /\ T = PaletteTags(heap) /\ h \in ChunkOver(T)
                          /\ chunk \in DOMAIN heap /\ sx = sliceX /\ sz = sliceZ /\ sx \in Side /\ sz \in Side
  BY SliceSeen, Zenon
<1>3. b \in chunkGetBlock(h, sx, y, sz)
  BY ONLY <1>2, b \in chunkGetBlock(heap[chunk], sliceX, y, sliceZ), Zenon
<1>4. CASE WildTag(b)
  <2>1. y = Height
    BY ONLY <1>2, <1>3, <1>4, y \in Nat, WildHeight DEF WildTag
  <2> QED BY ONLY <1>1, <2>1, Zenon DEF Lost
<1>5. CASE NullTag(b)
  <2>1. b.state >= 0 /\ b.tags # << >> /\ Incomplete(b.tags[1])
    BY ONLY <1>5, Zenon DEF NullTag
  <2>2. y \in 0 .. Height - 1
    <3>1. Height \in Nat
      BY ChunkAssumption DEF Height
    <3>2. CASE y >= Height
      <4>1. b \in {NoBlock, CorruptBlock, WildBlock}
        BY ONLY <1>3, <3>2 DEF chunkGetBlock
      <4> QED BY ONLY <2>1, <4>1 DEF NoBlock, CorruptBlock, WildBlock
    <3> QED BY ONLY <3>1, <3>2, y \in Nat
  <2>3. /\ <<sx, y, sz>> \in Cell /\ b.state = h.blocks[<<sx, y, sz>>]
        /\ b.tags = <<h.blockStates[y \div Edge][b.state + 1]>>
    BY ONLY <1>2, <1>3, <2>1, <2>2, BlockInside
  <2>4. PICK s, e, p : s = y \div Edge /\ p = h.blockStates[s] /\ e = b.state + 1
    BY Zenon
  <2>5. s \in SubChunk
    <3>1. PICK q \in Int, r \in Side : q = y \div Edge /\ y = Edge * q + r
      BY ONLY y \in Nat, Division
    <3>2. Edge \in Nat \ {0} /\ SubChunks \in Nat
      BY ChunkAssumption
    <3>3. PICK k, m, n : k = Edge * q /\ m = Edge * SubChunks /\ n = SubChunks
      BY Zenon
    <3>4. k \in Int /\ m \in Int /\ 0 <= k + r /\ k + r < m /\ n \in Nat
      <4>1. k \in Int /\ m \in Int
        BY ONLY <3>1, <3>2, <3>3
      <4>2. k + r = y /\ m = Height
        BY ONLY <3>1, <3>3, Zenon DEF Height
      <4> QED BY ONLY <2>2, <3>2, <3>3, <4>1, <4>2
    <3>5. /\ q >= n => k >= m
          /\ q <= -1 => k <= -Edge
      <4>1. \A E \in Nat \ {0} : \A i, j \in Int : i >= j => E * i >= E * j
        OBVIOUS
      <4>2. q >= n => Edge * q >= Edge * n
        BY ONLY <3>1, <3>2, <3>4, <4>1
      <4>3. -1 >= q => Edge * (-1) >= Edge * q
        BY ONLY <3>1, <3>2, <4>1
      <4>4. Edge * (-1) = -Edge
        BY ONLY <3>2
      <4> QED BY ONLY <3>1, <3>2, <3>3, <3>4, <4>2, <4>3, <4>4
    <3>6. q < n /\ 0 <= q
      BY ONLY <3>1, <3>2, <3>4, <3>5 DEF Side
    <3> QED BY ONLY <2>4, <3>1, <3>2, <3>3, <3>6 DEF SubChunk
  <2>6. p \in Seq(T)
    BY ONLY <1>2, <2>4, <2>5 DEF ChunkOver
  <2>7. b.state < Len(p)
    <3>1. \A c \in DOMAIN heap : \A at \in Cell : heap[c].blocks[at] < Len(heap[c].blockStates[at[2] \div Edge])
      BY Zenon DEF Loaded
    <3>2. h.blocks[<<sx, y, sz>>] < Len(h.blockStates[<<sx, y, sz>>[2] \div Edge])
      BY ONLY <1>2, <2>3, <3>1, Zenon
    <3>3. <<sx, y, sz>>[2] = y
      OBVIOUS
    <3> QED BY ONLY <2>3, <2>4, <3>2, <3>3, Zenon
  <2>8. b.state \in Int
    BY ONLY <1>2, <1>3, y \in Nat, WildHeight
  <2>9. e \in DOMAIN p /\ b.tags = <<p[e]>>
    BY ONLY <2>1, <2>3, <2>4, <2>6, <2>7, <2>8
  <2>10. Incomplete(p[e])
    <3>1. b.tags[1] = p[e]
      BY ONLY <2>9
    <3> QED BY ONLY <2>1, <3>1, Zenon
  <2>11. Incomplete(heap[chunk].blockStates[s][e]) /\ e \in DOMAIN heap[chunk].blockStates[s]
    BY ONLY <1>2, <2>4, <2>9, <2>10, Zenon
  <2> QED BY ONLY <1>1, <1>2, <2>5, <2>11, Zenon DEF Lost
<1> QED BY <1>4, <1>5

\* Where drawSlice is in its loops.
LEMMA AtPosition ==
  ASSUME AtDraw, index < Edge, y < yMax
  PROVE  Checked /\ index \in Side /\ index \in Int /\ y \in Nat /\ y \in yMin .. yMax - 1
<1>1. Checked /\ index \in 0 .. Edge /\ y \in yMin .. yMax
  BY Zenon DEF AtDraw
<1>2. PICK m \in Nat, t \in Nat : m = yMin /\ yMax = t + 1
  BY <1>1, GraphBounded
<1>3. Edge \in Nat
  BY ChunkAssumption
<1> QED BY ONLY <1>1, <1>2, <1>3, index < Edge, y < yMax DEF Side

\* A block is drawn.
LEMMA BlockDrawn ==
  ASSUME Loaded(world, heap), FilesInv, AtDraw, index < Edge, y < yMax, y' = y + 1,
         UNCHANGED <<world, heap, line, lineNo, xyz, xyzState, dim, facing, yMin, yMax, fileName, chunk, index>>,
         NEW b \in chunkGetBlock(heap[chunk], sliceX, y, sliceZ), ~WildTag(b), Write(DrawnItems(b))
  PROVE  AtDraw'
<1>1. Checked /\ index \in Side /\ index \in Int /\ y \in Nat /\ y \in yMin .. yMax - 1
  BY AtPosition
<1>2. /\ fileName \in DOMAIN files /\ files[fileName].kind = "file" /\ Shows(files[fileName].items, Drawn)
  BY Zenon DEF AtDraw
<1>3. /\ b.state \in Int
      /\ IsAir(b) => SeenTextures(line, index, y) = {}
      /\ ~IsAir(b) => SeenTexture(b) \in SeenTextures(line, index, y)
  <2>1. y \in Int
    BY ONLY <1>1
  <2> QED BY <1>1, <2>1, SeenHere, Zenon
<1>4. /\ IsAir(b) => DrawnItems(b) = << >>
      /\ ~IsAir(b) => DrawnItems(b) = <<Curve(SeenTexture(b)), Mark>>
      /\ SeenTexture(b) \in Textures
  BY ONLY <1>3, ItemsOf, Zenon
<1>5. PICK t, c, m : t \in Textures /\ t = SeenTexture(b) /\ c = Curve(t) /\ m = Mark
  BY ONLY <1>4, Zenon
<1>6. /\ c \in Item /\ c.item = "curve" /\ c.texture = t
      /\ m \in Item /\ m.item = "mark" /\ m.at = <<index, y>>
  <2>1. y \in Int
    BY ONLY <1>1
  <2> QED BY ONLY <1>1, <1>5, <2>1, ItemTypes, Zenon
<1>7. DrawnItems(b) \in Seq(Item)
  <2>1. << >> \in Seq(Item) /\ <<c, m>> \in Seq(Item)
    BY ONLY <1>6
  <2> QED BY ONLY <1>4, <1>5, <2>1, Zenon
<1>8. PICK old \in Seq(Item) : old = files[fileName].items
  BY <1>2, <1>7, Written, Zenon
<1>9. /\ fileName' \in DOMAIN files' /\ files'[fileName'].kind = "file"
      /\ files'[fileName'].items = old \o DrawnItems(b)
  <2>1. /\ DOMAIN files' = DOMAIN files /\ files'[fileName].kind = files[fileName].kind
        /\ files'[fileName].items = files[fileName].items \o DrawnItems(b)
    BY <1>2, <1>7, Written, Zenon
  <2>2. fileName' = fileName
    OBVIOUS
  <2> QED BY ONLY <1>2, <1>8, <2>1, <2>2, Zenon
<1>10. /\ SeenTextures(line, index, y) = {} => Drawn' = Drawn
       /\ SeenTextures(line, index, y) # {} => Drawn' = Drawn \cup {<<index, y>>}
       /\ <<index, y>> \notin Drawn
  BY <1>1, DrawnGrows
<1>11. Shows(old \o DrawnItems(b), Drawn')
  <2>1. Shows(old, Drawn)
    BY ONLY <1>2, <1>8, Zenon
  <2>2. CASE IsAir(b)
    <3>1. old \o << >> = old
      BY ONLY old \in Seq(Item), ConcatEmptySeq
    <3>2. DrawnItems(b) = << >> /\ Drawn' = Drawn
      BY ONLY <1>3, <1>4, <1>10, <2>2
    <3> QED BY ONLY <2>1, <3>1, <3>2
  <2>3. CASE ~IsAir(b)
    <3>1. t \in SeenTextures(line, index, y)
      BY ONLY <1>3, <1>5, <2>3, Zenon
    <3>2. DrawnItems(b) = <<c, m>> /\ Drawn' = Drawn \cup {<<index, y>>} /\ <<index, y>> \notin Drawn
      BY ONLY <1>4, <1>5, <1>10, <2>3, <3>1, Zenon
    <3>3. IsFiniteSet(Drawn)
      BY ONLY <1>1, DrawnFinite
    <3>4. PICK done, place : done = Drawn /\ place = <<index, y>>
      BY Zenon
    <3>5. place[1] = index /\ place[2] = y
      BY ONLY <3>4
    <3>6. c.texture \in SeenTextures(line, place[1], place[2])
      BY ONLY <1>6, <3>1, <3>5, Zenon
    <3>7. Shows(old \o <<c, m>>, done \cup {place})
      BY ONLY <1>6, <2>1, <3>2, <3>3, <3>4, <3>6, old \in Seq(Item), OneMore, Zenon
    <3> QED BY ONLY <3>2, <3>4, <3>7, Zenon
  <2> QED BY ONLY <2>2, <2>3
<1>12. PICK new : new = old \o DrawnItems(b)
  BY Zenon
<1>13. Shows(new, Drawn)'
  <2>1. \A n, h : SeenTextures(line, n, h)' = SeenTextures(line, n, h)
    BY ONLY UNCHANGED <<world, heap, line, lineNo, xyz, xyzState, dim, facing, yMin, yMax, fileName, chunk, index>>,
            SameQuestion
  <2>2. \A done : (\A n, h : SeenTextures(line, n, h)' = SeenTextures(line, n, h)) /\ Shows(new, done)
                  => /\ Len(new) = 2 * Cardinality(done)
                     /\ {new[n + 1].at : n \in Odds(new)} = done
                     /\ \A n \in Odds(new) :
                          /\ new[n].item = "curve" /\ new[n + 1].item = "mark"
                          /\ new[n].texture \in (SeenTextures(line, new[n + 1].at[1], new[n + 1].at[2]))'
    BY Zenon DEF Shows
  <2>3. Shows(new, Drawn')
    BY ONLY <1>11, <1>12, Zenon
  <2> QED BY ONLY <2>1, <2>2, <2>3, Zenon DEF Shows
<1>14. Checked'
  BY <1>1, CheckedStays
<1>15. index' \in 0 .. Edge /\ y' \in yMin' .. yMax'
  <2>1. PICK lo \in Nat, hi \in Nat : lo = yMin /\ yMax = hi + 1
    BY ONLY <1>1, GraphBounded
  <2>2. Edge \in Nat /\ index' = index /\ y' = y + 1 /\ yMin' = yMin /\ yMax' = yMax
    BY ChunkAssumption
  <2> QED BY ONLY <1>1, <2>1, <2>2 DEF Side
<1>16. Shows(files[fileName].items, Drawn)'
  <2>1. files'[fileName'].items = new
    BY ONLY <1>9, <1>12, Zenon
  <2> QED BY ONLY <1>13, <2>1, Zenon DEF Shows
<1> QED BY ONLY <1>9, <1>14, <1>15, <1>16, Zenon DEF AtDraw

\* One step of the inner loop.
LEMMA DrawBlockStep ==
  ASSUME CommandsInv, DrawBlock
  PROVE  WordsInv' /\ PhaseInv'
<1>1. /\ pc = "draw" /\ WordsInv /\ AtDraw /\ Loaded(world, heap) /\ FilesInv /\ index < Edge /\ y < yMax
      /\ UNCHANGED <<world, heap, line, lineNo, ss>>
      /\ UNCHANGED <<xyz, xyzState, dim, facing, yMin, yMax, fileName, chunk, index>>
  BY DEF DrawBlock, CommandsInv, PhaseInv, worldVars, optionVars
<1>2. PICK b \in chunkGetBlock(heap[chunk], sliceX, y, sliceZ) :
        \/ ~WildTag(b) /\ Write(DrawnItems(b)) /\ y' = y + 1 /\ pc' = pc
        \/ pc' = "aborted"
        \/ (WildTag(b) \/ NullTag(b)) /\ pc' = "undefined" /\ y' = y
  BY Zenon DEF DrawBlock, Goto
<1>3. WordsInv'
  BY ONLY <1>1, WordsRead
<1>4. CASE ~WildTag(b) /\ Write(DrawnItems(b)) /\ y' = y + 1 /\ pc' = pc
  <2>1. UNCHANGED <<world, heap, line, lineNo, xyz, xyzState, dim, facing, yMin, yMax, fileName, chunk, index>>
    BY ONLY <1>1
  <2>2. AtDraw'
    BY ONLY <1>1, <1>4, <2>1, b \in chunkGetBlock(heap[chunk], sliceX, y, sliceZ), BlockDrawn, Zenon
  <2>3. pc' = "draw"
    BY ONLY <1>1, <1>4
  <2> QED BY ONLY <1>3, <2>2, <2>3, Lands
<1>5. CASE pc' = "aborted"
  BY ONLY <1>3, <1>5, Lands
<1>6. CASE (WildTag(b) \/ NullTag(b)) /\ pc' = "undefined" /\ y' = y
  <2>1. Checked /\ index \in Side /\ y \in Nat
    BY ONLY <1>1, AtPosition, Zenon
  <2>2. Lost
    BY ONLY <1>1, <1>6, <2>1, b \in chunkGetBlock(heap[chunk], sliceX, y, sliceZ), WhyLost, Zenon
  <2>3. (GraphAccepted(line))' <=> GraphAccepted(line)
    BY ONLY <1>1, SameQuestion
  <2>4. Lost'
    BY ONLY <1>1, <1>6, <2>2, <2>3 DEF Lost
  <2> QED BY ONLY <1>3, <1>6, <2>4, Lands
<1> QED BY ONLY <1>2, <1>4, <1>5, <1>6, Zenon

\* What has been shown is still shown when the question, and the drawing, are the same.
LEMMA StillShown ==
  ASSUME NEW items, NEW done, Shows(items, done), UNCHANGED <<world, heap, line>>
  PROVE  /\ Len(items) = 2 * Cardinality(done)
         /\ {items[n + 1].at : n \in Odds(items)} = done
         /\ \A n \in Odds(items) :
              /\ items[n].item = "curve" /\ items[n + 1].item = "mark"
              /\ items[n].texture \in (SeenTextures(line, items[n + 1].at[1], items[n + 1].at[2]))'
<1>1. \A n, h : SeenTextures(line, n, h)' = SeenTextures(line, n, h)
  BY ONLY UNCHANGED <<world, heap, line>>, SameQuestion
<1> QED BY <1>1, Zenon DEF Shows

\* The end of a column, and the start of the next one.
LEMMA NextColumnStep ==
  ASSUME CommandsInv, NextColumn
  PROVE  WordsInv' /\ PhaseInv'
<1>1. /\ pc = "draw" /\ pc' = "draw" /\ WordsInv /\ AtDraw /\ index < Edge /\ y >= yMax
      /\ index' = index + 1 /\ y' = yMin
      /\ UNCHANGED <<world, heap, line, lineNo, ss, files>>
      /\ UNCHANGED <<xyz, xyzState, dim, facing, yMin, yMax, fileName, chunk>>
  BY DEF NextColumn, CommandsInv, PhaseInv, worldVars, optionVars
<1>2. WordsInv'
  BY ONLY <1>1, WordsRead
<1>3. /\ Checked /\ index \in 0 .. Edge /\ y \in yMin .. yMax
      /\ fileName \in DOMAIN files /\ files[fileName].kind = "file" /\ Shows(files[fileName].items, Drawn)
  BY ONLY <1>1, Zenon DEF AtDraw
<1>4. PICK m \in Nat, t \in Nat : m = GraphMin(line) /\ t = GraphTop(line) /\ yMin = m /\ yMax = t + 1 /\ m <= t
  BY ONLY <1>3, GraphBounded
<1>5. \A at \in Side \X (m .. t) : (Passed(at))' <=> Passed(at)
  <2> SUFFICES ASSUME NEW i \in Side, NEW h \in m .. t
               PROVE  (Passed(<<i, h>>))' <=> Passed(<<i, h>>)
    OBVIOUS
  <2>1. Edge \in Nat
    BY ChunkAssumption
  <2>2. (i < index + 1 \/ (i = index + 1 /\ h < m)) <=> (i < index \/ (i = index /\ h < y))
    BY ONLY <1>1, <1>3, <1>4, <2>1, i \in Side, h \in m .. t DEF Side
  <2> QED BY ONLY <1>1, <1>4, <2>2 DEF Passed
<1>6. /\ GraphMin(line)' = m /\ GraphTop(line)' = t
      /\ \A n, h : SeenTextures(line, n, h)' = SeenTextures(line, n, h)
  BY ONLY <1>1, <1>4, SameQuestion
<1>7. Drawn' = Drawn
  <2>1. Drawn = {at \in Side \X (m .. t) : Passed(at) /\ SeenTextures(line, at[1], at[2]) # {}}
    BY ONLY <1>4, Zenon DEF Drawn
  <2>2. Drawn' = {at \in Side \X (m .. t) : (Passed(at))' /\ SeenTextures(line, at[1], at[2])' # {}}
    BY ONLY <1>6, Zenon DEF Drawn
  <2> QED BY ONLY <1>5, <1>6, <2>1, <2>2, Zenon
<1>8. PICK old, done : old = files[fileName].items /\ done = Drawn
  BY Zenon
<1>9. (files[fileName].items)' = old /\ Drawn' = done /\ Shows(old, done)
  BY ONLY <1>1, <1>3, <1>7, <1>8
<1>10. Shows(files[fileName].items, Drawn)'
  <2>1. UNCHANGED <<world, heap, line>>
    BY ONLY <1>1
  <2> QED BY ONLY <1>9, <2>1, StillShown DEF Shows
<1>11. Checked'
  BY ONLY <1>1, <1>3, CheckedStays
<1>12. index' \in 0 .. Edge /\ y' \in yMin' .. yMax'
  <2>1. Edge \in Nat
    BY ChunkAssumption
  <2> QED BY ONLY <1>1, <1>3, <1>4, <2>1
<1>13. (fileName \in DOMAIN files /\ files[fileName].kind = "file")'
  BY ONLY <1>1, <1>3
<1>14. AtDraw'
  BY ONLY <1>10, <1>11, <1>12, <1>13, Zenon DEF AtDraw
<1> QED BY ONLY <1>1, <1>2, <1>14, Lands

\* The graph is finished.
LEMMA CloseGraphStep ==
  ASSUME CommandsInv, CloseGraph
  PROVE  WordsInv' /\ PhaseInv'
<1>1. /\ pc = "draw" /\ WordsInv /\ AtDraw /\ index = Edge
      /\ reply' = Says("graphed") /\ xyzState' = "none" /\ pc' = "prompt"
      /\ UNCHANGED <<world, heap, line, lineNo, ss, files>>
  BY DEF CloseGraph, Answer, Goto, CommandsInv, PhaseInv, worldVars
<1>2. WordsInv'
  BY ONLY <1>1, WordsRead
<1>3. Checked /\ fileName = line[4] /\ GraphAccepted(line) /\ Shows(files[fileName].items, Drawn)
  BY ONLY <1>1, Zenon DEF AtDraw, Checked
<1>4. Drawn = Picture(line)
  <2>1. \A at \in Side \X (GraphMin(line) .. GraphTop(line)) : Passed(at)
    <3>1. SUFFICES ASSUME NEW at \in Side \X (GraphMin(line) .. GraphTop(line)) PROVE Passed(at)
      OBVIOUS
    <3>2. at[1] \in Side /\ Edge \in Nat
      BY ChunkAssumption
    <3> QED BY ONLY <1>1, <3>2 DEF Passed, Side
  <2> QED BY ONLY <2>1, Zenon DEF Drawn, Picture
<1>5. /\ WhatBlocks(line)' = WhatBlocks(line) /\ ((GraphAccepted(line))' <=> GraphAccepted(line))
      /\ Picture(line)' = Picture(line)
  BY ONLY <1>1, SameQuestion
<1>6. ~WhatQuery(line)
  BY ONLY <1>3, GraphBounded
<1>7. reply'.kind = "graphed" /\ reply'.kind # "block"
  <2>1. reply'.kind = "graphed"
    BY ONLY <1>1 DEF Says, NoReply
  <2> QED BY ONLY <2>1
<1>8. PICK old, done : old = files[fileName].items /\ done = Picture(line)
  BY Zenon
<1>9. Shows(old, done) /\ (files[line[4]].items)' = old /\ Picture(line)' = done
  BY ONLY <1>1, <1>3, <1>4, <1>5, <1>8
<1>10. Shows(files[line[4]].items, Picture(line))'
  <2>1. UNCHANGED <<world, heap, line>>
    BY ONLY <1>1
  <2> QED BY ONLY <1>9, <2>1, StillShown DEF Shows
<1>11. AnswerRight'
  BY ONLY <1>1, <1>3, <1>5, <1>6, <1>7, <1>10, Zenon DEF AnswerRight
<1>12. AtPrompt'
  BY ONLY <1>1, <1>11, Zenon DEF AtPrompt
<1> QED BY ONLY <1>1, <1>2, <1>12, Lands

\* The maps own each chunk once.
LEMMA OneOwner ==
  ASSUME Loaded(world, heap), NEW c \in DOMAIN heap
  PROVE  Cardinality(Owners(c)) = 1
<1>1. /\ \E d \in ChunkDimension : \A e \in ChunkDimension :
           findChunk(world, chunkID(heap[c].x, heap[c].z), e) = c <=> e = d
      /\ \A d \in ChunkDimension : \A k \in DOMAIN world[d] :
           k = chunkID(heap[world[d][k]].x, heap[world[d][k]].z)
  BY Zenon DEF Loaded
<1>2. PICK id : id = chunkID(heap[c].x, heap[c].z)
  BY Zenon
<1>3. PICK d \in ChunkDimension : \A e \in ChunkDimension : findChunk(world, id, e) = c <=> e = d
  BY <1>1, <1>2, Zenon
<1>4. c # nullptr
  <2>1. heap \in Seq(ChunkOver(PaletteTags(heap)))
    BY DEF Loaded
  <2>2. DOMAIN heap = 1 .. Len(heap)
    BY ONLY <2>1, LenProperties
  <2> QED BY ONLY <2>2, c \in DOMAIN heap DEF nullptr
<1>5. id \in DOMAIN world[d] /\ world[d][id] = c
  BY <1>3, <1>4, Zenon DEF findChunk
<1>6. \A e \in ChunkDimension : \A k \in DOMAIN world[e] : world[e][k] = c => k = id /\ e = d
  <2> SUFFICES ASSUME NEW e \in ChunkDimension, NEW k \in DOMAIN world[e], world[e][k] = c
               PROVE  k = id /\ e = d
    OBVIOUS
  <2>1. k = id
    BY <1>1, <1>2, Zenon
  <2>2. findChunk(world, id, e) = c
    BY <2>1, Zenon DEF findChunk
  <2> QED BY <1>3, <2>1, <2>2, Zenon
<1>7. <<d, id>> \in Owners(c)
  BY <1>5 DEF Owners
<1>8. \A at \in Owners(c) : at = <<d, id>>
  <2> SUFFICES ASSUME NEW at \in Owners(c) PROVE at = <<d, id>>
    OBVIOUS
  <2>1. PICK e \in ChunkDimension : at \in {e} \X DOMAIN world[e]
    BY Zenon DEF Owners
  <2>2. at[1] = e /\ at[2] \in DOMAIN world[e] /\ at = <<at[1], at[2]>>
    BY <2>1
  <2>3. world[e][at[2]] = c
    BY <2>2 DEF Owners
  <2>4. at[2] = id /\ e = d
    BY <1>6, <2>2, <2>3, Zenon
  <2> QED BY ONLY <2>2, <2>4
<1>9. Owners(c) = {<<d, id>>}
  BY ONLY <1>7, <1>8
<1> QED BY ONLY <1>9, FS_Singleton

\* The end of the input: freeMemory.
LEMMA EndOfInputStep ==
  ASSUME CommandsInv, EndOfInput
  PROVE  WordsInv' /\ PhaseInv'
<1>1. /\ WordsInv /\ Loaded(world, heap) /\ pc' = "exit" /\ freed' = [c \in DOMAIN heap |-> Cardinality(Owners(c))]
      /\ UNCHANGED <<world, heap, line, lineNo, ss>>
  BY DEF EndOfInput, Goto, CommandsInv, worldVars
<1>2. WordsInv'
  BY ONLY <1>1, WordsRead
<1>3. \A c \in DOMAIN heap : freed'[c] = 1
  BY ONLY <1>1, OneOwner
<1>4. (\A c \in DOMAIN heap : freed[c] = 1)'
  BY ONLY <1>1, <1>3
<1> QED BY ONLY <1>1, <1>2, <1>4 DEF PhaseInv, Phase, Terminal
--------------------------------------------------------------------------------
(* The files.                                                                *)

\* GraphOpen touches the file of the line, and leaves it empty.
LEMMA OpenFiles ==
  ASSUME CommandsInv, GraphOpen
  PROVE  /\ FilesInv' /\ GraphAccepted(line) /\ fileName = line[4]
         /\ \A f \in (DOMAIN files \cup DOMAIN files') \ {fileName} :
              f \in DOMAIN files /\ f \in DOMAIN files' /\ files'[f] = files[f]
<1>1. FilesInv /\ GraphAccepted(line) /\ fileName = line[4]
  BY Zenon DEF GraphOpen, CommandsInv, PhaseInv, Checked
<1>2. PICK left \in Removed :
        \/ files' = [f \in DOMAIN left \cup {fileName} |->
                       IF f = fileName THEN [kind |-> "file", items |-> << >>] ELSE left[f]]
        \/ files' = left
  BY Zenon DEF GraphOpen
<1>3. /\ DOMAIN left \subseteq DOMAIN files /\ \A f \in DOMAIN left : left[f] = files[f]
      /\ \A f \in DOMAIN files \ {fileName} : f \in DOMAIN left
  BY DEF Removed
<1>4. CASE files' = left
  <2>1. \A f \in DOMAIN files' : f \in DOMAIN files /\ files'[f] = files[f]
    BY ONLY <1>3, <1>4
  <2>2. \A f \in DOMAIN files : files[f] \in [kind : {"file", "directory"}, items : Seq(Item)] /\ \A n \in DOMAIN files[f].items :
             files[f].items[n].item = "curve" => files[f].items[n].texture \in Textures
    BY ONLY <1>1, Zenon DEF FilesInv
  <2>3. FilesInv'
    BY ONLY <2>1, <2>2, Zenon DEF FilesInv
  <2>4. \A f \in (DOMAIN files \cup DOMAIN files') \ {fileName} :
          f \in DOMAIN files /\ f \in DOMAIN files' /\ files'[f] = files[f]
    BY ONLY <1>3, <1>4
  <2> QED BY ONLY <1>1, <2>3, <2>4
<1>5. CASE files' = [f \in DOMAIN left \cup {fileName} |->
                       IF f = fileName THEN [kind |-> "file", items |-> << >>] ELSE left[f]]
  <2>1. PICK empty : empty = [kind |-> "file", items |-> << >>]
    BY Zenon
  <2>2. empty \in [kind : {"file", "directory"}, items : Seq(Item)] /\ DOMAIN empty.items = {}
    BY ONLY <2>1
  <2>3. /\ DOMAIN files' = DOMAIN left \cup {fileName} /\ files'[fileName] = empty
        /\ \A f \in DOMAIN left \ {fileName} : files'[f] = files[f]
    BY ONLY <1>3, <1>5, <2>1
  <2>4. FilesInv'
    <3> SUFFICES ASSUME NEW f \in DOMAIN files'
                 PROVE  /\ files'[f] \in [kind : {"file", "directory"}, items : Seq(Item)]
                        /\ \A n \in DOMAIN files'[f].items :
                             files'[f].items[n].item = "curve" => files'[f].items[n].texture \in Textures
      BY Zenon DEF FilesInv
    <3>1. CASE f = fileName
      BY ONLY <2>2, <2>3, <3>1
    <3>2. CASE f # fileName
      <4>1. f \in DOMAIN files /\ files'[f] = files[f]
        BY ONLY <1>3, <2>3, <3>2, f \in DOMAIN files'
      <4> QED BY ONLY <1>1, <4>1, Zenon DEF FilesInv
    <3> QED BY ONLY <3>1, <3>2
  <2> QED BY ONLY <1>1, <1>3, <2>3, <2>4
<1> QED BY ONLY <1>2, <1>4, <1>5

\* DrawBlock appends to the file of the line, a texture that exists.
LEMMA DrawFiles ==
  ASSUME CommandsInv, DrawBlock
  PROVE  /\ FilesInv' /\ GraphAccepted(line) /\ fileName = line[4]
         /\ \A f \in (DOMAIN files \cup DOMAIN files') \ {fileName} :
              f \in DOMAIN files /\ f \in DOMAIN files' /\ files'[f] = files[f]
<1>1. /\ FilesInv /\ AtDraw /\ Checked /\ GraphAccepted(line) /\ fileName = line[4] /\ fileName \in DOMAIN files
      /\ Loaded(world, heap) /\ index < Edge /\ y < yMax
  BY Zenon DEF DrawBlock, CommandsInv, PhaseInv, AtDraw, Checked
<1>2. CASE files' = files
  BY <1>1, <1>2, Zenon DEF FilesInv
<1>3. CASE files' # files
  <2>1. PICK b \in chunkGetBlock(heap[chunk], sliceX, y, sliceZ) : ~WildTag(b) /\ Write(DrawnItems(b))
    BY <1>3, Zenon DEF DrawBlock
  <2>2. b.state \in Int /\ index \in Side /\ index \in Int /\ y \in Nat /\ y \in Int
    <3>1. index \in Side /\ index \in Int /\ y \in Nat
      BY ONLY <1>1, AtPosition
    <3>2. y \in Int
      BY ONLY <3>1
    <3> QED BY ONLY <1>1, <2>1, <3>1, <3>2, SeenHere, Zenon
  <2>3. PICK more : more = DrawnItems(b)
    BY Zenon
  <2>4. more \in Seq(Item) /\ \A n \in DOMAIN more : more[n].item = "curve" => more[n].texture \in Textures
    <3>1. PICK t, c, m : t \in Textures /\ c = Curve(t) /\ m = Mark /\ (more = << >> \/ more = <<c, m>>)
      BY ONLY <2>2, <2>3, ItemsOf, Zenon
    <3>2. /\ c \in Item /\ c.item = "curve" /\ c.texture = t /\ m \in Item /\ m.item = "mark"
      BY ONLY <2>2, <3>1, ItemTypes, Zenon
    <3>3. more \in Seq(Item)
      <4>1. << >> \in Seq(Item) /\ <<c, m>> \in Seq(Item)
        BY ONLY <3>2
      <4> QED BY ONLY <3>1, <4>1, Zenon
    <3>4. ASSUME NEW n \in DOMAIN more, more[n].item = "curve" PROVE more[n].texture \in Textures
      <4>1. more = <<c, m>>
        BY ONLY <3>1, n \in DOMAIN more
      <4>2. more[n] = c \/ more[n] = m
        BY ONLY <4>1, n \in DOMAIN more
      <4>3. more[n] = c
        BY ONLY <3>2, <3>4, <4>2
      <4> QED BY ONLY <3>1, <3>2, <4>3
    <3> QED BY ONLY <3>3, <3>4
  <2>5. Write(more)
    BY ONLY <2>1, <2>3
  <2>6. /\ DOMAIN files' = DOMAIN files /\ \A f \in DOMAIN files : f # fileName => files'[f] = files[f]
        /\ files[fileName].items \in Seq(Item)
        /\ files'[fileName].items = files[fileName].items \o more
        /\ files'[fileName] \in [kind : {"file", "directory"}, items : Seq(Item)]
    BY ONLY <1>1, <2>4, <2>5, Written
  <2>7. \A n \in DOMAIN files'[fileName].items : files'[fileName].items[n].item = "curve"
          => files'[fileName].items[n].texture \in Textures
    <3>1. PICK old : old = files[fileName].items
      BY Zenon
    <3>2. old \in Seq(Item) /\ \A n \in DOMAIN old : old[n].item = "curve" => old[n].texture \in Textures
      BY ONLY <1>1, <2>6, <3>1, Zenon DEF FilesInv
    <3>3. \A n \in DOMAIN (old \o more) : (old \o more)[n].item = "curve" => (old \o more)[n].texture \in Textures
      BY ONLY <2>4, <3>2, ConcatProperties, LenProperties
    <3> QED BY ONLY <2>6, <3>1, <3>3
  <2>8. FilesInv'
    BY ONLY <1>1, <2>6, <2>7, Zenon DEF FilesInv
  <2> QED BY ONLY <1>1, <2>6, <2>8
<1> QED BY ONLY <1>2, <1>3

\* Nothing is lost while nothing happens.
LEMMA Unmoved ==
  ASSUME CommandsInv, UNCHANGED vars
  PROVE  CommandsInv'
<1>1. /\ UNCHANGED <<world, heap, line, lineNo, ss, word, pc, xyz, xyzState, reply, files, freed>>
      /\ UNCHANGED <<dim, facing, yMin, yMax, fileName, chunk, index, y>>
  BY DEF vars, worldVars, optionVars, drawVars
<1>2. Loaded(world, heap)' /\ WordsInv' /\ FilesInv' /\ Unasked'
  BY <1>1 DEF CommandsInv, WordsInv, FilesInv, Unasked
<1>3. /\ WhatBlocks(line)' = WhatBlocks(line) /\ ((GraphAccepted(line))' <=> GraphAccepted(line))
      /\ Picture(line)' = Picture(line) /\ GraphMin(line)' = GraphMin(line) /\ GraphTop(line)' = GraphTop(line)
      /\ \A n, h : SeenTextures(line, n, h)' = SeenTextures(line, n, h)
  BY ONLY <1>1, SameQuestion
<1>4. \A items, done : Shows(items, done)' <=> Shows(items, done)
  BY ONLY <1>3, Zenon DEF Shows
<1>5. AtPrompt => AtPrompt'
  BY ONLY <1>1, <1>3, <1>4 DEF AtPrompt, AnswerRight
<1>6. Drawn' = Drawn
  BY ONLY <1>1, <1>3 DEF Drawn, Passed
<1>7. Checked => Checked'
  BY ONLY <1>1, CheckedStays
<1>8. AtDraw => AtDraw'
  BY ONLY <1>1, <1>4, <1>6, <1>7 DEF AtDraw
<1>9. Lost => Lost'
  BY ONLY <1>1, <1>3 DEF Lost
<1>10. /\ AtCommand => AtCommand'
       /\ AtCoords("what") => AtCoords("what")'
       /\ AtCoords("graph") => AtCoords("graph")'
       /\ AtWhatFlags => AtWhatFlags'
       /\ AtGraphFile => AtGraphFile'
  BY ONLY <1>1 DEF AtCommand, AtCoords, used, Begun, AtWhatFlags, Querying, Located, DimensionsUpTo, AtGraphFile, Bottom
<1>11. AtGraphFlags => AtGraphFlags'
  BY ONLY <1>1 DEF AtGraphFlags, used, Querying, Located, Begun, OptionsRead, GoodOption, NumberUpTo, OptionUpTo, Bottom
<1>12. PhaseInv'
  <2>1. PhaseInv /\ pc' = pc /\ heap' = heap /\ freed' = freed
    BY ONLY <1>1, CommandsInv, Zenon DEF CommandsInv
  <2>2. (\A c \in DOMAIN heap : freed[c] = 1) => (\A c \in DOMAIN heap : freed[c] = 1)'
    BY ONLY <2>1
  <2>3. CASE pc = "exit"
    <3>1. (\A c \in DOMAIN heap : freed[c] = 1)'
      BY ONLY <2>1, <2>2, <2>3, Zenon DEF PhaseInv
    <3> QED BY ONLY <2>1, <2>3, <3>1 DEF PhaseInv, Phase, Terminal
  <2>4. CASE pc # "exit"
    <3>1. /\ pc = "prompt" => AtPrompt'
          /\ pc \in {"what", "graph", "help"} => AtCommand'
          /\ pc = "whatCoords" => AtCoords("what")'
          /\ pc = "graphCoords" => AtCoords("graph")'
          /\ pc = "whatFlags" => AtWhatFlags'
          /\ pc = "graphFile" => AtGraphFile'
          /\ pc = "graphFlags" => AtGraphFlags'
          /\ pc = "graphOpen" => Checked'
          /\ pc = "draw" => AtDraw'
          /\ pc = "undefined" => Lost'
      BY ONLY <1>5, <1>7, <1>8, <1>9, <1>10, <1>11, <2>1 DEF PhaseInv
    <3>2. pc \in Phase \ {"exit"} /\ pc' = pc
      BY ONLY <2>1, <2>4, Zenon DEF PhaseInv
    <3> QED BY ONLY <3>1, <3>2, Lands DEF Phase, Terminal
  <2> QED BY ONLY <2>3, <2>4
<1> QED BY ONLY <1>2, <1>12, Zenon DEF CommandsInv

\* What every step of a handler, of the prompt and of the end keeps.
LEMMA StepInv ==
  ASSUME CommandsInv, [Next]_vars
  PROVE  CommandsInv'
<1>1. UNCHANGED <<world, heap>>
  BY DEF Next, Handle, ReadLine, Help, WhatArgument, GraphArgument, Argument, WhatCoords, WhatFlag, WhatAnswer,
         WhatAfterFree, GraphCoords, GraphFile, GraphFlag, GraphBounds, GraphOpen, DrawBlock, NextColumn,
         CloseGraph, EndOfInput, Done, vars, worldVars
<1>2. Loaded(world, heap)'
  BY ONLY <1>1, CommandsInv DEF CommandsInv
<1>3. FilesInv /\ (UNCHANGED files => FilesInv') /\ lineNo \in Nat /\ Unasked
  BY DEF CommandsInv, FilesInv, WordsInv
<1>4. CASE ReadLine
  <2>1. UNCHANGED files
    BY <1>4 DEF ReadLine
  <2>2. WordsInv' /\ PhaseInv'
    BY <1>4, ReadLineStep
  <2>3. Unasked'
    <3>1. lineNo' = lineNo + 1
      BY <1>4, Zenon DEF ReadLine
    <3> QED BY ONLY <1>3, <3>1 DEF Unasked
  <2> QED BY <1>2, <1>3, <2>1, <2>2, <2>3, Zenon DEF CommandsInv
<1>5. CASE Handle
  <2>1. WordsInv' /\ PhaseInv'
    BY <1>5, HelpStep, WhatArgumentStep, WhatCoordsStep, WhatFlagStep, WhatAnswerStep, WhatAfterFreeStep,
       GraphArgumentStep, GraphCoordsStep, GraphFileStep, GraphFlagStep, GraphBoundsStep, GraphOpenStep,
       DrawBlockStep, NextColumnStep, CloseGraphStep, Zenon DEF Handle
  <2>2. UNCHANGED files \/ GraphOpen \/ DrawBlock
    BY <1>5 DEF Handle, Help, WhatArgument, GraphArgument, Argument, WhatCoords, WhatFlag, WhatAnswer,
       WhatAfterFree, GraphCoords, GraphFile, GraphFlag, GraphBounds, NextColumn, CloseGraph
  <2>3. FilesInv'
    BY <1>3, <2>2, OpenFiles, DrawFiles, Zenon
  <2>4. lineNo' = lineNo /\ pc \notin {"prompt"} \cup Terminal
    BY <1>5 DEF Handle, Help, WhatArgument, GraphArgument, Argument, WhatCoords, WhatFlag, WhatAnswer, WhatAfterFree,
       GraphCoords, GraphFile, GraphFlag, GraphBounds, GraphOpen, DrawBlock, NextColumn, CloseGraph, Terminal
  <2>5. lineNo > 0
    BY <2>4 DEF CommandsInv, PhaseInv, Phase, AtCommand, AtCoords, AtWhatFlags, AtGraphFile, AtGraphFlags,
       AtDraw, Checked, Querying
  <2>6. Unasked'
    BY <2>4, <2>5 DEF Unasked
  <2> QED BY <1>2, <2>1, <2>3, <2>6, Zenon DEF CommandsInv
<1>6. CASE EndOfInput
  <2>1. UNCHANGED files
    BY <1>6 DEF EndOfInput
  <2>2. WordsInv' /\ PhaseInv'
    BY <1>6, EndOfInputStep
  <2>3. Unasked'
    BY <1>3, <1>6 DEF EndOfInput, Unasked
  <2> QED BY <1>2, <1>3, <2>1, <2>2, <2>3, Zenon DEF CommandsInv
<1>7. CASE UNCHANGED vars
  BY <1>7, Unmoved
<1> QED BY <1>4, <1>5, <1>6, <1>7 DEF Next, Done

\* A program that has just started.
LEMMA InitInv == Init => CommandsInv
<1> SUFFICES ASSUME Init PROVE CommandsInv
  OBVIOUS
<1>1. Loaded(world, heap)
  BY ViewerAssumption DEF Init
<1>2. WordsInv
  <2>1. line = << >> /\ ss = << >> /\ lineNo = 0
    BY DEF Init
  <2>2. line \in Seq(Word) /\ ss \in Seq(Word) /\ lineNo \in Nat
    BY ONLY <2>1
  <2>3. Suffix(<< >>, << >>)
    BY ONLY EmptySeq DEF Suffix
  <2>4. Suffix(ss, line)
    BY ONLY <2>1, <2>3
  <2> QED BY ONLY <2>2, <2>4, Zenon DEF WordsInv
<1>3. FilesInv
  <2>1. PICK r : r = [kind |-> "directory", items |-> << >>]
    BY Zenon
  <2>2. r \in [kind : {"file", "directory"}, items : Seq(Item)] /\ DOMAIN r.items = {}
    BY ONLY <2>1
  <2>3. \A f \in DOMAIN files : files[f] = r
    BY <2>1 DEF Init
  <2> QED BY ONLY <2>2, <2>3, Zenon DEF FilesInv
<1>4. PhaseInv
  <2>1. pc = "prompt" /\ xyzState = "none" /\ lineNo = 0
    BY DEF Init
  <2> QED BY <2>1 DEF PhaseInv, Phase, Terminal, AtPrompt
<1>5. Unasked
  BY DEF Init, Unasked
<1> QED BY <1>1, <1>2, <1>3, <1>4, <1>5 DEF CommandsInv

--------------------------------------------------------------------------------
(* The messages.                                                             *)

\* What a reply r to the line must be if no query comes of the line.
MessageFits(r) ==
  /\ Heard(1) \notin {"what", "graph", "help"} => r = Says("unknown_command")
  /\ Heard(1) = "help" =>
       r = Says(IF Heard(2) \in {"what", "graph"} THEN "usage" ELSE "unknown_command")
  /\ Heard(1) \in {"what", "graph"} /\ Heard(2) # "block" => r = Says("invalid_argument")
  /\ Heard(1) \in {"what", "graph"} /\ Heard(2) = "block" /\ Heard(3) \notin DOMAIN CoordsOf =>
       r = Says("bad_coordinates")
  /\ WhatQuery(line) => GoodDimensions(line)
  /\ Len(line) = 3 /\ Heard(1) = "graph" /\ Heard(2) = "block" /\ Heard(3) \in DOMAIN CoordsOf =>
       r = Says("bad_file_name")
  /\ GraphQuery(line) /\ ~GoodOptions(line) => r = Says("bad_option")
  /\ GraphQuery(line) /\ GoodOptions(line) /\ ~GoodBounds(line) => r = Says("bad_bounds")
  /\ GraphQuery(line) /\ GoodOptions(line) /\ GoodBounds(line) /\ ~GraphAccepted(line) =>
       r = Says("block_not_valid")

\* A command is the first word, read from the line or held before a blank one.
HeardInv ==
  /\ pc \in {"what", "graph", "help"} => pc = Heard(1) /\ word = Heard(1)
  /\ pc = "prompt" /\ lineNo > 0 => MessageFits(reply)

\* The words of a line and what it asks for stay while it is handled.
LEMMA SameLine ==
  ASSUME UNCHANGED <<line, held, world>>
  PROVE  /\ \A n : Heard(n)' = Heard(n)
         /\ MessageFits(reply)' <=> MessageFits(reply')
<1>1. \A n : Heard(n)' = Heard(n)
  BY DEF Heard
<1>2. (GraphAccepted(line))' <=> GraphAccepted(line)
  BY DEF GraphAccepted, getBlockChunk, findChunk
<1>3. line' = line
  OBVIOUS
<1> QED BY ONLY <1>1, <1>2, <1>3, Zenon DEF MessageFits

\* Queries are lines whose first three words are heard as they stand.
LEMMA QueriesHeard ==
  /\ WhatQuery(line) => Heard(1) = "what" /\ Heard(2) = "block" /\ Heard(3) \in DOMAIN CoordsOf
  /\ GraphQuery(line) => Heard(1) = "graph" /\ Heard(2) = "block" /\ Heard(3) \in DOMAIN CoordsOf
  /\ Len(line) >= 3 /\ Len(line) \in Nat => Heard(1) = line[1] /\ Heard(2) = line[2] /\ Heard(3) = line[3]
  /\ Len(line) >= 2 /\ Len(line) \in Nat => Heard(1) = line[1] /\ Heard(2) = line[2]
<1>1. line = << >> => Len(line) = 0
  OBVIOUS
<1> QED BY <1>1 DEF WhatQuery, GraphQuery, Heard

\* The word behind the command.
LEMMA SecondWord ==
  ASSUME CommandsInv, HeardInv, pc \in {"what", "graph", "help"}, word' = Extracted
  PROVE  word' = Heard(2)
<1>1. WordsInv /\ AtCommand /\ word = Heard(1)
  BY Zenon DEF CommandsInv, PhaseInv, HeardInv
<1>2. /\ Len(line) \in Nat /\ (ss = << >> <=> used = Len(line)) /\ (line = << >> <=> Len(line) = 0)
      /\ used \in 0 .. Len(line) /\ (ss # << >> => Head(ss) = line[used + 1])
  <2>1. line = << >> <=> Len(line) = 0
    BY ONLY <1>1, EmptySeq DEF WordsInv
  <2> QED BY ONLY <1>1, <2>1, TakeWord
<1>3. line # << >> => used = 1
  BY ONLY <1>1, Zenon DEF AtCommand
<1> QED BY ONLY <1>1, <1>2, <1>3, word' = Extracted DEF Extracted, Heard

\* A message for a line that no query comes of: the command, its argument or its
\* coordinates.
LEMMA NoQuery ==
  ASSUME NEW r,
         \/ Heard(1) \notin {"what", "graph", "help"} /\ r = Says("unknown_command")
         \/ /\ Heard(1) = "help"
            /\ r = Says(IF Heard(2) \in {"what", "graph"} THEN "usage" ELSE "unknown_command")
         \/ Heard(1) \in {"what", "graph"} /\ Heard(2) # "block" /\ r = Says("invalid_argument")
         \/ /\ Heard(1) \in {"what", "graph"} /\ Heard(2) = "block" /\ Heard(3) \notin DOMAIN CoordsOf
            /\ r = Says("bad_coordinates")
  PROVE  MessageFits(r)
<1>1. PICK a, b, c : a = Heard(1) /\ b = Heard(2) /\ c = Heard(3)
  BY Zenon
<1>2. ~WhatQuery(line) /\ ~GraphQuery(line)
  BY <1>1, QueriesHeard
<1> QED BY <1>1, <1>2 DEF MessageFits

\* A graph needs four words.
LEMMA QueryLength ==
  ASSUME Len(line) \in Nat, GraphQuery(line)
  PROVE  Len(line) # 3
<1>1. PICK n : n = Len(line)
  BY Zenon
<1>2. n >= 4
  BY ONLY <1>1, GraphQuery(line), Zenon DEF GraphQuery
<1> QED BY ONLY <1>1, <1>2

\* A message for a line that asks for a graph.
LEMMA GraphMessage ==
  ASSUME NEW r, Querying("graph"), Len(line) \in Nat,
         Len(line) = 3 => r = Says("bad_file_name"),
         Len(line) # 3 /\ ~GoodOptions(line) => r = Says("bad_option"),
         Len(line) # 3 /\ GoodOptions(line) /\ ~GoodBounds(line) => r = Says("bad_bounds"),
         Len(line) # 3 /\ GoodOptions(line) /\ GoodBounds(line) /\ ~GraphAccepted(line) =>
           r = Says("block_not_valid")
  PROVE  MessageFits(r)
<1>1. line[1] = "graph" /\ line[2] = "block" /\ Len(line) >= 3 /\ line[3] \in DOMAIN CoordsOf
  BY DEF Querying, Located, Begun
<1>2. Heard(1) = "graph" /\ Heard(2) = "block" /\ Heard(3) \in DOMAIN CoordsOf
  BY ONLY <1>1, Len(line) \in Nat, QueriesHeard
<1>3. ~WhatQuery(line)
  BY ONLY <1>1 DEF WhatQuery
<1>4. GraphQuery(line) => Len(line) # 3
  BY ONLY Len(line) \in Nat, QueryLength
<1> QED BY <1>2, <1>3, <1>4 DEF MessageFits

\* A line: its first word.
LEMMA ReadLineHeard ==
  ASSUME CommandsInv, HeardInv, ReadLine
  PROVE  HeardInv'
<1>1. PICK l \in Lines : \E first :
        /\ first = (IF l = << >> THEN word ELSE Head(l))
        /\ line' = l /\ held' = (IF l = << >> THEN word ELSE "") /\ word' = first
        /\ IF first \in {"what", "graph", "help"}
           THEN pc' = first /\ reply' = NoReply
           ELSE pc' = "prompt" /\ reply' = Says("unknown_command")
  BY DEF ReadLine, Goto
<1>2. PICK first :
        /\ first = (IF l = << >> THEN word ELSE Head(l))
        /\ line' = l /\ held' = (IF l = << >> THEN word ELSE "") /\ word' = first
        /\ IF first \in {"what", "graph", "help"}
           THEN pc' = first /\ reply' = NoReply
           ELSE pc' = "prompt" /\ reply' = Says("unknown_command")
  BY ONLY <1>1, Zenon
<1>3. l \in Seq(Word) /\ Len(l) \in Nat /\ (l = << >> <=> Len(l) = 0) /\ (l # << >> => Head(l) = l[1])
  <2>1. l \in Seq(Word)
    BY ViewerAssumption
  <2> QED BY ONLY <2>1, EmptySeq, LenProperties, HeadTailProperties
<1>4. Heard(1)' = first
  <2>1. Heard(1)' = IF line' = << >> THEN held' ELSE line'[IF 1 <= Len(line') THEN 1 ELSE Len(line')]
    BY Zenon DEF Heard
  <2>2. CASE l = << >>
    BY ONLY <1>2, <2>1, <2>2
  <2>3. CASE l # << >>
    <3>1. 1 <= Len(l)
      BY ONLY <1>3, <2>3
    <3>2. (IF 1 <= Len(l) THEN 1 ELSE Len(l)) = 1
      BY ONLY <3>1
    <3>3. Heard(1)' = l[1]
      BY ONLY <1>2, <2>1, <2>3, <3>2, Zenon
    <3> QED BY ONLY <1>2, <1>3, <2>3, <3>3, Zenon
  <2> QED BY ONLY <2>2, <2>3
<1>5. CASE first \in {"what", "graph", "help"}
  BY ONLY <1>2, <1>4, <1>5 DEF HeardInv
<1>6. CASE first \notin {"what", "graph", "help"}
  <2>1. MessageFits(reply)'
    <3>1. (~WhatQuery(line) /\ ~GraphQuery(line))'
      <4>1. Len(l) >= 3 => first = l[1]
        <5>1. l # << >> => first = Head(l)
          BY ONLY <1>2, Zenon
        <5> QED BY ONLY <1>3, <5>1
      <4>2. ~WhatQuery(l) /\ ~GraphQuery(l)
        BY ONLY <1>3, <1>6, <4>1 DEF WhatQuery, GraphQuery
      <4> QED BY ONLY <1>2, <4>2, Zenon
    <3>2. (Heard(1) \notin {"what", "graph", "help"} /\ reply = Says("unknown_command"))'
      BY ONLY <1>2, <1>4, <1>6 DEF Says, NoReply
    <3> QED BY ONLY <3>1, <3>2 DEF MessageFits
  <2> QED BY ONLY <1>2, <1>6, <2>1, Zenon DEF HeardInv
<1> QED BY ONLY <1>5, <1>6

\* A handler: where it comes back to the prompt, its answer is the one for the line.
LEMMA HandleHeard ==
  ASSUME CommandsInv, HeardInv, Handle
  PROVE  HeardInv'
<1>1. /\ UNCHANGED <<line, held, world, lineNo>> /\ WordsInv /\ Len(line) \in Nat
      /\ pc' \notin {"what", "graph", "help"}
  <2>1. UNCHANGED <<line, held, world, lineNo>> /\ pc' \notin {"what", "graph", "help"}
    BY DEF Handle, Help, WhatArgument, GraphArgument, Argument, WhatCoords, WhatFlag, WhatAnswer,
       WhatAfterFree, GraphCoords, ParseCoords, GraphFile, GraphFlag, GraphBounds, GraphOpen, DrawBlock, NextColumn,
       CloseGraph, Answer, Goto, worldVars, HeardInv, CommandsInv, PhaseInv, Phase, Terminal
  <2>2. WordsInv /\ Len(line) \in Nat
    BY LenProperties DEF CommandsInv, WordsInv
  <2> QED BY <2>1, <2>2
<1>2. SUFFICES ASSUME pc' = "prompt" PROVE MessageFits(reply')
  <2>1. MessageFits(reply)' <=> MessageFits(reply')
    BY ONLY <1>1, SameLine
  <2>2. (pc' = "prompt" => MessageFits(reply)') => HeardInv'
    BY ONLY <1>1, Zenon DEF HeardInv
  <2> QED BY <2>1, <2>2, Zenon
<1>3. CASE Help
  <2>1. Heard(1) = "help" /\ word' = Heard(2)
    BY <1>3, SecondWord DEF Help, Read, HeardInv
  <2>2. reply' = Says(IF word' \in {"what", "graph"} THEN "usage" ELSE "unknown_command")
    BY <1>3, Zenon DEF Help, Answer
  <2> QED BY ONLY <2>1, <2>2, NoQuery
<1>4. ASSUME NEW command \in {"what", "graph"}, NEW next, next # "prompt", Argument(command, next)
      PROVE  MessageFits(reply')
  <2>1. pc = command /\ word' = Extracted /\ Heard(1) = command
    BY <1>4 DEF Argument, Read, HeardInv
  <2>2. word' = Heard(2)
    BY ONLY <2>1, CommandsInv, HeardInv, command \in {"what", "graph"}, SecondWord
  <2>3. word' # "block" /\ reply' = Says("invalid_argument")
    BY ONLY <1>2, <1>4, Zenon DEF Argument, Answer, Goto
  <2> QED BY ONLY <2>1, <2>2, <2>3, command \in {"what", "graph"}, NoQuery
<1>5. ASSUME NEW command \in {"what", "graph"}, NEW next, next # "prompt", AtCoords(command), ParseCoords(next)
      PROVE  MessageFits(reply')
  <2>1. Begun(command) /\ used = 2 /\ word = "block" /\ word' = Extracted
    BY <1>5 DEF AtCoords, ParseCoords, Read
  <2>2. /\ word' \notin DOMAIN CoordsOf /\ reply' = Says("bad_coordinates")
    BY ONLY <1>2, <1>5, Zenon DEF ParseCoords, Answer, Goto
  <2>3. Heard(1) = command /\ Heard(2) = "block"
    BY ONLY <1>1, <2>1, QueriesHeard DEF Begun
  <2>4. Heard(3) = word'
    <3>1. /\ (ss = << >> <=> used = Len(line)) /\ used \in 0 .. Len(line)
          /\ ss # << >> => Head(ss) = line[used + 1] /\ used < Len(line)
      BY ONLY <1>1, TakeWord
    <3>2. line # << >>
      BY <2>1 DEF Begun
    <3> QED BY ONLY <1>1, <2>1, <3>1, <3>2 DEF Heard, Extracted, Begun
  <2> QED BY ONLY <2>2, <2>3, <2>4, command \in {"what", "graph"}, NoQuery
<1>6. CASE WhatArgument \/ GraphArgument
  BY <1>4, <1>6 DEF WhatArgument, GraphArgument
<1>7. CASE WhatCoords \/ GraphCoords
  BY <1>5, <1>7 DEF WhatCoords, GraphCoords, CommandsInv, PhaseInv
<1>8. CASE WhatAnswer
  <2>1. AtWhatFlags /\ ss = << >> /\ xyzState = "owned"
    BY <1>8 DEF WhatAnswer, CommandsInv, PhaseInv
  <2>2. /\ Querying("what")
        /\ \A j \in DimensionsUpTo(Len(line)) : j < Len(line) /\ line[j + 1] \in DOMAIN DimensionOf
    BY ONLY <1>1, <2>1, AllRead, Zenon DEF AtWhatFlags
  <2>3. DimensionsUpTo(Len(line)) = DimensionFlags(line)
    BY ONLY <1>1 DEF DimensionsUpTo, DimensionFlags
  <2>4. GoodDimensions(line)
    BY ONLY <2>2, <2>3, Zenon DEF GoodDimensions
  <2>5. line[1] = "what" /\ line[2] = "block" /\ Len(line) >= 3 /\ line[3] \in DOMAIN CoordsOf
    BY ONLY <2>2 DEF Querying, Located, Begun
  <2>6. Heard(1) = "what" /\ Heard(2) = "block" /\ Heard(3) \in DOMAIN CoordsOf
    BY ONLY <1>1, <2>5, QueriesHeard
  <2>7. ~GraphQuery(line)
    BY ONLY <2>5 DEF GraphQuery
  <2> QED BY ONLY <2>4, <2>6, <2>7 DEF MessageFits
<1>9. CASE GraphFile
  <2>1. AtGraphFile /\ reply' = Says("bad_file_name") /\ (ss # << >> => Head(ss) = "")
    BY <1>2, <1>9 DEF GraphFile, Answer, Goto, CommandsInv, PhaseInv
  <2>2. Querying("graph") /\ used = 3
    BY ONLY <2>1, Zenon DEF AtGraphFile
  <2>3. ss = << >>
    <3>1. ss # << >> => Head(ss) \in Word
      BY ONLY <1>1, HeadTailProperties DEF WordsInv
    <3>2. "" \notin Word
      BY Zenon DEF Word
    <3> QED BY ONLY <2>1, <3>1, <3>2
  <2>4. Len(line) = 3
    BY ONLY <1>1, <2>2, <2>3, AllRead
  <2> QED BY ONLY <1>1, <2>1, <2>2, <2>4, GraphMessage, Zenon
<1>10. CASE GraphFlag
  <2>1. pc = "graphFlags" /\ AtGraphFlags /\ ss # << >>
    BY <1>10 DEF GraphFlag, CommandsInv, PhaseInv
  <2>2. PICK flag, value : flag = Head(ss) /\ value = IF Len(ss) > 1 THEN ss[2] ELSE flag
    BY Zenon
  <2>3. /\ ~(flag = "-d" /\ value \in DOMAIN DimensionOf) /\ ~(flag = "-f" /\ value \in Facings)
        /\ ~(flag \in {"-ymin", "-ymax"} /\ value \in DOMAIN IntOf)
        /\ reply' = Says("bad_option")
    <3>1. pc' # pc
      BY <1>2, <2>1
    <3> QED BY ONLY <1>10, <2>2, <3>1 DEF GraphFlag, Answer
  <2>4. PICK n, L : n = used /\ L = Len(line)
    BY Zenon
  <2>5. n \in Nat /\ n < L /\ L \in Nat /\ n >= 4 /\ n % 2 = 0 /\ Querying("graph")
    <3>1. used >= 4 /\ used % 2 = 0 /\ Querying("graph")
      BY ONLY <2>1, Zenon DEF AtGraphFlags
    <3>2. Len(line) \in Nat /\ used \in 0 .. Len(line) /\ used < Len(line)
      BY ONLY <1>1, <2>1, TakeWord
    <3> QED BY ONLY <2>4, <3>1, <3>2
  <2>6. flag = line[n + 1] /\ (L - n > 1 => line[n + 2] = value)
    BY ONLY <1>1, <2>1, <2>2, <2>4, TakeWord DEF used
  <2>7. ~GoodOptions(line)
    BY ONLY <2>3, <2>4, <2>5, <2>6, BadOption
  <2>8. Len(line) # 3
    BY ONLY <2>4, <2>5
  <2> QED BY ONLY <1>1, <2>3, <2>5, <2>7, <2>8, GraphMessage, Zenon
<1>11. CASE GraphBounds
  <2>1. AtGraphFlags /\ ss = << >>
    BY <1>11 DEF GraphBounds, CommandsInv, PhaseInv
  <2>2. PICK found : found = getBlockChunk(world, xyz[1], xyz[2], xyz[3], dim)
    BY Zenon
  <2>3. \/ badBounds /\ reply' = Says("bad_bounds")
        \/ ~badBounds /\ found = nullptr /\ reply' = Says("block_not_valid")
    BY <1>2, <1>11, <2>2, Zenon DEF GraphBounds, Goto, Answer
  <2>4. Querying("graph") /\ GraphQuery(line) /\ GoodOptions(line) /\ (~badBounds <=> GoodBounds(line))
    BY ONLY <1>1, <2>1, OptionsComplete, BoundsTest, Zenon DEF AtGraphFlags
  <2>5. Len(line) # 3
    BY ONLY <1>1, <2>4, QueryLength
  <2> QED BY ONLY <1>1, <2>3, <2>4, <2>5, GraphMessage, Zenon
<1>12. CASE GraphOpen \/ CloseGraph
  <2>1. Checked
    BY <1>12 DEF GraphOpen, CloseGraph, CommandsInv, PhaseInv, AtDraw
  <2>2. Querying("graph") /\ GraphQuery(line) /\ GoodOptions(line) /\ GoodBounds(line) /\ GraphAccepted(line)
    BY ONLY <2>1, Zenon DEF Checked, GraphAccepted
  <2>3. Len(line) # 3
    BY ONLY <1>1, <2>2, QueryLength
  <2> QED BY ONLY <1>1, <2>2, <2>3, GraphMessage, Zenon
<1>13. CASE WhatFlag \/ WhatAfterFree \/ DrawBlock \/ NextColumn
  BY <1>2, <1>13 DEF WhatFlag, WhatAfterFree, DrawBlock, NextColumn, Goto
<1> QED BY <1>3, <1>6, <1>7, <1>8, <1>9, <1>10, <1>11, <1>12, <1>13 DEF Handle

LEMMA HeardStep ==
  ASSUME CommandsInv, HeardInv, [Next]_vars
  PROVE  HeardInv'
<1>1. CASE EndOfInput
  BY <1>1 DEF EndOfInput, Goto, HeardInv
<1>2. CASE UNCHANGED vars
  <2>1. UNCHANGED <<line, held, world, lineNo, pc, word, reply>>
    BY <1>2 DEF vars, worldVars
  <2> QED BY ONLY <2>1, HeardInv, SameLine DEF HeardInv
<1> QED BY <1>1, <1>2, ReadLineHeard, HandleHeard DEF Next, Done

--------------------------------------------------------------------------------
(* The theorems.                                                             *)

\* In every phase of main the options, the graph drawn so far and the answer are
\* those of the line, and the files and worlds what they should be.
THEOREM CommandsInvariant == Spec => []CommandsInv
<1>1. CommandsInv /\ [Next]_vars => CommandsInv'
  BY StepInv
<1> QED BY InitInv, <1>1, PTL DEF Spec

\* What main, getBlock and drawSlice do is undefined only for a dimension "what" does
\* not know, at the height just above the column, and on tags without what their name
\* calls for.
THEOREM UndefinedOnlyThere == Spec => []UndefinedCauses
<1>1. CommandsInv => UndefinedCauses
  BY DEF CommandsInv, PhaseInv, Lost, UndefinedCauses
<1> QED BY CommandsInvariant, <1>1, PTL

\* freeMemory deletes each chunk once, and each handler deletes the coordinates of
\* parseCoords before the next prompt.
THEOREM EverythingFreed == Spec => []ExitFreesAll
<1>1. CommandsInv => ExitFreesAll
  BY DEF CommandsInv, PhaseInv, ExitFreesAll, CoordinatesReleased, AtPrompt, AtGraphFile, AtGraphFlags,
         AtDraw, Checked
<1> QED BY CommandsInvariant, <1>1, PTL

\* The answer of main to a line, a message included, is the one its words call for,
\* whatever the lines before it left in the options; what they left in word is read
\* only by a blank line, which is answered as that word alone would be.
THEOREM AnswersRight == Spec => []AnswersMatchLine
<1>1. ASSUME CommandsInv, HeardInv PROVE AnswersMatchLine
  <2>1. pc = "prompt" /\ lineNo > 0 => AnswerRight
    BY <1>1, Zenon DEF CommandsInv, PhaseInv, AtPrompt
  <2>2. RefusalsMatchLine
    BY <1>1, Zenon DEF HeardInv, MessageFits, RefusalsMatchLine
  <2> QED BY <2>1, <2>2, Zenon DEF AnswersMatchLine, WhatMatchesLine, GraphMatchesLine, AnswerRight
<1>2. Init => HeardInv
  <2>1. Init => pc = "prompt" /\ lineNo = 0
    BY Zenon DEF Init
  <2> QED BY ONLY <2>1 DEF HeardInv
<1>3. CommandsInv /\ HeardInv /\ [Next]_vars => HeardInv'
  BY HeardStep
<1> QED BY CommandsInvariant, <1>1, <1>2, <1>3, PTL DEF Spec

\* A graph that drawSlice finished shows the blocks of the slice, each once, at its place
\* and with a texture that exists.
THEOREM SlicesRight == Spec => []SliceFaithful
<1>1. ASSUME CommandsInv PROVE SliceFaithful
  <2>1. TexturesExist
    BY <1>1, Zenon DEF CommandsInv, FilesInv, TexturesExist
  <2>2. ASSUME pc = "prompt", reply.kind = "graphed"
        PROVE  Shows(files[line[4]].items, Picture(line))
    <3>1. lineNo \in Nat /\ lineNo # 0
      BY <1>1, <2>2 DEF CommandsInv, WordsInv, Unasked, NoReply
    <3>2. lineNo > 0
      BY ONLY <3>1
    <3> QED BY <1>1, <2>2, <3>2, Zenon DEF CommandsInv, PhaseInv, AtPrompt, AnswerRight
  <2> QED BY <2>1, <2>2, Zenon DEF SliceFaithful, Shows, Odds
<1> QED BY <1>1, CommandsInvariant, PTL

\* A step changes no file but the one that a correct graph line names.
THEOREM OnlyTheNamedFile == Spec => FilesGuarded
<1>1. ASSUME CommandsInv, Next, files' # files
      PROVE  /\ GraphAccepted(line)
             /\ \A f \in (DOMAIN files \cup DOMAIN files') \ {line[4]} :
                  f \in DOMAIN files /\ f \in DOMAIN files' /\ files'[f] = files[f]
  <2>1. GraphOpen \/ DrawBlock
    BY <1>1 DEF Next, Handle, ReadLine, Help, WhatArgument, GraphArgument, Argument, WhatCoords, WhatFlag,
       WhatAnswer, WhatAfterFree, GraphCoords, GraphFile, GraphFlag, GraphBounds, NextColumn,
       CloseGraph, EndOfInput, Done, vars
  <2> QED BY <1>1, <2>1, OpenFiles, DrawFiles, Zenon
<1>2. CommandsInv /\ [Next]_vars =>
        [/\ GraphAccepted(line)
         /\ \A f \in (DOMAIN files \cup DOMAIN files') \ {line[4]} :
              f \in DOMAIN files /\ f \in DOMAIN files' /\ files'[f] = files[f]]_files
  BY <1>1 DEF vars
<1> QED BY <1>2, CommandsInvariant, PTL DEF Spec, FilesGuarded
================================================================================
