------------------------------- MODULE NBTParser -------------------------------
(***************************************************************************)
(* parseNBTTag and parseNBTPayload (ParseBedrock.cpp) on one palette entry *)
(* of a value, and the tree of NBTTag objects (NBTTag.cpp) they build, up  *)
(* to its release.                                                         *)
(*                                                                         *)
(* The two functions call each other; stack holds the tags whose payload   *)
(* is being read.  Names and payloads are sequences of bytes, a number     *)
(* payload with its lowest byte first.  Reading a byte the value does not  *)
(* have fails the assertion of Slice::operator[].                          *)
(***************************************************************************)
EXTENDS NBTTypes, Integers, Sequences, FiniteSets, Functions, Bitwise

CONSTANTS
  Inputs,      \* values: bytes, the tree written, whether it is a sound one
  OffsetBits   \* width of the int16_t offset of parseShort and parseLong

VARIABLES
  input,    \* the value, a member of Inputs
  offset,
  tags,     \* the NBTTag objects, in the order of "new NBTTag"; 1 is the root
  stack,    \* the lists and compounds being read: a tag and what is left of it
  tag,      \* the argument of the call that is running
  pc,
  freed     \* how often each tag was deleted

vars == <<input, offset, tags, stack, tag, pc, freed>>

s == input.bytes
Phase == {"tag", "name", "payload", "inner", "return", "parsed", "freed", "aborted"}

NewTag(type) == [type |-> type, name |-> << >>, val |-> << >>, inner |-> [n \in {} |-> 0]]

\* Each "s[i]" of a range of offsets is there.
Has(first, n) == first >= 0 /\ first + n <= Len(s)
Bytes(first, n) == SubSeq(s, first + 1, first + n)

\* The offset as parseShort and parseLong get it.  (Faulty variant: one bit less.)
Narrow_Less(o) == ((o + 2^(OffsetBits - 2)) % 2^(OffsetBits - 1)) - 2^(OffsetBits - 2)
Narrow(o) == ((o + 2^(OffsetBits - 1)) % 2^OffsetBits) - 2^(OffsetBits - 1)

parseShort(o) ==
  LET n == s[Narrow(o) + 1] + 256 * s[Narrow(o) + 2]
  IN  IF n < 32768 THEN n ELSE n - 65536

\* The result of parseLong.  An int is shifted by up to 56 bits: a shift of 32
\* and more either wraps (as the machine does) or yields 0 (as the compiler may
\* decide); the or-ed int then fills the high half with its sign.
parseLong(b) ==
  {LET high(j) == IF wraps THEN b[j + 4] ELSE 0
       minus   == b[4] >= 128 \/ high(4) >= 128
   IN  [j \in 1 .. 8 |-> IF j <= 4 THEN b[j] | high(j) ELSE IF minus THEN 255 ELSE 0] :
   wraps \in BOOLEAN}

-----------------------------------------------------------------------------

Init ==
  /\ input \in Inputs
  /\ offset = input.start
  /\ tags = <<NewTag(NBT_END)>>
  /\ stack = << >>
  /\ tag = 1
  /\ pc = "tag"
  /\ freed = << >>

Goto(phase) == pc' = phase

\* An assertion of Slice::operator[] fails.
Abort == Goto("aborted") /\ UNCHANGED <<input, offset, tags, stack, tag, freed>>

\* The type, unless the tag is the element of a list.
TagType ==
  /\ pc = "tag"
  /\ \/ /\ Has(offset, 1)
        /\ tags' = [tags EXCEPT ![tag].type = s[offset + 1]]
        /\ offset' = offset + 1
        /\ Goto("name")
        /\ UNCHANGED <<input, stack, tag, freed>>
     \/ ~Has(offset, 1) /\ Abort

\* The name; a negative length is none.
TagName ==
  /\ pc = "name"
  /\ \/ /\ Has(Narrow(offset), 2)
        /\ LET nameLength == IF parseShort(offset) < 0 THEN 0 ELSE parseShort(offset)
           IN \/ /\ Has(offset + 2, nameLength)
                 /\ tags' = [tags EXCEPT ![tag].name = Bytes(offset + 2, nameLength)]
                 /\ offset' = offset + 2 + nameLength
                 /\ Goto("payload")
                 /\ UNCHANGED <<input, stack, tag, freed>>
              \/ ~Has(offset + 2, nameLength) /\ Abort
     \/ ~Has(Narrow(offset), 2) /\ Abort

tagType == tags[tag].type

\* A payload of n bytes that takes one of the values V.
Fixed(readable, n, V) ==
  \/ /\ readable
     /\ \E val \in V : tags' = [tags EXCEPT ![tag].val = val]
     /\ offset' = offset + n
     /\ Goto("return")
     /\ UNCHANGED <<input, stack, tag, freed>>
  \/ ~readable /\ Abort

BytePayload  == pc = "payload" /\ tagType = NBT_BYTE /\ Fixed(Has(offset, 1), 1, {Bytes(offset, 1)})
ShortPayload ==
  pc = "payload" /\ tagType = NBT_SHORT /\ Fixed(Has(Narrow(offset), 2), 2, {Bytes(Narrow(offset), 2)})
IntPayload   == pc = "payload" /\ tagType = NBT_INT /\ Fixed(Has(offset, 4), 4, {Bytes(offset, 4)})
LongPayload  ==
  /\ pc = "payload" /\ tagType = NBT_LONG
  /\ Fixed(Has(Narrow(offset), 8), 8, parseLong(Bytes(Narrow(offset), 8)))

\* The length is an unsigned number, so a negative one runs off the end.
StringPayload ==
  /\ pc = "payload" /\ tagType = NBT_STRING
  /\ \/ /\ Has(Narrow(offset), 2)
        /\ LET n == parseShort(offset)
           IN Fixed(n >= 0 /\ Has(offset + 2, n), 2 + n, {Bytes(offset + 2, n)})
     \/ ~Has(Narrow(offset), 2) /\ Abort

\* A list starts with the type and the number of its elements; a length beyond
\* three bytes is larger than any value.
ListPayload ==
  /\ pc = "payload" /\ tagType = NBT_LIST
  /\ \/ /\ Has(offset, 5)
        /\ LET b == Bytes(offset, 5)
               listLength == IF b[4] + b[5] = 0 THEN b[2] + 256 * b[3] ELSE Len(s)
           IN  stack' = Append(stack, [tag |-> tag, listType |-> b[1], left |-> listLength])
        /\ offset' = offset + 5
        /\ Goto("inner")
        /\ UNCHANGED <<input, tags, tag, freed>>
     \/ ~Has(offset, 5) /\ Abort

CompoundPayload ==
  /\ pc = "payload" /\ tagType = NBT_COMPOUND
  /\ stack' = Append(stack, [tag |-> tag, listType |-> NBT_END, left |-> 0])
  /\ Goto("inner")
  /\ UNCHANGED <<input, offset, tags, tag, freed>>

\* "switch" has no case for this type: the payload is empty.  (Faulty variant: the
\* type is asked for again.)
OtherPayload_Stays ==
  /\ pc = "payload"
  /\ tagType \notin {NBT_BYTE, NBT_SHORT, NBT_INT, NBT_LONG, NBT_STRING, NBT_LIST, NBT_COMPOUND}
  /\ UNCHANGED vars
OtherPayload ==
  /\ pc = "payload"
  /\ tagType \notin {NBT_BYTE, NBT_SHORT, NBT_INT, NBT_LONG, NBT_STRING, NBT_LIST, NBT_COMPOUND}
  /\ Goto("return")
  /\ UNCHANGED <<input, offset, tags, stack, tag, freed>>

Top == stack[Len(stack)]
Pop == SubSeq(stack, 1, Len(stack) - 1)

\* The next element of a list: a name is read although NBT has none there.
ListElement ==
  /\ pc = "inner" /\ tags[Top.tag].type = NBT_LIST
  /\ Top.left > 0
  /\ tags' = Append(tags, NewTag(Top.listType))
  /\ tag' = Len(tags) + 1
  /\ stack' = [stack EXCEPT ![Len(stack)].left = @ - 1]
  /\ Goto("name")
  /\ UNCHANGED <<input, offset, freed>>

CompoundElement ==
  /\ pc = "inner" /\ tags[Top.tag].type = NBT_COMPOUND
  /\ \/ /\ Has(offset, 1)
        /\ s[offset + 1] # NBT_END
        /\ tags' = Append(tags, NewTag(NBT_END))
        /\ tag' = Len(tags) + 1
        /\ Goto("tag")
        /\ UNCHANGED <<input, offset, stack, freed>>
     \/ ~Has(offset, 1) /\ Abort

\* The end of a list, or the byte 0 behind a compound.
EndOfInner ==
  /\ pc = "inner"
  /\ \/ tags[Top.tag].type = NBT_LIST /\ Top.left = 0 /\ UNCHANGED offset
     \/ /\ tags[Top.tag].type = NBT_COMPOUND /\ Has(offset, 1) /\ s[offset + 1] = NBT_END
        /\ offset' = offset + 1
  /\ tag' = Top.tag
  /\ stack' = Pop
  /\ Goto("return")
  /\ UNCHANGED <<input, tags, freed>>

\* NBTTag::addInnerTag.
addInnerTag(inner, name, t) ==
  [n \in DOMAIN inner \cup {name} |-> IF n = name THEN t ELSE inner[n]]

\* Back in the loop of the list or compound that holds the tag, or in
\* parseBedrock.
Return ==
  /\ pc = "return"
  /\ \/ /\ stack = << >>
        /\ Goto("parsed")
        /\ UNCHANGED <<tags, tag>>
     \/ /\ stack # << >>
        /\ tags' = [tags EXCEPT ![Top.tag].inner = addInnerTag(@, tags[tag].name, tag)]
        /\ tag' = Top.tag
        /\ Goto("inner")
  /\ UNCHANGED <<input, offset, stack, freed>>

Children(t) == Range(tags[t].inner)

\* The tags that NBTTag::freeMemory of the root reaches.  (Faulty variant: it
\* does not go below the tags of the root.)
Reached_Flat == {1} \cup Children(1)
Reached ==
  LET R[t \in DOMAIN tags] == t = 1 \/ \E q \in 1 .. t - 1 : R[q] /\ t \in Children(q)
  IN  {t \in DOMAIN tags : R[t]}

\* Chunk::freeMemory: the root and, through its maps, each inner tag is deleted.
Release ==
  /\ pc = "parsed"
  /\ freed' = [t \in DOMAIN tags |->
                 IF t = 1 THEN 1
                 ELSE Cardinality({<<q, n>> \in UNION {{q} \X DOMAIN tags[q].inner : q \in Reached} :
                                     tags[q].inner[n] = t})]
  /\ Goto("freed")
  /\ UNCHANGED <<input, offset, tags, stack, tag>>

Done == pc \in {"freed", "aborted"} /\ UNCHANGED vars

Next ==
  \/ TagType \/ TagName
  \/ BytePayload \/ ShortPayload \/ IntPayload \/ LongPayload \/ StringPayload
  \/ ListPayload \/ CompoundPayload \/ OtherPayload
  \/ ListElement \/ CompoundElement \/ EndOfInner \/ Return \/ Release \/ Done

Spec == Init /\ [][Next]_vars

-----------------------------------------------------------------------------

\* NBTTag::findInnerTag, as the set of results the order of an unordered_map
\* allows; 0 is nullptr.
findInnerTag(t, key) ==
  LET F[u \in DOMAIN tags] ==
        IF key \in DOMAIN tags[u].inner THEN {tags[u].inner[key]}
        ELSE LET found == UNION {F[c] : c \in Children(u)} \ {0}
             IN  IF found = {} THEN {0} ELSE found
  IN  F[t]

\* What was written, in the order of writing.
Written == input.tree

(***************************************************************************)
(* A written tree is a sequence of [type, name, val, parent], parent 0     *)
(* being none; the parser allocates one tag for each, in the same order.   *)
(* A tag is overwritten if a later one has its name and its parent.        *)
(***************************************************************************)
Overwritten(n) ==
  \E m \in n + 1 .. Len(Written) :
    Written[m].parent = Written[n].parent /\ Written[m].name = Written[n].name
RECURSIVE Lost(_)
Lost(n) == n # 1 /\ (Overwritten(n) \/ Lost(Written[n].parent))

\* Within reach of the 16-bit offsets.
InReach == Len(s) <= 2^(OffsetBits - 1)

\* No list has elements, as in every palette of a Bedrock world.
NoElements ==
  \A n \in DOMAIN Written :
    Written[n].parent # 0 => Written[Written[n].parent].type # NBT_LIST

Supported == input.intact /\ InReach /\ NoElements

\* Type correctness, and no tag is its own ancestor: inner tags are newer.
TypeOK ==
  /\ offset \in Nat
  /\ pc \in Phase
  /\ tag \in DOMAIN tags
  /\ \A t \in DOMAIN tags : \A n \in DOMAIN tags[t].inner :
       tags[t].inner[n] \in t + 1 .. Len(tags) /\ tags[tags[t].inner[n]].name = n
  /\ \A f \in DOMAIN stack : stack[f].tag \in DOMAIN tags

\* A tag as the game writes it is read to its last byte and becomes the tree it
\* stands for: types, names, payloads and nesting, unless the value is so long
\* that the narrow offsets do not reach it, or a list has elements.  (The payload
\* of a LONG is exempt.)
IntactFaithful ==
  Supported =>
    /\ pc # "aborted"
    /\ pc = "parsed" =>
         /\ offset = Len(s)
         /\ Len(tags) = Len(Written)
         /\ \A n \in DOMAIN tags :
              /\ tags[n].type = Written[n].type /\ tags[n].name = Written[n].name
              /\ tags[n].type # NBT_LONG => tags[n].val = Written[n].val
              /\ tags[n].inner = [name \in {Written[m].name : m \in {m \in DOMAIN Written :
                                                               Written[m].parent = n}} |->
                   CHOOSE m \in DOMAIN Written :
                     Written[m].parent = n /\ Written[m].name = name /\ ~Overwritten(m)]

\* A name is found exactly if a tag below the root bears it, at any depth, and a
\* tag directly below the root is preferred to deeper ones.
FindsAnyDepth ==
  Supported /\ pc = "parsed" =>
    \A key \in {Written[n].name : n \in DOMAIN Written} \cup {<<0>>} :
      LET bearers == {n \in DOMAIN Written \ {1} : Written[n].name = key /\ ~Lost(n)}
          direct  == {n \in bearers : Written[n].parent = 1}
      IN  /\ bearers = {} => findInnerTag(1, key) = {0}
          /\ direct # {} => findInnerTag(1, key) = direct
          /\ bearers # {} => findInnerTag(1, key) \subseteq bearers

\* No tag is deleted twice, and only a tag that an addInnerTag replaced, or one
\* below it, is never deleted.
FreedAtMostOnce ==
  pc = "freed" =>
    \A t \in DOMAIN tags :
      /\ freed[t] <= 1
      /\ freed[t] = 0 => t \notin Reached
      /\ Supported => (freed[t] = 0 <=> Lost(t))

\* NBTTag.cpp:34 says that freeMemory "Recursively frees all memory associated
\* with this tag": every tag allocated for the entry is deleted.
FreesAll == pc = "freed" => \A t \in DOMAIN tags : freed[t] = 1

\* ParseBedrock.cpp:49 says that parseLong "Parses a little endian int64".
LongExact ==
  Supported /\ pc = "parsed" =>
    \A n \in DOMAIN tags : tags[n].type = NBT_LONG => tags[n].val = Written[n].val

ReadToEnd == pc # "aborted" /\ (pc = "parsed" => offset = Len(s))

\* ParseBedrock.cpp:127 says that parseNBTTag "Parses a Slice for an NBTTag and
\* returns the new offset": wherever in the value the tag lies,
FarTagsParsed == input.intact /\ NoElements => ReadToEnd
\* and whatever tags are in it: line 132 knows "list tags" as those without a type.
ListsParsed == input.intact /\ InReach => ReadToEnd
==============================================================================
