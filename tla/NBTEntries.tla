----------------------------- MODULE NBTEntries -----------------------------
(***************************************************************************)
(* Palette entries for the parser: trees written out byte by byte as NBT   *)
(* has them, sound and damaged ones.  A name is one byte or empty.         *)
(***************************************************************************)
EXTENDS NBTTypes, Integers, Sequences, SequencesExt

Leaf(type, name, val) == [type |-> type, name |-> name, val |-> val, kids |-> << >>]
Comp(name, kids) == [type |-> NBT_COMPOUND, name |-> name, val |-> << >>, kids |-> kids]
ListOf(name, kids) == [type |-> NBT_LIST, name |-> name, val |-> << >>, kids |-> kids]

Size(n) == <<n % 256, n \div 256>>

\* A tag is its type, its name and its payload.  The elements of a list have neither
\* type nor name: the type is there once, before their number.
Heading(node) == <<node.type>> \o Size(Len(node.name)) \o node.name

RECURSIVE Payload(_)
Payload(node) ==
  CASE node.type = NBT_COMPOUND ->
         FlattenSeq([j \in DOMAIN node.kids |-> Heading(node.kids[j]) \o Payload(node.kids[j])]) \o <<NBT_END>>
    [] node.type = NBT_LIST ->
         <<IF node.kids = << >> THEN NBT_END ELSE node.kids[1].type>> \o Size(Len(node.kids)) \o <<0, 0>>
           \o FlattenSeq([j \in DOMAIN node.kids |-> Payload(node.kids[j])])
    [] node.type = NBT_STRING -> Size(Len(node.val)) \o node.val
    [] OTHER -> node.val

Bytes(node) == Heading(node) \o Payload(node)

\* The nodes of a tree in the order of writing, with their parents.
RECURSIVE Flat(_, _, _)
Flat(node, parent, first) ==
  LET Add(acc, kid) == acc \o Flat(kid, first, first + Len(acc))
  IN  FoldLeft(Add, <<[type |-> node.type, name |-> node.name, val |-> node.val,
                       parent |-> parent]>>, node.kids)

Input(intact, start, bytes, tree) ==
  [intact |-> intact, start |-> start, bytes |-> bytes, tree |-> tree]

\* A sound entry behind "start" other bytes of the value.
Entry(start, node) ==
  Input(TRUE, start, [j \in 1 .. start |-> 7] \o Bytes(node), Flat(node, 0, 1))

Damaged(bytes) == Input(FALSE, 0, bytes, << >>)

Root(kids) == Comp(<< >>, kids)

Name   == Leaf(NBT_STRING, <<65>>, <<80, 81>>)
Deep   == Leaf(NBT_STRING, <<66>>, <<82>>)
States == Comp(<<67>>, <<Deep, Leaf(NBT_BYTE, <<68>>, <<255>>), Leaf(NBT_STRING, <<65>>, << >>)>>)
Number == Leaf(NBT_INT, <<69>>, <<1, 2, 3, 254>>)
Count  == Leaf(NBT_SHORT, <<70>>, <<4, 128>>)
Time   == Leaf(NBT_LONG, <<71>>, <<1, 0, 0, 128, 2, 0, 0, 0>>)
Small  == Leaf(NBT_LONG, <<71>>, <<1, 2, 0, 0, 0, 0, 0, 0>>)
None   == ListOf(<<72>>, << >>)
Pair   == ListOf(<<72>>, <<Leaf(NBT_BYTE, << >>, <<1>>), Leaf(NBT_BYTE, << >>, <<2>>)>>)
Same   == ListOf(<<72>>, <<Comp(<< >>, <<Deep>>), Comp(<< >>, << >>)>>)

Trees == {Root(<< >>), Root(<<Name>>), Root(<<States, Name>>), Root(<<Number, Count, States>>),
          Root(<<Small, Name>>), Root(<<Time>>), Root(<<None, Deep>>), Root(<<Pair, Deep>>), Root(<<Same>>),
          Root(<<Deep, Name, Deep>>), Name, Comp(<<65>>, <<Comp(<<66>>, <<Comp(<<67>>, <<Deep>>)>>)>>)}

\* Offsets of which the last ones are beyond the narrow offsets.
Starts == {0, 3, 30, 70}

Base == Bytes(Root(<<Name, States, Pair, Small, Count, Number>>))

\* Every way a value may end early; types nobody knows; negative lengths.
Cut == {Damaged(SubSeq(Base, 1, n)) : n \in 0 .. Len(Base) - 1}
Odd == {Damaged([Base EXCEPT ![n] = b]) : n \in 1 .. Len(Base), b \in {0, 5, 9, 255}}

Entries == {Entry(start, tree) : start \in Starts, tree \in Trees} \cup Cut \cup Odd

==============================================================================
