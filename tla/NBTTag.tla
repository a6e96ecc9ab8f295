-------------------------------- MODULE NBTTag --------------------------------
(***************************************************************************)
(* Class NBTTag (NBTTag.h, NBTTag.cpp) as the commands use it: the root    *)
(* tag of a palette entry is the function from the names of its string     *)
(* tags, at any depth, to their values.                                    *)
(*                                                                         *)
(* A text that is put together from parts is the sequence of these parts.  *)
(* So the name of a block is <<"minecraft:", "stone">>, and substr(10)     *)
(* cuts the first part off; a name of one part is shorter than that.       *)
(***************************************************************************)
EXTENDS Sequences

\* findInnerTag finds a tag with this name.
findInnerTag(tag, key) == key \in DOMAIN tag

blockName(tag) == tag["name"]
Minecraft(name) == <<"minecraft:", name>>

\* substr(10), for a name with the prefix.
baseName(tag) == Tail(blockName(tag))

\* "NULL", and the result of following the null pointer of a failed search.
NoType   == <<"NULL">>
NullRead == <<"null_pointer">>

\* The type a block has if the inner tag it is read from is there.
TypeFrom(tag, key, type) == IF findInnerTag(tag, key) THEN type ELSE NullRead

leavesName(t) == <<"leaves_", t, "_opaque">>

FixedType ==
  [grass |-> <<"grass_side_carried">>, sandstone |-> <<"sandstone_normal">>,
   water |-> <<"water_still">>, lava |-> <<"lava_still">>]

\* NBTTag::getBlockType
getBlockType(tag) ==
  CASE blockName(tag) = Minecraft("stone") ->
         TypeFrom(tag, "stone_type",
                  IF tag["stone_type"] = "stone" THEN <<"stone">>
                  ELSE <<"stone_", tag["stone_type"]>>)
    [] blockName(tag) \in {Minecraft("leaves"), Minecraft("leaves2")} ->
         IF findInnerTag(tag, "old_leaf_type") THEN leavesName(tag["old_leaf_type"])
         ELSE TypeFrom(tag, "new_leaf_type", leavesName(tag["new_leaf_type"]))
    [] blockName(tag) = Minecraft("log") ->
         IF findInnerTag(tag, "old_log_type") THEN <<"log_", tag["old_log_type"]>>
         ELSE TypeFrom(tag, "new_log_type", <<"log", tag["new_log_type"]>>)
    [] blockName(tag) = Minecraft("sand") ->
         TypeFrom(tag, "sand_type",
                  IF tag["sand_type"] = "normal" THEN <<"sand">> ELSE <<tag["sand_type"]>>)
    [] blockName(tag) \in {Minecraft(f) : f \in DOMAIN FixedType} ->
         FixedType[blockName(tag)[2]]
    [] OTHER -> NoType

==============================================================================
