------------------------------ MODULE NBTTypes ------------------------------
(***************************************************************************)
(* The types of NBT tags that ParseBedrock.cpp names.                      *)
(***************************************************************************)
\* enum NBTType
NBT_END      == 0
NBT_BYTE     == 1
NBT_SHORT    == 2
NBT_INT      == 3
NBT_LONG     == 4
NBT_STRING   == 8
NBT_LIST     == 9
NBT_COMPOUND == 10
=============================================================================
