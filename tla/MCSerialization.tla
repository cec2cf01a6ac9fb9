-------------------------- MODULE MCSerialization --------------------------
(* Strings that are empty, one byte long, and on either side of the length  *)
(* that no longer fits in a byte.                                           *)
EXTENDS Serialization
MCLengths == {0, 1, 255, 256, 300}
MCFill == {0, 45, 111}
=============================================================================
