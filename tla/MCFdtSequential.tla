-------------------------- MODULE MCFdtSequential --------------------------
(***************************************************************************)
(* Small arguments for FdtSequential.  The sizes are those of a buffer too *)
(* small for a header, for an entry of the reserve map, for a node, and of *)
(* buffers that fill up at every tag and string of a tree.                 *)
(***************************************************************************)
EXTENDS FdtSequential

Root == <<>>
Chosen == <<"c">>
Long == <<"a", "b">>
Short == <<"b">>
Byte == <<"x">>

MCChars == {"a", "b", "c", "@", "0", "x", "y"}
MCNodeNames == {Root, Chosen}
MCPropNames == {Long, Short}
MCValues == {Byte}
=============================================================================
