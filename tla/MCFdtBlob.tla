----------------------------- MODULE MCFdtBlob -----------------------------
(***************************************************************************)
(* Small blobs for FdtBlob: an ordinary one, one of version 16, one with   *)
(* its strings in front, one of a later version, and damaged ones.         *)
(***************************************************************************)
EXTENDS FdtBlob

Chosen == <<"c">>
Unit == <<"c", "@", "0">>
Long == <<"a", "b">>
Short == <<"b">>
Word == <<"y", "y", "y", "y">>
Byte == <<"x">>

\* /chosen with one property, behind a property of the root.
Plain == <<Begin(<<>>), Prop(0, Byte), Begin(Chosen), Prop(0, Word), EndNode, EndNode, End>>
Small == <<Begin(<<>>), Begin(Chosen), EndNode, EndNode, End>>

Blob(version, reserve, ts, ss, stringsFirst) ==
  LET rsvSize == Len(reserve) * EntrySize
      strings == TagAlign(StringBytes(ss))
      atStruct == HeaderSize + rsvSize + (IF stringsFirst THEN strings ELSE 0)
      atStrings == IF stringsFirst THEN HeaderSize + rsvSize ELSE atStruct + SizeOf(ts)
  IN [hdr |-> [version |-> version, lastComp |-> 16, cpu |-> 1,
               offRsv |-> HeaderSize, offStruct |-> atStruct,
               sizeStruct |-> IF version < 17 THEN 0 ELSE SizeOf(ts),
               offStrings |-> atStrings, sizeStrings |-> StringBytes(ss),
               total |-> HeaderSize + rsvSize + SizeOf(ts) + strings],
      rsv |-> reserve, tags |-> ts, names |-> ss]

Sealed(b) == [b EXCEPT !.hdr.version = 19, !.hdr.lastComp = 18]

MCFiles == {
  Blob(17, <<"empty">>, Small, <<>>, FALSE),
  Blob(17, <<"empty">>, Plain, <<Long>>, TRUE),
  Blob(16, <<"range", "empty">>, Small, <<Long>>, FALSE),
  Blob(18, <<"empty">>, <<Begin(<<>>), EndNode, End>>, <<>>, FALSE),
  Blob(17, <<"empty">>, <<Begin(<<>>), Prop(0, Byte), Bad, EndNode, End>>, <<Long>>, FALSE),
  Blob(16, <<"empty">>, <<Begin(<<>>), Bad>>, <<>>, FALSE),
  Blob(17, <<"empty">>, <<Begin(<<>>), Prop(0, Byte)>>, <<Long>>, FALSE),
  Sealed(Blob(17, <<"empty">>, Small, <<>>, FALSE))}

MCChars == {"a", "b", "c", "@", "0", "x", "y"}
MCNodeNames == {Chosen, Unit}
MCPropNames == {Long, Short}
MCValues == {Byte, Word}
=============================================================================
