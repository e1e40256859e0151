------------------------------ MODULE FdtBlob ------------------------------
(***************************************************************************)
(* libfdt's editing calls on a flattened device tree: a header and three   *)
(* sections in one buffer, changed by splices that move everything behind  *)
(* them.  The structure section is a sequence of tags, the strings section *)
(* a sequence of strings, the reserve map a sequence of entries; offsets   *)
(* and lengths are those of the bytes they stand for.  A caller picks a    *)
(* call, the library executes it; it is sequential code.                   *)
(***************************************************************************)
EXTENDS Integers, Sequences, FiniteSets, SequencesExt

CONSTANTS
  Chars,      \* what names and values are made of
  Files,      \* blobs as they are read from a file
  NodeNames, PropNames, Values, Entries,   \* arguments of calls
  BufSizes,   \* sizes of buffers to open a blob into
  Ops,        \* the calls a caller makes
  MaxTags, MaxEntries, MaxValue   \* bounds of the model on what a caller asks for

VARIABLES
  hdr,    \* the header
  rsv,    \* the entries of the reserve map, with the one of size 0 that ends it
  tags,   \* the structure section
  names,  \* the strings section
  call,   \* the call being made
  ret     \* "none" during a call, then "ok" or the error

vars == <<hdr, rsv, tags, names, call, ret>>

HeaderSize == 40
EntrySize == 16
FirstVersion == 16
LastVersion == 17

Begin(name) == [tag |-> "begin", name |-> name]
Prop(nameoff, data) == [tag |-> "prop", nameoff |-> nameoff, data |-> data]
EndNode == [tag |-> "end_node"]
Nop == [tag |-> "nop"]
End == [tag |-> "end"]
\* A word that is no tag, or a tag whose contents do not end in the section.
Bad == [tag |-> "bad"]

TagAlign(n) == ((n + 3) \div 4) * 4
TagLen(t) ==
  CASE t.tag = "begin" -> 4 + TagAlign(Len(t.name) + 1)
    [] t.tag = "prop" -> 12 + TagAlign(Len(t.data))
    [] OTHER -> 4
\* How many bytes there are in front of each part, and in front of the end, of a
\* section with parts of these lengths.
Before(lens) ==
  LET sum[k \in 0 .. Len(lens)] == IF k = 0 THEN 0 ELSE sum[k - 1] + lens[k] IN sum
TagLens(ts) == [i \in 1 .. Len(ts) |-> TagLen(ts[i])]
StringLens(ss) == [i \in 1 .. Len(ss) |-> Len(ss[i]) + 1]
SizeOf(ts) == Before(TagLens(ts))[Len(ts)]
StringBytes(ss) == Before(StringLens(ss))[Len(ss)]

TagSet ==
  [tag : {"begin"}, name : Seq(Chars)]
    \cup [tag : {"prop"}, nameoff : Int, data : Seq(Chars)]
    \cup [tag : {"end_node", "nop", "end", "bad"}]
Headers ==
  [version : Nat, lastComp : Nat, cpu : Int, offRsv : Nat, offStruct : Nat, sizeStruct : Nat,
   offStrings : Nat, sizeStrings : Nat, total : Nat]

ArgumentsAssumption ==
  /\ NodeNames \subseteq Seq(Chars) /\ PropNames \subseteq Seq(Chars)
  /\ Values \subseteq Seq(Chars)
  /\ BufSizes \subseteq Nat
ASSUME ArgumentsAssumption

\* The header of a file gives the true lengths of its sections, which are inside
\* the blob; only one of version 17 or later has a word for the length of its
\* structure section, and in an earlier one the section ends with the first END.
\* The reserve map ends with its first entry of size 0 and is not in the structure
\* section.  What is in the sections, and in what order they are, is open.
IsFile(f) ==
  /\ f.hdr \in Headers /\ f.tags \in Seq(TagSet) /\ f.names \in Seq(Seq(Chars))
  /\ f.rsv \in Seq(Entries \cup {"empty"})
  /\ f.hdr.version >= 17 => f.hdr.sizeStruct = SizeOf(f.tags)
  /\ f.hdr.version < 17 =>
       /\ f.tags # <<>>
       /\ \A i \in 1 .. Len(f.tags) : f.tags[i].tag \in {"end", "bad"} <=> i = Len(f.tags)
  /\ f.hdr.sizeStrings = StringBytes(f.names)
  /\ f.hdr.offStruct + SizeOf(f.tags) <= f.hdr.total
  /\ f.hdr.offStrings + f.hdr.sizeStrings <= f.hdr.total
  /\ f.rsv # <<>>
  /\ \A i \in 1 .. Len(f.rsv) : f.rsv[i] = "empty" <=> i = Len(f.rsv)
  /\ \/ f.hdr.offRsv + Len(f.rsv) * EntrySize <= f.hdr.offStruct
     \/ f.hdr.offStruct + SizeOf(f.tags) <= f.hdr.offRsv
FilesAssumption == \A f \in Files : IsFile(f)
ASSUME FilesAssumption

NumMemRsv == SelectInSeq(rsv, LAMBDA e : e = "empty") - 1

Init ==
  /\ \E f \in Files : hdr = f.hdr /\ rsv = f.rsv /\ tags = f.tags /\ names = f.names
  /\ call = [op |-> "idle"]
  /\ ret = "ok"

-----------------------------------------------------------------------------
(* Walking the structure section.  Walks are over the indices of tags; an   *)
(* index past the last tag is the end of the section.                       *)

Past == Len(tags) + 1
OffsetOf(i) == Before(TagLens(tags))[i - 1]
Is(i, kinds) == i < Past /\ tags[i].tag \in kinds

\* The tag at an offset a caller gave: 0 if none starts there.
TagAt(offset) ==
  LET I == {i \in 1 .. Past : OffsetOf(i) = offset} IN IF I = {} THEN 0 ELSE Min(I)
NodeAt(offset) == LET i == TagAt(offset) IN IF i > 0 /\ Is(i, {"begin"}) THEN i ELSE 0

\* How deep below node i a walk from i is when it reaches j.
Deeper(i, j) ==
  Cardinality({k \in i + 1 .. j - 1 : tags[k].tag = "begin"})
    - Cardinality({k \in i + 1 .. j - 1 : tags[k].tag = "end_node"})

\* Where a walk that leaves node i or cannot go on stops, and the error that is.
Stop(i) ==
  Min({j \in i + 1 .. Past :
         \/ j = Past \/ Is(j, {"end", "bad"})
         \/ Is(j, {"end_node"}) /\ Deeper(i, j) = 0})
StopError(j) ==
  CASE Is(j, {"end_node"}) -> "ok"
    [] Is(j, {"end"}) -> "NOTFOUND"
    [] Is(j, {"bad"}) -> "BADSTRUCTURE"
    [] OTHER -> "TRUNCATED"

\* What every call but the walks themselves looks at first.
HeaderError ==
  IF hdr.version < FirstVersion \/ hdr.lastComp > LastVersion THEN "BADVERSION" ELSE "ok"

Found(i) == [err |-> "ok", at |-> i]
Missing(e) == [err |-> e, at |-> 0]

\* A wanted name without a unit address fits every unit.
NameEq(name, wanted) ==
  /\ IsPrefix(wanted, name)
  /\ \/ Len(name) = Len(wanted)
     \/ ~Contains(wanted, "@") /\ name[Len(wanted) + 1] = "@"

Children(i) == {j \in i + 1 .. Stop(i) - 1 : Is(j, {"begin"}) /\ Deeper(i, j) = 0}
SubnodeOf(i, wanted) ==
  LET fits == {j \in Children(i) : NameEq(tags[j].name, wanted)}
  IN IF fits # {} THEN Found(Min(fits))
     ELSE Missing(IF StopError(Stop(i)) = "ok" THEN "NOTFOUND" ELSE StopError(Stop(i)))
Subnode(i, wanted) ==
  IF HeaderError # "ok" THEN Missing(HeaderError)
  ELSE IF i = 0 \/ ~Is(i, {"begin"}) THEN Missing("BADOFFSET")
  ELSE SubnodeOf(i, wanted)

PathOffset(path) ==
  IF HeaderError # "ok" THEN Missing(HeaderError)
  ELSE FoldLeft(LAMBDA r, name : IF r.err = "ok" THEN Subnode(r.at, name) ELSE r, Found(1), path)

\* Mutant: the first node of a depth, which may be no ancestor.
Above_First(i, depth) ==
  Min({j \in 1 .. i : Is(j, {"begin"}) /\ Deeper(0, j) = depth})

\* The node at a depth on the way to node i: the last one before i that deep.
Depth(i) == Deeper(0, i)
Above(i, depth) == Max({j \in 1 .. i : Is(j, {"begin"}) /\ Depth(j) = depth})

Supernode(i, depth) ==
  IF HeaderError # "ok" THEN Missing(HeaderError)
  ELSE IF depth > Depth(i) THEN Missing("NOTFOUND")
  ELSE Found(Above(i, depth))
Path(i) ==
  IF HeaderError # "ok" THEN [err |-> HeaderError, names |-> <<>>]
  ELSE [err |-> "ok", names |-> [d \in 1 .. Depth(i) |-> tags[Above(i, d)].name]]

\* The index after node i.
NodeEnd(i) ==
  IF i = 0 THEN Missing("BADOFFSET")
  ELSE IF StopError(Stop(i)) = "ok" THEN Found(Stop(i) + 1)
  ELSE Missing(StopError(Stop(i)))

\* Mutant: a NOP ends the properties.
AfterProps_AtNop(i) == Min({j \in i + 1 .. Past : ~Is(j, {"prop"})})

\* Where the properties of node i end, and its property of a name.
AfterProps(i) == Min({j \in i + 1 .. Past : ~Is(j, {"prop", "nop"})})
StringStart(k) == Before(StringLens(names))[k - 1]
StringAt(offset) ==
  LET K == {k \in DOMAIN names : /\ StringStart(k) <= offset
                                /\ offset <= StringStart(k) + Len(names[k])}
  IN IF K = {} THEN <<"?">>
     ELSE LET k == Min(K) IN SubSeq(names[k], offset - StringStart(k) + 1, Len(names[k]))
PropsNamed(i, name) ==
  {j \in i + 1 .. AfterProps(i) - 1 : Is(j, {"prop"}) /\ StringAt(tags[j].nameoff) = name}
GetProperty(i, name) ==
  LET last == AfterProps(i)
  IN IF i = 0 THEN Missing("BADOFFSET")
     ELSE IF PropsNamed(i, name) # {} THEN Found(Min(PropsNamed(i, name)))
     ELSE Missing(CASE Is(last, {"begin", "end_node"}) -> "NOTFOUND"
                    [] Is(last, {"end", "bad"}) -> "BADSTRUCTURE"
                    [] OTHER -> "TRUNCATED")

\* Mutant: tails are not shared.
FindString_Whole(s) ==
  LET places == {StringStart(k) : k \in {k \in DOMAIN names : names[k] = s}}
  IN IF places = {} THEN -1 ELSE Min(places)

\* The first place where a string is found, also as the tail of another.
FindString(s) ==
  LET places == {StringStart(k) + Len(names[k]) - Len(s) :
                   k \in {k \in DOMAIN names : IsSuffix(s, names[k])}}
  IN IF places = {} THEN -1 ELSE Min(places)

-----------------------------------------------------------------------------
(* Headers and splices.                                                     *)

Misordered(h, rsvSize, structSize) ==
  \/ h.offRsv < HeaderSize
  \/ h.offStruct < h.offRsv + rsvSize
  \/ h.offStrings < h.offStruct + structSize
  \/ h.total < h.offStrings + h.sizeStrings

RwError ==
  IF HeaderError # "ok" THEN HeaderError
  ELSE IF hdr.version < 17 THEN "BADVERSION"
  ELSE IF Misordered(hdr, EntrySize, hdr.sizeStruct) THEN "BADLAYOUT"
  ELSE "ok"
Writable == RwError = "ok"
\* What a call that needs a writable blob leaves of the header.
Checked == [hdr EXCEPT !.version = 17]

DataSize(h) == h.offStrings + h.sizeStrings
\* Mutant: the size of the buffer is not looked at.
SpliceError_NoLimit(h, at, old, new) ==
  IF at + old > DataSize(h) THEN "BADOFFSET" ELSE "ok"
SpliceError(h, at, old, new) ==
  IF at + old > DataSize(h) THEN "BADOFFSET"
  ELSE IF DataSize(h) - old + new > h.total THEN "NOSPACE"
  ELSE "ok"
\* Mutant: the length of the structure section is forgotten.
StructMoved_StringsOnly(h, delta) == [h EXCEPT !.offStrings = @ + delta]
StructMoved(h, delta) ==
  [h EXCEPT !.sizeStruct = @ + delta, !.offStrings = @ + delta]
RsvMoved(h, delta) ==
  [h EXCEPT !.offStruct = @ + delta, !.offStrings = @ + delta]

Return(e) == call' = [op |-> "idle"] /\ ret' = e
Unchanged == UNCHANGED <<hdr, rsv, tags, names>>

\* old bytes at an offset of the structure section become new ones, and the
\* tags become ts, if there is room.
SpliceStruct(h, offset, old, new, ts) ==
  LET e == SpliceError(h, h.offStruct + offset, old, new)
  IN /\ hdr' = IF e = "ok" THEN StructMoved(h, new - old) ELSE h
     /\ tags' = IF e = "ok" THEN ts ELSE tags
     /\ rsv' = rsv
     /\ Return(e)
-----------------------------------------------------------------------------
(* The calls a caller can make: through the offset of a node, or through one *)
(* where no node is.                                                         *)

Offsets == {OffsetOf(i) : i \in {i \in DOMAIN tags : tags[i].tag = "begin"} \cup {Past}}

Calls ==
  [op : {"setprop", "appendprop", "setprop_inplace"},
   offset : Offsets, name : PropNames, val : Values]
    \cup [op : {"delprop", "nop_property"}, offset : Offsets, name : PropNames]
    \cup [op : {"set_name", "add_subnode"}, offset : Offsets, name : NodeNames]
    \cup [op : {"del_node", "nop_node"}, offset : Offsets]
    \cup [op : {"add_mem_rsv"}, range : Entries]
    \cup [op : {"del_mem_rsv"}, n : 0 .. 1]
    \cup [op : {"open_into"}, size : BufSizes, inPlace : BOOLEAN]
    \cup [op : {"pack"}]

\* The calls that begin with FDT_RW_CHECK_HEADER.
RwOps == {"setprop", "appendprop", "delprop", "set_name", "add_subnode", "del_node",
          "add_mem_rsv", "del_mem_rsv", "pack"}

\* A call on a property that exists adds no tag.
WithinBounds(c) ==
  LET p == GetProperty(NodeAt(c.offset), c.name)
  IN /\ c.op = "add_subnode" => Len(tags) < MaxTags
     /\ c.op \in {"setprop", "appendprop"} => p.err = "ok" \/ Len(tags) < MaxTags
     /\ c.op = "appendprop" /\ p.err = "ok" =>
          Len(tags[p.at].data) + Len(c.val) <= MaxValue
     /\ c.op = "add_mem_rsv" => Len(rsv) < MaxEntries

Ask ==
  /\ call.op = "idle"
  /\ call' \in {c \in Calls : c.op \in Ops /\ WithinBounds(c)}
  /\ ret' = "none"
  /\ UNCHANGED <<hdr, rsv, tags, names>>

Making(op) == call.op = op /\ (op \in RwOps => Writable)
Node == NodeAt(call.offset)
Property == GetProperty(Node, call.name)

Refuse(e) == Return(e) /\ Unchanged
\* A call that got as far as this has checked the header.
RwRefuse(e) == Return(e) /\ hdr' = Checked /\ UNCHANGED <<rsv, tags, names>>

NotWritable ==
  /\ call.op \in RwOps /\ ~Writable
  /\ Refuse(RwError)

WithData(i, data) == [tags EXCEPT ![i].data = data]
ResizeProperty(i, data) ==
  LET old == Len(tags[i].data)
  IN SpliceStruct(Checked, OffsetOf(i) + 12, TagAlign(old), TagAlign(Len(data)),
                  WithData(i, data))

\* Mutant: the new property is put at the node's offset, not behind its tag.
AddProperty_AtNode(i, name, data) ==
  LET place == FindString(name)
      h == IF place >= 0 THEN Checked ELSE [Checked EXCEPT !.sizeStrings = @ + Len(name) + 1]
      new == Prop(IF place >= 0 THEN place ELSE hdr.sizeStrings, data)
  IN IF i = 0 THEN RwRefuse("BADOFFSET")
     ELSE /\ names' = IF place >= 0 THEN names ELSE Append(names, name)
          /\ SpliceStruct(h, OffsetOf(i), 0, TagLen(new), InsertAt(tags, i, new))

\* The new property comes first.  Its name stays when there is no room for it.
AddProperty(i, name, data) ==
  LET place == FindString(name)
      len == Len(name) + 1
      nameoff == IF place >= 0 THEN place ELSE hdr.sizeStrings
      e == IF place >= 0 THEN "ok" ELSE SpliceError(Checked, DataSize(hdr), 0, len)
      h == IF place >= 0 THEN Checked ELSE [Checked EXCEPT !.sizeStrings = @ + len]
      new == Prop(nameoff, data)
  IN IF i = 0 THEN RwRefuse("BADOFFSET")
     ELSE IF e # "ok" THEN RwRefuse(e)
     ELSE /\ names' = IF place >= 0 THEN names ELSE Append(names, name)
          /\ SpliceStruct(h, OffsetOf(i + 1), 0, TagLen(new), InsertAt(tags, i + 1, new))

SetProp ==
  /\ Making("setprop")
  /\ CASE Property.err = "ok" -> ResizeProperty(Property.at, call.val) /\ names' = names
       [] Property.err = "NOTFOUND" -> AddProperty(Node, call.name, call.val)
       [] OTHER -> RwRefuse(Property.err)

\* The property is added whatever the reason it was not found.
AppendProp ==
  /\ Making("appendprop")
  /\ IF Property.err = "ok"
     THEN /\ ResizeProperty(Property.at, tags[Property.at].data \o call.val)
          /\ names' = names
     ELSE AddProperty(Node, call.name, call.val)

\* The name stays in the strings section.
DelProp ==
  /\ Making("delprop")
  /\ IF Property.err = "ok"
     THEN /\ SpliceStruct(Checked, OffsetOf(Property.at), TagLen(tags[Property.at]), 0,
                          RemoveAt(tags, Property.at))
          /\ names' = names
     ELSE RwRefuse(Property.err)

SetName ==
  /\ Making("set_name")
  /\ IF Node = 0 THEN RwRefuse("BADOFFSET")
     ELSE /\ SpliceStruct(Checked, call.offset + 4, TagAlign(Len(tags[Node].name) + 1),
                          TagAlign(Len(call.name) + 1),
                          [tags EXCEPT ![Node].name = call.name])
          /\ names' = names

\* The new node comes behind the properties of its parent.
AddSubnode ==
  /\ Making("add_subnode")
  /\ LET twin == Subnode(Node, call.name)
         i == AfterProps(Node)
         len == 4 + TagAlign(Len(call.name) + 1) + 4
     IN CASE twin.err = "ok" -> RwRefuse("EXISTS")
          [] twin.err = "NOTFOUND" ->
               /\ SpliceStruct(Checked, OffsetOf(i), 0, len,
                    SubSeq(tags, 1, i - 1) \o <<Begin(call.name), EndNode>>
                      \o SubSeq(tags, i, Len(tags)))
               /\ names' = names
          [] OTHER -> RwRefuse(twin.err)

Cut(first, last) == SubSeq(tags, 1, first - 1) \o SubSeq(tags, last, Len(tags))

DelNode ==
  /\ Making("del_node")
  /\ LET end == NodeEnd(Node)
     IN IF end.err # "ok" THEN RwRefuse(end.err)
        ELSE /\ SpliceStruct(Checked, call.offset, OffsetOf(end.at) - call.offset, 0,
                             Cut(Node, end.at))
             /\ names' = names

\* Words of a region become tags without a meaning.
Nops(first, last) ==
  SubSeq(tags, 1, first - 1)
    \o [k \in 1 .. (OffsetOf(last) - OffsetOf(first)) \div 4 |-> Nop]
    \o SubSeq(tags, last, Len(tags))

NopProperty ==
  /\ Making("nop_property")
  /\ IF Property.err # "ok" THEN Refuse(Property.err)
     ELSE /\ tags' = Nops(Property.at, Property.at + 1)
          /\ UNCHANGED <<hdr, rsv, names>> /\ Return("ok")

NopNode ==
  /\ Making("nop_node")
  /\ LET end == NodeEnd(Node)
     IN IF end.err # "ok" THEN Refuse(end.err)
        ELSE /\ tags' = Nops(Node, end.at)
             /\ UNCHANGED <<hdr, rsv, names>> /\ Return("ok")

SetPropInPlace ==
  /\ Making("setprop_inplace")
  /\ IF Property.err # "ok" THEN Refuse(Property.err)
     ELSE IF Len(tags[Property.at].data) # Len(call.val) THEN Refuse("NOSPACE")
     ELSE /\ tags' = WithData(Property.at, call.val)
          /\ UNCHANGED <<hdr, rsv, names>> /\ Return("ok")

SpliceRsv(n, oldn, newn, es) ==
  LET e == SpliceError(Checked, hdr.offRsv + n * EntrySize, oldn * EntrySize, newn * EntrySize)
  IN /\ hdr' = IF e = "ok" THEN RsvMoved(Checked, (newn - oldn) * EntrySize) ELSE Checked
     /\ rsv' = IF e = "ok" THEN es ELSE rsv
     /\ UNCHANGED <<tags, names>>
     /\ Return(e)

\* In front of the first entry of size 0, even if it is not the last entry.
AddMemRsv ==
  /\ Making("add_mem_rsv")
  /\ SpliceRsv(NumMemRsv, 0, 1, InsertAt(rsv, NumMemRsv + 1, call.range))

DelMemRsv ==
  /\ Making("del_mem_rsv")
  /\ IF call.n >= NumMemRsv THEN RwRefuse("NOTFOUND")
     ELSE SpliceRsv(call.n, 1, 0, RemoveAt(rsv, call.n + 1))

-----------------------------------------------------------------------------
(* Moving the sections.                                                     *)

Overlap(a, aLen, b, bLen) == a < b + bLen /\ b < a + aLen

\* The sections of the blob at 0 are moved to behind base, one after the other;
\* one that an earlier move has written over is lost.
PackBlocks(h, base, rsvSize, structSize) ==
  LET rsvTo == HeaderSize
      structTo == rsvTo + rsvSize
      stringsTo == structTo + structSize
      structLost == Overlap(h.offStruct, structSize, base + rsvTo, rsvSize)
      stringsLost == \/ Overlap(h.offStrings, h.sizeStrings, base + rsvTo, rsvSize)
                     \/ Overlap(h.offStrings, h.sizeStrings, base + structTo, structSize)
  IN [hdr |-> [h EXCEPT !.offRsv = rsvTo, !.offStruct = structTo, !.sizeStruct = structSize,
                        !.offStrings = stringsTo],
      tags |-> IF structLost THEN <<Bad>> ELSE tags,
      names |-> IF stringsLost THEN <<>> ELSE names]

Pack ==
  /\ Making("pack")
  /\ LET rsvSize == (NumMemRsv + 1) * EntrySize
         packed == PackBlocks(Checked, 0, rsvSize, hdr.sizeStruct)
     IN /\ hdr' = [packed.hdr EXCEPT !.total = DataSize(packed.hdr)]
        /\ rsv' = SubSeq(rsv, 1, NumMemRsv + 1)
        /\ tags' = packed.tags /\ names' = packed.names
  /\ Return("ok")

\* The structure section of an old blob ends behind its first END.
StructSize ==
  LET e == SelectInSeq(tags, LAMBDA t : t.tag \in {"end", "bad"})
  IN IF hdr.version >= 17 THEN hdr.sizeStruct
     ELSE IF Is(e, {"bad"}) THEN -1
     ELSE OffsetOf(e + 1)

\* Mutant: the front of the buffer, although the old blob is there.
Scratch_Front == 0
\* Where a blob is put together: behind the old one if it is in the same buffer.
\* In another buffer it cannot meet the old one either.
Scratch == hdr.total
\* boot_cpuid_phys is copied last, from a header that in place is the new one.
\* What is behind a blob in its buffer is zero.
CpuAfter(inPlace) == IF inPlace THEN 0 ELSE hdr.cpu

OpenInto ==
  /\ Making("open_into")
  /\ LET rsvSize == (NumMemRsv + 1) * EntrySize
         size == call.size
         newSize == HeaderSize + rsvSize + StructSize + hdr.sizeStrings
         packed == PackBlocks(hdr, Scratch, rsvSize, StructSize)
     IN CASE HeaderError # "ok" -> Refuse(HeaderError)
          [] HeaderError = "ok" /\ StructSize < 0 -> Refuse("BADSTRUCTURE")
          [] HeaderError = "ok" /\ StructSize >= 0
               /\ ~Misordered(hdr, rsvSize, StructSize) ->
               IF hdr.total > size THEN Refuse("NOSPACE")
               ELSE /\ hdr' = [hdr EXCEPT !.version = 17, !.sizeStruct = StructSize,
                                          !.total = size]
                    /\ UNCHANGED <<rsv, tags, names>> /\ Return("ok")
          [] OTHER ->
               IF size < (IF call.inPlace THEN Scratch ELSE 0) + newSize THEN Refuse("NOSPACE")
               ELSE /\ hdr' = [packed.hdr EXCEPT !.total = size, !.version = 17,
                                 !.lastComp = 16, !.cpu = CpuAfter(call.inPlace)]
                    /\ rsv' = SubSeq(rsv, 1, NumMemRsv + 1)
                    /\ tags' = packed.tags /\ names' = packed.names
                    /\ Return("ok")

Next ==
  \/ Ask \/ NotWritable
  \/ SetProp \/ AppendProp \/ DelProp \/ SetName \/ AddSubnode \/ DelNode
  \/ SetPropInPlace \/ NopProperty \/ NopNode
  \/ AddMemRsv \/ DelMemRsv
  \/ Pack \/ OpenInto

Spec == Init /\ [][Next]_vars
-----------------------------------------------------------------------------
(* Properties.                                                              *)

\* The header of a writable blob describes it: each section is as long as what
\* is in it, and the reserve map, which has no length, ends before the
\* structure does.  Splices adjust these words by differences of lengths that
\* were rounded separately.
LayoutSound ==
  Writable =>
    /\ hdr.sizeStruct = SizeOf(tags)
    /\ hdr.sizeStrings = StringBytes(names)
    /\ hdr.offStruct >= hdr.offRsv + Len(rsv) * EntrySize

\* A blob that was writable once stays so: no call, failed ones and fdt_pack
\* included, makes sections overlap or leave the buffer.
StaysWritable == [][Writable => Writable']_vars

\* Repeating a call does not fill the buffer with copies of its name, although
\* a failed call and fdt_delprop leave the name behind.
NoStringTwice ==
  \A k \in DOMAIN names : \A j \in 1 .. k - 1 : ~IsSuffix(names[k], names[j])

\* The caller of a call through a node's offset can go on using that offset, and
\* those of nodes before it, as the builder does with /chosen: the call moves
\* nothing that is in front of what the node contains.
OffsetStays ==
  [][/\ call.op \in {"setprop", "appendprop", "delprop", "set_name", "add_subnode"}
     /\ call'.op = "idle" /\ Node > 0
     => /\ SubSeq(tags', 1, Node - 1) = SubSeq(tags, 1, Node - 1)
        /\ tags'[Node].tag = "begin"]_vars

Sound == Is(Len(tags), {"end"}) /\ \A i \in DOMAIN tags : ~Is(i, {"bad"})
Nodes == {i \in DOMAIN tags : tags[i].tag = "begin"}
Unambiguous(i) ==
  \A d \in 1 .. Depth(i) :
    \A j \in Children(Above(i, d - 1)) :
      j # Above(i, d) => ~NameEq(tags[j].name, tags[Above(i, d)].name)

\* In a blob of a version that is read, a node is found by its path and the nodes above
\* it by the beginnings of that path, whatever edits and NOPs lie on the way: the walk
\* that goes down by names and those that remember the last node of each depth agree
\* about what the tree is.
PathFindsNode ==
  call.op = "idle" /\ Sound /\ HeaderError = "ok" =>
    \A i \in Nodes : Unambiguous(i) =>
      LET path == Path(i)
      IN /\ path.err = "ok" /\ PathOffset(path.names) = Found(i)
         /\ \A d \in 0 .. Depth(i) - 1 : Supernode(i, d) = PathOffset(SubSeq(path.names, 1, d))

PropsOf(i) ==
  LET P == {j \in i + 1 .. AfterProps(i) - 1 : Is(j, {"prop"})}
  IN [n \in {StringAt(tags[j].nameoff) : j \in P} |-> tags[Min(PropsNamed(i, n))].data]
AbstractNodes ==
  LET order == SelectSeq([i \in DOMAIN tags |-> i], LAMBDA i : tags[i].tag = "begin")
  IN [k \in DOMAIN order |->
        [depth |-> Depth(order[k]), name |-> tags[order[k]].name, props |-> PropsOf(order[k])]]
AbstractNode ==
  IF "offset" \notin DOMAIN call \/ Node = 0 THEN 0 ELSE Cardinality({i \in Nodes : i <= Node})

Tree == INSTANCE DeviceTree WITH
  nodes <- AbstractNodes,
  ranges <- SubSeq(rsv, 1, NumMemRsv),
  node <- AbstractNode

\* Every call does to the tree what it says, or refuses for a true reason and
\* changes nothing: splices, strings that are shared or left behind, NOPs and
\* sections that are moved about in their own buffer cannot be seen.
ImplementsTree == Tree!Spec

\* fdt_open_into reorganises a tree, it does not change it (libfdt.h:107-111).
BootCpuKept == [][hdr'.cpu = hdr.cpu]_vars
=============================================================================
