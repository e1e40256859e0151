--------------------------- MODULE FdtSequential ---------------------------
(***************************************************************************)
(* libfdt's sequential-write calls: a blob is written front to back into a *)
(* buffer of fixed size, its strings growing down from the end of it, and  *)
(* fdt_finish joins the two.  Until then strings are counted from the end, *)
(* so offsets are negative.  The blob that results is edited with the      *)
(* calls of FdtBlob.  fdt_create_empty_tree is a script of these calls.    *)
(***************************************************************************)
EXTENDS FdtBlob

VARIABLES
  magic,   \* "none", "sw" while the blob is being written, "fdt"
  script   \* calls that a call of the library has yet to make

swVars == <<vars, magic, script>>

NoHeader ==
  [version |-> 0, lastComp |-> 0, cpu |-> 0, offRsv |-> 0, offStruct |-> 0, sizeStruct |-> 0,
   offStrings |-> 0, sizeStrings |-> 0, total |-> 0]

SwInit ==
  /\ hdr = NoHeader /\ rsv = <<>> /\ tags = <<>> /\ names = <<>>
  /\ call = [op |-> "idle"] /\ ret = "ok"
  /\ magic = "none" /\ script = <<>>

-----------------------------------------------------------------------------
(* Callers.  They end the reserve map before the first node, put properties *)
(* directly behind the beginning of their node, close what they opened, and *)
(* do not finish before that.  A call that failed may be made again.        *)

Open == Cardinality({i \in DOMAIN tags : tags[i].tag = "begin"})
          - Cardinality({i \in DOMAIN tags : tags[i].tag = "end_node"})

SwCalls ==
  [op : {"create"}, size : BufSizes]
    \cup [op : {"add_reservemap_entry"}, range : Entries]
    \cup [op : {"begin_node"}, name : NodeNames]
    \cup [op : {"property"}, name : PropNames, val : Values]
    \cup [op : {"end_node", "finish"}]

FinishReservemap == [op |-> "add_reservemap_entry", range |-> "empty"]

\* What a caller may ask for while the blob is being written.
InOrder(c) ==
  CASE c.op = "create" -> FALSE
    [] c.op = "add_reservemap_entry" ->
         tags # <<>> \/ Len(rsv) < MaxEntries \/ (c = FinishReservemap /\ ~Contains(rsv, "empty"))
    [] c.op = "begin_node" ->
         Contains(rsv, "empty") /\ (tags = <<>> \/ Open > 0) /\ Len(tags) < MaxTags
    [] c.op = "property" ->
         tags # <<>> /\ Is(Len(tags), {"begin", "prop"}) /\ Len(tags) < MaxTags
    [] c.op = "end_node" -> Open > 0
    [] c.op = "finish" -> tags # <<>> /\ Open = 0

SwAsk ==
  /\ call.op = "idle" /\ script = <<>>
  /\ call' \in {c \in SwCalls : IF magic = "sw" THEN InOrder(c)
                                ELSE c.op = "create" => magic = "none"}
  /\ ret' = "none"
  /\ UNCHANGED <<hdr, rsv, tags, names, magic, script>>

CreateEmptyTree ==
  /\ call.op = "idle" /\ script = <<>> /\ magic = "none"
  /\ \E size \in BufSizes :
       /\ call' = [op |-> "create", size |-> size]
       /\ script' = <<FinishReservemap, [op |-> "begin_node", name |-> <<>>], [op |-> "end_node"],
                      [op |-> "finish"], [op |-> "open_into", size |-> size, inPlace |-> TRUE]>>
  /\ ret' = "none"
  /\ UNCHANGED <<hdr, rsv, tags, names, magic>>

\* The script goes on with its next call, or ends with the first error.
FollowScript ==
  /\ call.op = "idle" /\ script # <<>>
  /\ IF ret = "ok" THEN call' = Head(script) /\ ret' = "none" /\ script' = Tail(script)
     ELSE script' = <<>> /\ UNCHANGED <<call, ret>>
  /\ UNCHANGED <<hdr, rsv, tags, names, magic>>

-----------------------------------------------------------------------------
(* The calls.                                                               *)

\* FDT_SW_CHECK_HEADER
Writing(op) == call.op = op /\ magic = "sw"
SwRefuse(e) == Refuse(e) /\ UNCHANGED <<magic, script>>

NotWriting ==
  /\ call.op \in {c.op : c \in SwCalls} \ {"create"} /\ magic # "sw"
  /\ SwRefuse("BADMAGIC")

Create ==
  /\ call.op = "create"
  /\ LET first == ((HeaderSize + EntrySize - 1) \div EntrySize) * EntrySize
     IN IF call.size < HeaderSize THEN SwRefuse("NOSPACE")
        ELSE /\ hdr' = [NoHeader EXCEPT !.version = LastVersion, !.lastComp = FirstVersion,
                          !.total = call.size, !.offRsv = first, !.offStruct = first,
                          !.offStrings = call.size]
             /\ rsv' = <<>> /\ tags' = <<>> /\ names' = <<>>
             /\ magic' = "sw" /\ script' = script
             /\ Return("ok")

\* The reserve map grows towards where the structure section will begin.
AddReservemapEntry ==
  /\ Writing("add_reservemap_entry")
  /\ CASE hdr.sizeStruct > 0 -> SwRefuse("BADSTATE")
       [] hdr.sizeStruct = 0 /\ hdr.offStruct + EntrySize > hdr.total -> SwRefuse("NOSPACE")
       [] OTHER ->
            /\ hdr' = [hdr EXCEPT !.offStruct = @ + EntrySize]
            /\ rsv' = Append(rsv, call.range)
            /\ UNCHANGED <<tags, names, magic, script>>
            /\ Return("ok")

\* Mutant: the strings at the end of the buffer are forgotten.
SpaceLeft_StringsToo(h) == h.total - h.offStruct
SpaceLeft(h) == h.total - h.offStruct - h.sizeStrings

\* _fdt_grab_space.  The comparison is unsigned: less than no space passes.
GrabFails(h, len) == SpaceLeft(h) >= 0 /\ h.sizeStruct + len > SpaceLeft(h)

\* A tag goes behind the others, if the strings of header h leave room for it.
Write(h, t) ==
  /\ IF GrabFails(h, TagLen(t)) THEN hdr' = h /\ tags' = tags /\ Return("NOSPACE")
     ELSE /\ hdr' = [h EXCEPT !.sizeStruct = @ + TagLen(t)]
          /\ tags' = Append(tags, t)
          /\ Return("ok")
  /\ UNCHANGED <<rsv, magic, script>>

BeginNode == Writing("begin_node") /\ Write(hdr, Begin(call.name)) /\ names' = names
CloseNode == Writing("end_node") /\ Write(hdr, EndNode) /\ names' = names

\* The name of a property is looked for from the newest string on, and a new one
\* goes in front of them.  It stays when there is no room for the property.  That
\* there is room for the name is an unsigned comparison, too.
PutProperty ==
  /\ Writing("property")
  /\ LET place == FindString(call.name)
         len == Len(call.name) + 1
         h == IF place >= 0 THEN hdr ELSE [hdr EXCEPT !.sizeStrings = @ + len]
         nameoff == (IF place >= 0 THEN place ELSE 0) - h.sizeStrings
         top == hdr.offStruct + hdr.sizeStruct
     IN IF place < 0 /\ hdr.total - h.sizeStrings \in 0 .. top - 1 THEN SwRefuse("NOSPACE")
        ELSE /\ names' = IF place >= 0 THEN names ELSE <<call.name>> \o names
             /\ Write(h, Prop(nameoff, call.val))

\* Mutant: an offset counts from the end of the strings for ever.
Corrected_Not(t, h) == t
Corrected(t, h) == IF t.tag = "prop" THEN [t EXCEPT !.nameoff = @ + h.sizeStrings] ELSE t

\* The strings are moved to behind the structure section.
Finish ==
  /\ Writing("finish")
  /\ IF GrabFails(hdr, TagLen(End)) THEN SwRefuse("NOSPACE")
     ELSE LET h == [hdr EXCEPT !.sizeStruct = @ + TagLen(End)]
              end == h.offStruct + h.sizeStruct
          IN /\ hdr' = [h EXCEPT !.offStrings = end, !.total = end + h.sizeStrings]
             /\ tags' = [i \in 1 .. Len(tags) + 1 |->
                           IF i > Len(tags) THEN End ELSE Corrected(tags[i], hdr)]
             /\ magic' = "fdt"
             /\ UNCHANGED <<rsv, names, script>>
             /\ Return("ok")

\* A finished blob is one for the calls of FdtBlob.
Edit ==
  /\ magic = "fdt" /\ (call.op = "idle" => script = <<>>)
  /\ Next
  /\ UNCHANGED <<magic, script>>

SwNext ==
  \/ SwAsk \/ CreateEmptyTree \/ FollowScript
  \/ NotWriting
  \/ Create \/ AddReservemapEntry \/ BeginNode \/ PutProperty \/ CloseNode \/ Finish
  \/ Edit

SwSpec == SwInit /\ [][SwNext]_swVars
-----------------------------------------------------------------------------
(* Properties.                                                              *)

StringsStart == IF magic = "fdt" THEN hdr.offStrings ELSE hdr.total - hdr.sizeStrings

\* What grows up from the front and what grows down from the end of the buffer
\* do not meet, whatever calls failed on the way, and the header words describe
\* what was written.  The blob that fdt_finish leaves is one that every call of
\* FdtBlob accepts, and stays so when it is opened in its buffer and edited.
SectionsSound ==
  /\ magic = "sw" /\ rsv # <<>> =>
       /\ hdr.offStruct = hdr.offRsv + Len(rsv) * EntrySize
       /\ hdr.sizeStruct = SizeOf(tags) /\ hdr.sizeStrings = StringBytes(names)
       /\ hdr.offStruct + hdr.sizeStruct <= StringsStart
  /\ magic = "fdt" => Writable /\ LayoutSound

\* The tags as the read-only functions see them: a name is found at offStrings
\* plus its offset, also before fdt_finish, when both mean the end of the buffer.
ReadableTags ==
  [i \in DOMAIN tags |->
     IF tags[i].tag # "prop" THEN tags[i]
     ELSE [tags[i] EXCEPT !.nameoff = @ + hdr.offStrings - StringsStart]]
Blob == INSTANCE FdtBlob WITH tags <- ReadableTags

Builder == INSTANCE TreeBuilder WITH
  nodes <- Blob!AbstractNodes,
  ranges <- IF Contains(rsv, "empty") THEN SubSeq(rsv, 1, NumMemRsv) ELSE rsv,
  node <- Blob!AbstractNode,
  stage <- CASE magic = "none" -> "none"
             [] magic = "fdt" -> "done"
             [] OTHER -> IF Contains(rsv, "empty") THEN "nodes" ELSE "ranges",
  open <- Open

\* The tree that is built is the one the calls describe, readable at any moment,
\* and fdt_finish and what follows it leave it as it is: a call does what it says
\* or is refused for a true reason, in an empty tree made by the library as well.
ImplementsBuilder == Builder!BuilderSpec
=============================================================================
