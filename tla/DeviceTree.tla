----------------------------- MODULE DeviceTree -----------------------------
(***************************************************************************)
(* What libfdt's editing calls promise their caller: a device tree as a    *)
(* list of nodes in document order, a list of reserved ranges, and calls   *)
(* that either do what they say or change nothing.  Nothing is said of how *)
(* the tree is stored.  FdtBlob implements this specification.             *)
(***************************************************************************)
EXTENDS Integers, Sequences, SequencesExt

VARIABLES
  nodes,   \* of each node its depth, its name and its properties
  ranges,  \* the reserved memory ranges
  call,    \* the call in progress, or one with op = "idle"
  node,    \* the node it is about, 0 if there is none
  ret      \* what the last call returned

vars == <<nodes, ranges, call, node, ret>>

\* A wanted name without a unit address fits every unit.
Matches(wanted, name) ==
  /\ IsPrefix(wanted, name)
  /\ \/ Len(wanted) = Len(name)
     \/ ~Contains(wanted, "@") /\ name[Len(wanted) + 1] = "@"

\* How deep the nodes are decides what is in what.
Subtree(depths, k) ==
  {j \in DOMAIN depths : j >= k /\ \A i \in k + 1 .. j : depths[i] > depths[k]}
ChildNames ==
  LET tree == nodes
      depths == [j \in DOMAIN tree |-> tree[j].depth]
  IN {tree[j].name : j \in {j \in Subtree(depths, node) :
                              depths[j] = depths[node] + 1}}

-----------------------------------------------------------------------------
Exists == node \in DOMAIN nodes
Props == nodes[node].props
Has(name) == Exists /\ name \in DOMAIN Props

WithProps(props) == nodes' = [nodes EXCEPT ![node].props = props] /\ UNCHANGED ranges
Unchanged == UNCHANGED <<nodes, ranges>>

\* Why a call may refuse: what it says must be true of the tree.  The blob may
\* also be damaged or not open, of which this specification knows nothing.
Refused ==
  /\ ret' # "ok"
  /\ Unchanged
  /\ CASE ret' = "BADOFFSET" -> ~Exists
       [] ret' = "NOTFOUND" ->
            \/ call.op = "del_mem_rsv" /\ call.n >= Len(ranges)
            \/ call.op \in {"delprop", "setprop_inplace", "nop_property"} /\ ~Has(call.name)
       [] ret' = "EXISTS" -> Exists /\ \E name \in ChildNames : Matches(call.name, name)
       [] ret' = "NOSPACE" ->
            \/ call.op \in {"setprop", "appendprop", "set_name", "add_subnode"}
            \/ call.op \in {"add_mem_rsv", "open_into"}
            \/ /\ call.op = "setprop_inplace" /\ Has(call.name)
               /\ Len(Props[call.name]) # Len(call.val)
       [] OTHER -> TRUE

SetProp ==
  /\ call.op \in {"setprop", "setprop_inplace"}
  /\ Exists /\ (call.op = "setprop_inplace" => Has(call.name))
  /\ LET props == Props
         asked == call
     IN WithProps([n \in DOMAIN props \cup {asked.name} |->
                     IF n = asked.name THEN asked.val ELSE props[n]])

AppendProp ==
  /\ call.op = "appendprop" /\ Exists
  /\ LET props == Props
         asked == call
     IN WithProps([n \in DOMAIN props \cup {asked.name} |->
                     IF n # asked.name THEN props[n]
                     ELSE IF n \in DOMAIN props THEN props[n] \o asked.val ELSE asked.val])

DelProp ==
  /\ call.op \in {"delprop", "nop_property"} /\ Has(call.name)
  /\ LET props == Props IN WithProps([n \in DOMAIN props \ {call.name} |-> props[n]])

SetName ==
  /\ call.op = "set_name" /\ Exists
  /\ nodes' = [nodes EXCEPT ![node].name = call.name]
  /\ UNCHANGED ranges

\* The new node is the first child, and no other child answers to its name.
AddSubnode ==
  /\ call.op = "add_subnode" /\ Exists
  /\ \A name \in ChildNames : ~Matches(call.name, name)
  /\ nodes' = InsertAt(nodes, node + 1,
                       [depth |-> nodes[node].depth + 1, name |-> call.name,
                        props |-> [n \in {} |-> <<>>]])
  /\ UNCHANGED ranges

DelNode ==
  /\ call.op \in {"del_node", "nop_node"} /\ Exists
  /\ LET gone == Subtree([j \in DOMAIN nodes |-> nodes[j].depth], node)
     IN nodes' = SubSeq(nodes, 1, node - 1)
                   \o SubSeq(nodes, node + Cardinality(gone), Len(nodes))
  /\ UNCHANGED ranges

\* A range of no bytes is no range.
AddMemRsv ==
  /\ call.op = "add_mem_rsv"
  /\ ranges' = IF call.range = "empty" THEN ranges ELSE Append(ranges, call.range)
  /\ UNCHANGED nodes

DelMemRsv ==
  /\ call.op = "del_mem_rsv" /\ call.n < Len(ranges)
  /\ ranges' = RemoveAt(ranges, call.n + 1)
  /\ UNCHANGED nodes

\* How the tree is stored is nobody's business.
Rearrange == call.op \in {"open_into", "pack"} /\ Unchanged

Succeeded ==
  /\ ret' = "ok"
  /\ \/ SetProp \/ AppendProp \/ DelProp \/ SetName \/ AddSubnode \/ DelNode
     \/ AddMemRsv \/ DelMemRsv \/ Rearrange

Return == call.op # "idle" /\ call'.op = "idle" /\ (Refused \/ Succeeded)
Ask == call.op = "idle" /\ call'.op # "idle" /\ Unchanged

Init == call.op = "idle"
Next == Ask \/ Return
Spec == Init /\ [][Next]_vars
=============================================================================
