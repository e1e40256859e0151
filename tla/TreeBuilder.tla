---------------------------- MODULE TreeBuilder ----------------------------
(***************************************************************************)
(* What libfdt's sequential-write calls promise: ranges are reserved, then *)
(* nodes are opened, filled and closed in document order, and when the     *)
(* tree is finished it is a tree like any other, to be edited as           *)
(* DeviceTree says.  FdtSequential implements this specification.          *)
(***************************************************************************)
EXTENDS DeviceTree

VARIABLES
  stage,  \* "none", "ranges", "nodes" or "done"
  open    \* how many nodes are open

builderVars == <<vars, stage, open>>

BuildOps == {"create", "add_reservemap_entry", "begin_node", "property", "end_node", "finish"}

\* A call that comes at the wrong time is refused, and any but the last may
\* find no room.
BuildRefused ==
  /\ ret' # "ok" /\ Unchanged /\ UNCHANGED <<stage, open>>
  /\ CASE ret' = "BADMAGIC" -> stage \in {"none", "done"} /\ call.op # "create"
       [] ret' = "BADSTATE" -> call.op = "add_reservemap_entry" /\ nodes # <<>>
       [] OTHER -> ret' = "NOSPACE"

Create ==
  /\ call.op = "create"
  /\ stage' = "ranges" /\ nodes' = <<>> /\ ranges' = <<>> /\ open' = 0

\* A range of no bytes ends the list; what is added behind it is not seen.
AddRange ==
  /\ call.op = "add_reservemap_entry" /\ nodes = <<>>
  /\ CASE stage = "ranges" /\ call.range = "empty" -> stage' = "nodes" /\ ranges' = ranges
       [] stage = "ranges" /\ call.range # "empty" ->
            ranges' = Append(ranges, call.range) /\ stage' = stage
       [] stage = "nodes" -> UNCHANGED <<stage, ranges>>
  /\ UNCHANGED <<nodes, open>>

BeginNode ==
  /\ call.op = "begin_node" /\ stage = "nodes"
  /\ nodes' = Append(nodes, [depth |-> open, name |-> call.name, props |-> [n \in {} |-> <<>>]])
  /\ open' = open + 1
  /\ UNCHANGED <<ranges, stage>>

\* Of two properties of a name the first is the one that counts.
PutProperty ==
  /\ call.op = "property" /\ stage = "nodes" /\ open > 0
  /\ LET last == nodes[Len(nodes)]
         props == [n \in DOMAIN last.props \cup {call.name} |->
                     IF n \in DOMAIN last.props THEN last.props[n] ELSE call.val]
     IN last.depth = open - 1 /\ nodes' = [nodes EXCEPT ![Len(nodes)].props = props]
  /\ UNCHANGED <<ranges, stage, open>>

CloseNode ==
  /\ call.op = "end_node" /\ stage = "nodes" /\ open > 0
  /\ open' = open - 1
  /\ UNCHANGED <<nodes, ranges, stage>>

Finish ==
  /\ call.op = "finish" /\ stage = "nodes" /\ open = 0
  /\ stage' = "done"
  /\ UNCHANGED <<nodes, ranges, open>>

Built ==
  ret' = "ok" /\ (Create \/ AddRange \/ BeginNode \/ PutProperty \/ CloseNode \/ Finish)

Build == call.op \in BuildOps /\ call'.op = "idle" /\ (BuildRefused \/ Built)
Edit == call.op \notin BuildOps /\ Next /\ UNCHANGED <<stage, open>>

BuilderInit == Init /\ stage = "none" /\ nodes = <<>> /\ ranges = <<>> /\ open = 0
BuilderSpec == BuilderInit /\ [][Build \/ Edit]_builderVars
=============================================================================
