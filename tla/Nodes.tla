-------------------------------- MODULE Nodes --------------------------------
(***************************************************************************)
(* print_nodes of lib/layout/layout.c: the children of a node share        *)
(* its area along the node's direction.                                    *)
(*                                                                         *)
(* Positions count from the start of the area, so the area is 0..size; the *)
(* three loops over the children take one child a step.                    *)
(***************************************************************************)
EXTENDS Integers, Sequences

CONSTANTS
  MaxNodes,     \* bound: children
  MaxRequired,  \* bound: size of a child's content
  MaxBasis,     \* bound: basis of a child
  MaxExpand,    \* bound: expand of a child
  MaxArea       \* bound: size of the area

ASSUME BoundsAssumption ==
  {MaxNodes, MaxRequired, MaxBasis, MaxExpand, MaxArea} \subseteq Nat

VARIABLES
  nodes,              \* required size (0 unless fit_content), basis, expand
  size,               \* the area's size along the direction
  phase,              \* "measure", "use", "place", "done"
  curr,               \* the child the loop is at
  max_size,
  min_sizes_sum,
  expand_sum,
  expanded_nodes_amount,
  size_used,
  curr_pos,
  curr_weighted_node_index,
  placed              \* history: the rectangles handed to print_node

inputs == <<nodes, size>>
sums == <<max_size, min_sizes_sum, expand_sum, expanded_nodes_amount>>

vars == <<inputs, phase, curr, sums, size_used, curr_pos,
          curr_weighted_node_index, placed>>

Node == [required : 0..MaxRequired, basis : 0..MaxBasis, expand : 0..MaxExpand]

TypeOK ==
  /\ nodes \in Seq(Node)
  /\ phase \in {"measure", "use", "place", "done"}
  /\ curr \in 1..(Len(nodes) + 1)
  /\ {size, max_size, min_sizes_sum, expand_sum, expanded_nodes_amount,
      curr_pos} \subseteq Nat
  /\ size_used \in 0..max_size
  /\ curr_weighted_node_index \in 0..expanded_nodes_amount
  /\ placed \in Seq([at : Nat, size : Nat])

-----------------------------------------------------------------------------

AtLeast(a, b) == IF a > b THEN a ELSE b
AtMost(a, b) == IF a < b THEN a ELSE b
DIV_OR_ZERO(a, b) == IF b # 0 THEN a \div b ELSE 0
SUB_OR_ZERO(a, b) == IF a > b THEN a - b ELSE 0

Init ==
  /\ nodes \in UNION {[1..n -> Node] : n \in 0..MaxNodes}
  /\ size \in 0..MaxArea
  /\ phase = "measure"
  /\ curr = 1
  /\ max_size = size
  /\ min_sizes_sum = 0
  /\ expand_sum = 0
  /\ expanded_nodes_amount = 0
  /\ size_used = 0
  /\ curr_pos = 0
  /\ curr_weighted_node_index = 0
  /\ placed = <<>>

Child == nodes[curr]

\* The first loop: what the children need.
Measure ==
  /\ phase = "measure" /\ curr <= Len(nodes)
  /\ expand_sum' = expand_sum + Child.expand
  /\ min_sizes_sum' = min_sizes_sum + AtLeast(Child.required, Child.basis)
  /\ expanded_nodes_amount' =
       expanded_nodes_amount + (IF Child.expand # 0 THEN 1 ELSE 0)
  /\ curr' = curr + 1
  /\ UNCHANGED <<inputs, phase, max_size, size_used, curr_pos,
                 curr_weighted_node_index, placed>>

(* Plausible bug: the area stays as it is when the children need more.     *)
MeasuredUncapped ==
  /\ phase = "measure" /\ curr > Len(nodes)
  /\ max_size' = size
  /\ phase' = "use"
  /\ curr' = 1
  /\ UNCHANGED <<inputs, min_sizes_sum, expand_sum, expanded_nodes_amount,
                 size_used, curr_pos, curr_weighted_node_index, placed>>

\* Children that need more than the area overflow it.
Measured ==
  /\ phase = "measure" /\ curr > Len(nodes)
  /\ max_size' = AtLeast(size, min_sizes_sum)
  /\ phase' = "use"
  /\ curr' = 1
  /\ UNCHANGED <<inputs, min_sizes_sum, expand_sum, expanded_nodes_amount,
                 size_used, curr_pos, curr_weighted_node_index, placed>>

expand_to_chars == DIV_OR_ZERO(max_size - min_sizes_sum, expand_sum)

(* Plausible bug: a child that expands may get less than its content needs.*)
SharedSizeIgnoresContent(n) ==
  IF n.expand # 0 THEN n.expand * expand_to_chars + n.basis
                  ELSE AtLeast(n.basis, n.required)

SharedSize(n) == AtLeast(n.expand * expand_to_chars + n.basis, n.required)

\* The second loop: what the shares leave over to integer rounding.
Use ==
  /\ phase = "use" /\ curr <= Len(nodes)
  /\ size_used' = size_used + SharedSize(Child)
  /\ curr' = curr + 1
  /\ UNCHANGED <<inputs, phase, sums, curr_pos, curr_weighted_node_index,
                 placed>>

Used ==
  /\ phase = "use" /\ curr > Len(nodes)
  /\ phase' = "place"
  /\ curr' = 1
  /\ UNCHANGED <<inputs, sums, size_used, curr_pos, curr_weighted_node_index,
                 placed>>

total_leftover == SUB_OR_ZERO(max_size, size_used)
leftover_base == DIV_OR_ZERO(total_leftover, expanded_nodes_amount)
leftover_leftover == total_leftover - leftover_base * expanded_nodes_amount

(* Plausible bug: the cells that do not divide evenly are dropped.         *)
LeftoverDropped(n) == IF n.expand = 0 THEN 0 ELSE leftover_base

(* Plausible bug: they all go to the first child that expands.             *)
LeftoverToFirst(n) ==
  IF n.expand = 0 THEN 0
  ELSE leftover_base
       + (IF curr_weighted_node_index = 0 THEN leftover_leftover ELSE 0)

\* The part of the leftover that goes to the child the third loop is at.
Leftover(n) ==
  IF n.expand = 0 THEN 0
  ELSE leftover_base
       + (IF curr_weighted_node_index < leftover_leftover THEN 1 ELSE 0)

(* Plausible bug: the child that reaches over the edge is not cut.         *)
PlaceUncut ==
  /\ phase = "place" /\ curr <= Len(nodes)
  /\ LET curr_size == SharedSize(Child) + Leftover(Child)
     IN  /\ placed' = Append(placed, [at |-> curr_pos, size |-> curr_size])
         /\ curr_pos' = curr_pos + curr_size
  /\ curr_weighted_node_index' =
       curr_weighted_node_index + (IF Child.expand # 0 THEN 1 ELSE 0)
  /\ curr' = curr + 1
  /\ phase' = IF curr_pos' >= size THEN "done" ELSE "place"
  /\ UNCHANGED <<inputs, sums, size_used>>

\* The third loop: print a child; stop at the area's edge.
Place ==
  /\ phase = "place" /\ curr <= Len(nodes)
  /\ LET curr_size == SharedSize(Child) + Leftover(Child)
     IN  /\ placed' = Append(placed, [at   |-> curr_pos,
                                      size |-> AtMost(curr_size, size - curr_pos)])
         /\ curr_pos' = curr_pos + curr_size
  /\ curr_weighted_node_index' =
       curr_weighted_node_index + (IF Child.expand # 0 THEN 1 ELSE 0)
  /\ curr' = curr + 1
  /\ phase' = IF curr_pos' >= size THEN "done" ELSE "place"
  /\ UNCHANGED <<inputs, sums, size_used>>

Placed ==
  /\ phase = "place" /\ curr > Len(nodes)
  /\ phase' = "done"
  /\ UNCHANGED <<inputs, curr, sums, size_used, curr_pos,
                 curr_weighted_node_index, placed>>

Next == Measure \/ Measured \/ Use \/ Used \/ Place \/ Placed

Spec == Init /\ [][Next]_vars

-----------------------------------------------------------------------------

End(r) == r.at + r.size

(* The children are printed side by side in the area: none over its edge,  *)
(* none over another, however much more than the area they need.           *)
PlacedInside ==
  /\ \A i \in 1..Len(placed) : End(placed[i]) <= size
  /\ \A i \in 1..Len(placed) - 1 : placed[i + 1].at = End(placed[i])

(* When the area holds what all children need, each gets what it needs:    *)
(* expanding children and rounding never take the place of a later one.    *)
NeedsMet ==
  phase = "done" /\ min_sizes_sum <= size =>
    \A i \in 1..Len(nodes) :
      LET need == AtLeast(nodes[i].required, nodes[i].basis)
      IN  need > 0 => i <= Len(placed) /\ placed[i].size >= need

(* If any child expands, the children fill the area to its edge: "handle   *)
(* int rounding gracefully".                                               *)
AreaFilled ==
  phase = "done" /\ expand_sum > 0 => End(placed[Len(placed)]) = size

(* Children alike that are not cut differ by one cell at most, the earlier *)
(* being the larger.                                                       *)
AlikeTreatedAlike ==
  \A i, j \in 1..Len(placed) :
    i < j /\ nodes[i] = nodes[j] /\ End(placed[j]) < size =>
      placed[i].size - placed[j].size \in {0, 1}

=============================================================================
