-------------------------------- MODULE Wrap --------------------------------
(***************************************************************************)
(* print_wrapped_node of lib/layout/layout.c: the children of a node       *)
(* with wrap are packed into lines, each line is handed to print_nodes     *)
(* with a rectangle cut from the node's own.                               *)
(*                                                                         *)
(* Sizes along the node's direction are called size, across it other.  A   *)
(* line's rectangle spans the whole area along the direction; across it,   *)
(* it starts at `at` and is `thick` wide.                                  *)
(***************************************************************************)
EXTENDS Integers, Sequences

CONSTANTS
  MaxNodes,       \* bound: children of the node
  MaxNode,        \* bound: size of a child, both ways
  MaxArea,        \* bound: size of the area, both ways
  AllowOversize   \* may a child be larger than the area is long?

ASSUME SizesAssumption == {MaxNodes, MaxNode, MaxArea} \subseteq Nat
ASSUME OversizeAssumption == AllowOversize \in BOOLEAN

VARIABLES
  nodes,            \* the required sizes of the children
  max_size,
  max_other_size,
  first,            \* index of the first child not printed yet
  next,
  line_size,
  line_other_size,
  line_nodes_count,
  prev_other_size,
  phase,            \* "loop", "fill", "done"
  lines             \* history: the lines of children handed to print_nodes

vars == <<nodes, max_size, max_other_size, first, next, line_size,
          line_other_size, line_nodes_count, prev_other_size, phase, lines>>

inputs == <<nodes, max_size, max_other_size>>

Sizes == [size : 0..MaxNode, other : 0..MaxNode]

Line == [first : Nat, count : Nat, at : Nat, thick : Int]

TypeOK ==
  /\ nodes \in Seq(Sizes)
  /\ {max_size, max_other_size, line_size, line_other_size,
      line_nodes_count, prev_other_size} \subseteq Nat
  /\ {first, next} \subseteq 1..(Len(nodes) + 1)
  /\ phase \in {"loop", "fill", "done"}
  /\ lines \in Seq(Line)

-----------------------------------------------------------------------------

AtLeast(a, b) == IF a > b THEN a ELSE b

Init ==
  /\ nodes \in UNION {[1..n -> Sizes] : n \in 0..MaxNodes}
  /\ max_size \in 0..MaxArea
  /\ max_other_size \in 0..MaxArea
  /\ AllowOversize \/ \A i \in 1..Len(nodes) : nodes[i].size <= max_size
  /\ first = 1
  /\ next = 1
  /\ line_size = 0
  /\ line_other_size = 0
  /\ line_nodes_count = 0
  /\ prev_other_size = 0
  /\ phase = "loop"
  /\ lines = <<>>

(* Plausible bug: an area that is exactly full is not full.                *)
LoopExclusive ==
  /\ phase = "loop"
  /\ IF first <= Len(nodes) /\ prev_other_size < max_other_size
     THEN phase' = "fill"
     ELSE phase' = "done"
  /\ line_size' = 0
  /\ line_other_size' = 0
  /\ line_nodes_count' = 0
  /\ UNCHANGED <<inputs, first, next, prev_other_size, lines>>

\* The outer loop: another line, while there are children and room.
Loop ==
  /\ phase = "loop"
  /\ IF first <= Len(nodes) /\ prev_other_size <= max_other_size
     THEN phase' = "fill"
     ELSE phase' = "done"
  /\ line_size' = 0
  /\ line_other_size' = 0
  /\ line_nodes_count' = 0
  /\ UNCHANGED <<inputs, first, next, prev_other_size, lines>>

(* Plausible bug: a child may not fill the line to its end.                *)
FitsStrictly == next <= Len(nodes) /\ line_size + nodes[next].size < max_size

\* The next child fits into the line.
Fits == next <= Len(nodes) /\ line_size + nodes[next].size <= max_size

\* The inner loop: the child joins the line.
TakeNode ==
  /\ phase = "fill"
  /\ Fits
  /\ line_nodes_count' = line_nodes_count + 1
  /\ line_size' = line_size + nodes[next].size
  /\ line_other_size' = AtLeast(line_other_size, nodes[next].other)
  /\ next' = next + 1
  /\ UNCHANGED <<inputs, first, prev_other_size, phase, lines>>

(* Plausible bug: only the line with the last child is the last line.      *)
IsLastNode == next > Len(nodes)

\* No line comes after this one: it gets all the room that is left.
IsLast ==
  \/ prev_other_size + line_other_size > max_other_size
  \/ next > Len(nodes)

NewLine ==
  [first |-> first, count |-> line_nodes_count, at |-> prev_other_size,
   thick |-> IF IsLast THEN max_other_size - prev_other_size
                       ELSE line_other_size]

(* Plausible bug: the child that did not fit is skipped.                   *)
PrintLineSkips ==
  /\ phase = "fill"
  /\ ~Fits
  /\ lines' = IF line_nodes_count = 0 THEN lines ELSE Append(lines, NewLine)
  /\ first' = next + 1
  /\ next' = next + 1
  /\ prev_other_size' = prev_other_size + line_other_size
  /\ phase' = "loop"
  /\ UNCHANGED <<inputs, line_size, line_other_size, line_nodes_count>>

(* Plausible bug: the thickness of the line is assigned, not added.        *)
PrintLineAssigns ==
  /\ phase = "fill"
  /\ ~Fits
  /\ lines' = IF line_nodes_count = 0 THEN lines ELSE Append(lines, NewLine)
  /\ first' = next
  /\ prev_other_size' = line_other_size
  /\ phase' = "loop"
  /\ UNCHANGED <<inputs, next, line_size, line_other_size, line_nodes_count>>

\* The end of the outer loop's body: print the line, go on after it.  A line
\* without a child prints nothing.
PrintLine ==
  /\ phase = "fill"
  /\ ~Fits
  /\ lines' = IF line_nodes_count = 0 THEN lines ELSE Append(lines, NewLine)
  /\ first' = next
  /\ prev_other_size' = prev_other_size + line_other_size
  /\ phase' = "loop"
  /\ UNCHANGED <<inputs, next, line_size, line_other_size, line_nodes_count>>

Next == Loop \/ TakeNode \/ PrintLine

Spec == Init /\ [][Next]_vars

FairSpec == Spec /\ WF_vars(Next)

-----------------------------------------------------------------------------

(* Every line lies in the area: no thickness is the unsigned result of a   *)
(* subtraction that went below zero, and no line but the last, cut one     *)
(* reaches over the edge (the out-of-bounds draw of test_layout.py:435).   *)
LinesInside ==
  \A i \in 1..Len(lines) :
    lines[i].thick >= 0 /\ lines[i].at + lines[i].thick <= max_other_size

(* Lines do not overlap, and together they print the children from the     *)
(* first on, in order, each once.                                          *)
LinesTile ==
  /\ \A i \in 1..Len(lines) - 1 :
       /\ lines[i + 1].first = lines[i].first + lines[i].count
       /\ lines[i + 1].at >= lines[i].at + lines[i].thick
  /\ lines # <<>> => lines[1].first = 1 /\ lines[1].at = 0
  /\ phase = "loop" /\ lines # <<>> =>
       first = lines[Len(lines)].first + lines[Len(lines)].count

\* How long the first n children are.
SizeUpTo ==
  LET sum[n \in 0..Len(nodes)] ==
        IF n = 0 THEN 0 ELSE sum[n - 1] + nodes[n].size
  IN  sum

\* The children printed in line l.
Members(l) == lines[l].first..lines[l].first + lines[l].count - 1

(* Room is not given away.  A line ends only where the child that begins   *)
(* the next one would not have fitted into it, and children are left out   *)
(* only if a child of the last line reaches over the area's far edge.      *)
NothingLeftOut ==
  /\ \A l \in 1..Len(lines) - 1 :
       SizeUpTo[lines[l + 1].first] - SizeUpTo[lines[l].first - 1] > max_size
  /\ phase = "done" /\ first <= Len(nodes) =>
       \E l \in 1..Len(lines) :
         /\ l = Len(lines)
         /\ \E i \in Members(l) : lines[l].at + nodes[i].other > max_other_size

(* The loop ends.  It does for children that fit into a line of their own. *)
Terminates == <>(phase = "done")

=============================================================================
