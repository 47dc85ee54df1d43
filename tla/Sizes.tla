------------------------------- MODULE Sizes -------------------------------
(***************************************************************************)
(* What a node with wrap says it needs: get_overflow_min_height and        *)
(* get_overflow_min_width of lib/layout/layout.c, next to                  *)
(* print_wrapped_node (Wrap), which then packs the same children.          *)
(*                                                                         *)
(* The children are texts, whose sizes do not depend on the room there is. *)
(***************************************************************************)
EXTENDS Wrap

Directions == {"columns", "rows"}

\* The bounds of a node of this direction, along it and across.
Bounds(direction, along, across) ==
  IF direction = "columns" THEN [width |-> along, height |-> across]
                           ELSE [width |-> across, height |-> along]

Packed == [line |-> 0, thick |-> 0, lines |-> 0]

(* Plausible bug: the last line is not considered.                         *)
ThicknessBeforeLast(packed) == packed.lines

Thickness(packed) == packed.lines + packed.thick

\* A child joins the line or starts one, with or without the thickness of the
\* line before.
Pack(p, n, long, reset) ==
  LET full == p.line + n.size > long
  IN  [line  |-> n.size + (IF full THEN 0 ELSE p.line),
       thick |-> AtLeast(n.other, IF full /\ reset THEN 0 ELSE p.thick),
       lines |-> p.lines + (IF full THEN p.thick ELSE 0)]

\* The loop over the children: what is packed after each number of them.
Packing(children, long, reset) ==
  LET packed[n \in 0..Len(children)] ==
        IF n = 0 THEN Packed
        ELSE Pack(packed[n - 1], children[n], long, reset)
  IN  packed

\* Lines no longer than long; the thickness of a line counts for the later
\* ones as well, as it is never reset.
ThickLines(children, long) ==
  Thickness(Packing(children, long, FALSE)[Len(children)])

\* Lines no longer than long, each as thick as its children.
Lines(children, long) ==
  Thickness(Packing(children, long, TRUE)[Len(children)])

LongestChild(children) ==
  CHOOSE m \in {0} \cup {children[i].size : i \in 1..Len(children)} :
    \A i \in 1..Len(children) : children[i].size <= m

\* The search starts one above the longest child, which is not tried itself,
\* and ends at the bound whether the lines fit there or not.
ShortestLines(children, long, thick) ==
  LET start == LongestChild(children)
      tried == start + 1..long
      fitting == {s \in tried : Lines(children, s) <= thick}
  IN  IF tried = {} THEN start
      ELSE IF fitting = {} THEN long
      ELSE CHOOSE s \in fitting : \A r \in fitting : s <= r

get_overflow_min_height(direction, children, room) ==
  IF direction = "columns" THEN ThickLines(children, room.width)
  ELSE ShortestLines(children, room.height, room.width)

get_overflow_min_width(direction, children, room) ==
  IF direction = "rows" THEN ThickLines(children, room.height)
  ELSE ShortestLines(children, room.width, room.height)

-----------------------------------------------------------------------------

\* Every child is in a line that is thick enough for it.
AllPrinted ==
  /\ first > Len(nodes)
  /\ \A l \in 1..Len(lines) :
       \A i \in lines[l].first..lines[l].first + lines[l].count - 1 :
         nodes[i].other <= lines[l].thick

(* "returned a smaller size then really necessary to render the node"      *)
(* (test_layout.py:574): a node that is given at least the thickness it    *)
(* asked for, at the length it asked with, is printed in full.             *)
ThicknessSuffices ==
  phase = "done" =>
    \A direction \in Directions :
      LET bounds == Bounds(direction, max_size, max_other_size)
          asked == IF direction = "columns"
                   THEN get_overflow_min_height(direction, nodes, bounds)
                   ELSE get_overflow_min_width(direction, nodes, bounds)
      IN  max_other_size >= asked => AllPrinted

(* A node that is given the length it asked for is printed in full, if the *)
(* search for it ended before its bound.  Longer lines need not do: they   *)
(* can bring thick children together and be thicker in all.                *)
LengthSuffices ==
  phase = "done" =>
    \A direction \in Directions, bound \in max_size + 1..MaxArea + 1 :
      LET bounds == Bounds(direction, bound, max_other_size)
          asked == IF direction = "columns"
                   THEN get_overflow_min_width(direction, nodes, bounds)
                   ELSE get_overflow_min_height(direction, nodes, bounds)
      IN  max_size = asked => AllPrinted

(* What a wrapped node asks for is enough for what it then prints, along   *)
(* its direction and across it.                                            *)
AskedSuffices == ThicknessSuffices /\ LengthSuffices

=============================================================================
