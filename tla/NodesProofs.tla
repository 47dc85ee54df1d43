----------------------------- MODULE NodesProofs -----------------------------
(***************************************************************************)
(* The children of a node stay inside its area and share it as they        *)
(* should, for any number of children of any size and any area.            *)
(*                                                                         *)
(* PlacedInside is not inductive: it needs where the third loop is         *)
(* (Frontier), and that no child gets a negative size, for which the area, *)
(* enlarged by Measured, has to hold what all children need (Roomy).       *)
(*                                                                         *)
(* The shares need what the loops add up.  Nodes defines no such sum: the  *)
(* invariant says that there are partial sums of what the children need,   *)
(* expand and use (Summed), and each loop extends them by the child it is  *)
(* at.  The sums that Draw defines exist by Induction (SumsAddUp).         *)
(*                                                                         *)
(* What Draw says of the rectangles follows from where print_nodes put     *)
(* them: a rectangle inside the area (RectInside) keeps its position       *)
(* within the word, paddings included (InnerRect), and the window cuts a   *)
(* size that wrapped around (ClippedText).                                 *)
(***************************************************************************)
EXTENDS Draw, Induction, TLAPS

Numbers ==
  /\ nodes \in Seq(Node)
  /\ phase \in {"measure", "use", "place", "done"}
  /\ curr \in 1..(Len(nodes) + 1)
  /\ size \in Nat /\ max_size \in Nat /\ min_sizes_sum \in Nat
  /\ expand_sum \in Nat /\ expanded_nodes_amount \in Nat
  /\ size_used \in Nat /\ curr_pos \in Nat /\ curr_weighted_node_index \in Nat
  /\ placed \in Seq([at : Nat, size : Nat])

Roomy == phase # "measure" => max_size >= min_sizes_sum

\* The last child ends where the next one will start, short of the edge.
Frontier ==
  /\ phase \in {"measure", "use"} => placed = <<>>
  /\ placed = <<>> => curr_pos = 0
  /\ phase = "place" /\ placed # <<>> =>
       End(placed[Len(placed)]) = curr_pos /\ curr_pos < size

IInv == Numbers /\ Roomy /\ Frontier /\ PlacedInside

-----------------------------------------------------------------------------

(* DIV_OR_ZERO returns a natural number, 0 included as a divisor.          *)
LEMMA DivOrZero ==
  ASSUME NEW a \in Nat, NEW b \in Nat
  PROVE  DIV_OR_ZERO(a, b) \in Nat
<1>1. CASE b = 0
  BY <1>1 DEF DIV_OR_ZERO
<1>2. CASE b # 0
  <2>1. a \div b \in Nat
    BY <1>2
  <2> QED
    BY <1>2, <2>1 DEF DIV_OR_ZERO
<1> QED
  BY <1>1, <1>2

(* A product of natural numbers is one.                                    *)
LEMMA Product ==
  ASSUME NEW a \in Nat, NEW b \in Nat
  PROVE  a * b \in Nat
OBVIOUS

(* The child a loop is at has natural sizes.                               *)
LEMMA ChildNat ==
  ASSUME Numbers, curr <= Len(nodes)
  PROVE  /\ Child \in Node
         /\ Child.required \in Nat /\ Child.basis \in Nat /\ Child.expand \in Nat
<1>1. curr \in 1..Len(nodes)
  BY DEF Numbers
<1>2. nodes[curr] \in Node
  BY <1>1 DEF Numbers
<1> QED
  BY <1>2, BoundsAssumption DEF Child, Node

(* What a child gets of the area is a natural number.                      *)
LEMMA SizesNat ==
  ASSUME Numbers, Roomy, phase # "measure", curr <= Len(nodes)
  PROVE  SharedSize(Child) \in Nat /\ Leftover(Child) \in Nat
<1>1. Child.required \in Nat /\ Child.basis \in Nat /\ Child.expand \in Nat
  BY ChildNat
<1> DEFINE c == Child
<1> HIDE DEF c
<1>2. c.required \in Nat /\ c.basis \in Nat /\ c.expand \in Nat
  BY <1>1 DEF c
<1>3. expand_to_chars \in Nat
  <2>1. max_size - min_sizes_sum \in Nat /\ expand_sum \in Nat
    BY DEF Numbers, Roomy
  <2> QED
    BY <2>1, DivOrZero DEF expand_to_chars
<1>4. c.expand * expand_to_chars \in Nat
  BY <1>2, <1>3, Product
<1>5. SharedSize(c) \in Nat
  BY <1>2, <1>4 DEF SharedSize, AtLeast
<1>6. total_leftover \in Nat
  BY DEF total_leftover, SUB_OR_ZERO, Numbers
<1>7. leftover_base \in Nat
  BY <1>6, DivOrZero DEF leftover_base, Numbers
<1>8. Leftover(c) \in Nat
  BY <1>7 DEF Leftover
<1> QED
  BY <1>5, <1>8 DEF c

-----------------------------------------------------------------------------

LEMMA InitInvariant == Init => IInv
<1> SUFFICES ASSUME Init PROVE IInv
  OBVIOUS
<1>1. nodes \in Seq(Node) /\ Len(nodes) \in Nat
  BY DEF Init
<1>2. size \in Nat
  BY BoundsAssumption DEF Init
<1> QED
  BY <1>1, <1>2 DEF Init, IInv, Numbers, Roomy, Frontier, PlacedInside

LEMMA MeasureInvariant ==
  ASSUME IInv, Measure
  PROVE  IInv'
<1> USE DEF IInv, Measure, inputs
<1>1. Child.required \in Nat /\ Child.basis \in Nat /\ Child.expand \in Nat
  BY ChildNat
<1>2. /\ expand_sum' \in Nat /\ min_sizes_sum' \in Nat
      /\ expanded_nodes_amount' \in Nat
  <2>1. /\ expand_sum' = expand_sum + Child.expand
        /\ min_sizes_sum' = min_sizes_sum + AtLeast(Child.required, Child.basis)
        /\ \/ expanded_nodes_amount' = expanded_nodes_amount + 1
           \/ expanded_nodes_amount' = expanded_nodes_amount + 0
    OBVIOUS
  <2>2. /\ expand_sum \in Nat /\ min_sizes_sum \in Nat
        /\ expanded_nodes_amount \in Nat
    BY DEF Numbers
  <2>3. AtLeast(Child.required, Child.basis) \in Nat
    BY <1>1 DEF AtLeast
  <2> HIDE DEF IInv, Measure
  <2> QED
    BY <1>1, <2>1, <2>2, <2>3
<1>3. Len(nodes) \in Nat /\ curr' \in 1..(Len(nodes) + 1)
  BY DEF Numbers
<1>4. Numbers'
  BY <1>2, <1>3 DEF Numbers
<1>5. Roomy' /\ Frontier' /\ PlacedInside'
  BY DEF Roomy, Frontier, PlacedInside, End
<1> QED
  BY <1>4, <1>5

LEMMA UseInvariant ==
  ASSUME IInv, Use
  PROVE  IInv'
<1> USE DEF IInv, Use, inputs, sums
<1>1. SharedSize(Child) \in Nat
  BY SizesNat
<1>2. Len(nodes) \in Nat /\ curr' \in 1..(Len(nodes) + 1)
  BY DEF Numbers
<1>3. size_used' \in Nat
  BY <1>1 DEF Numbers
<1>4. Numbers'
  BY <1>2, <1>3 DEF Numbers
<1>5. Roomy' /\ Frontier' /\ PlacedInside'
  BY DEF Roomy, Frontier, PlacedInside, End
<1> QED
  BY <1>4, <1>5

LEMMA PhaseInvariant ==
  ASSUME IInv, Measured \/ Used \/ Placed
  PROVE  IInv'
<1> USE DEF IInv, Measured, Used, Placed, inputs, sums
<1>1. Numbers'
  <2>1. max_size' \in Nat
    BY DEF Numbers, AtLeast
  <2>2. Len(nodes) \in Nat /\ curr' \in 1..(Len(nodes) + 1)
    BY DEF Numbers
  <2> QED
    BY <2>1, <2>2 DEF Numbers
<1>2. Roomy'
  BY DEF Numbers, Roomy, AtLeast
<1>3. Frontier'
  BY DEF Frontier, End
<1>4. PlacedInside'
  BY DEF PlacedInside, End
<1> QED
  BY <1>1, <1>2, <1>3, <1>4

LEMMA PlaceInvariant ==
  ASSUME IInv, Place
  PROVE  IInv'
<1> DEFINE curr_size == SharedSize(Child) + Leftover(Child)
           last == [at   |-> curr_pos,
                    size |-> AtMost(curr_size, size - curr_pos)]
<1>1. curr_size \in Nat
  <2>1. SharedSize(Child) \in Nat /\ Leftover(Child) \in Nat
    BY SizesNat DEF IInv, Place
  <2> QED
    BY <2>1
<1>2. /\ placed' = Append(placed, last)
      /\ curr_pos' = curr_pos + curr_size
      /\ curr' = curr + 1
      /\ phase' = IF curr_pos' >= size THEN "done" ELSE "place"
      /\ phase = "place" /\ curr <= Len(nodes)
      /\ UNCHANGED <<inputs, sums, size_used>>
  BY DEF Place
<1>3. Child.expand \in Nat
  BY <1>2, ChildNat DEF IInv
<1>4. curr_weighted_node_index' \in Nat
  BY <1>3 DEF IInv, Numbers, Place
<1> HIDE DEF curr_size
<1>5. curr_pos \in Nat /\ size \in Nat /\ curr_pos <= size
  BY <1>2 DEF IInv, Numbers, Frontier
<1>6. last.at \in Nat /\ last.size \in Nat /\ End(last) <= size
  BY <1>1, <1>5 DEF End, AtMost
<1>7. curr_pos' < size => End(last) = curr_pos'
  BY <1>1, <1>2, <1>5 DEF End, AtMost
<1>8. last \in [at : Nat, size : Nat] /\ last.at = curr_pos
  BY <1>6
<1> HIDE DEF last
<1>9. /\ placed' \in Seq([at : Nat, size : Nat])
      /\ placed' # <<>>
      /\ Len(placed) \in Nat
      /\ Len(placed') = Len(placed) + 1
      /\ \A i \in 1..Len(placed) : placed'[i] = placed[i]
      /\ placed'[Len(placed) + 1] = last
  <2>1. placed \in Seq([at : Nat, size : Nat])
    BY DEF IInv, Numbers
  <2> QED
    BY <1>2, <1>8, <2>1
<1>10. Numbers'
  <2>1. curr_pos' \in Nat
    BY <1>1, <1>2, <1>5
  <2>2. curr' \in 1..(Len(nodes) + 1)
    BY <1>2 DEF IInv, Numbers
  <2> QED
    BY <1>2, <1>4, <1>9, <2>1, <2>2 DEF IInv, Numbers, inputs, sums
<1>11. Roomy'
  BY <1>2 DEF IInv, Roomy, inputs, sums
<1>12. Frontier'
  <2>1. placed'[Len(placed')] = last
    BY <1>9
  <2>2. phase' = "place" => curr_pos' < size
    BY <1>1, <1>2, <1>5
  <2>3. phase' \in {"place", "done"} /\ size' = size
    BY <1>2 DEF inputs
  <2> QED
    BY <1>7, <1>9, <2>1, <2>2, <2>3 DEF Frontier, End
<1>13. PlacedInside'
  <2>1. \A i \in 1..Len(placed') : End(placed'[i]) <= size
    <3> SUFFICES ASSUME NEW i \in 1..Len(placed')
                 PROVE  End(placed'[i]) <= size
      OBVIOUS
    <3>1. CASE i = Len(placed) + 1
      BY <1>6, <1>9, <3>1
    <3>2. CASE i # Len(placed) + 1
      <4>1. i \in 1..Len(placed)
        BY <1>9, <3>2
      <4>2. placed'[i] = placed[i] /\ End(placed[i]) <= size
        BY <1>9, <4>1 DEF IInv, PlacedInside
      <4> QED
        BY <4>2 DEF End
    <3> QED
      BY <3>1, <3>2
  <2>2. \A i \in 1..Len(placed') - 1 : placed'[i + 1].at = End(placed'[i])
    <3> SUFFICES ASSUME NEW i \in 1..Len(placed)
                 PROVE  placed'[i + 1].at = End(placed'[i])
      BY <1>9
    <3>1. CASE i = Len(placed)
      <4>1. End(placed[Len(placed)]) = curr_pos
        BY <1>2, <1>9, <3>1 DEF IInv, Frontier
      <4> QED
        BY <1>8, <1>9, <3>1, <4>1
    <3>2. CASE i # Len(placed)
      <4>1. i \in 1..Len(placed) - 1 /\ i \in 1..Len(placed) /\ i + 1 \in 1..Len(placed)
        BY <1>9, <3>2
      <4>2. placed'[i] = placed[i] /\ placed'[i + 1] = placed[i + 1]
        BY <1>9, <4>1
      <4>3. placed[i + 1].at = End(placed[i])
        BY <4>1 DEF IInv, PlacedInside
      <4> QED
        BY <4>2, <4>3 DEF End
    <3> QED
      BY <3>1, <3>2
  <2>3. size' = size
    BY <1>2 DEF inputs
  <2> QED
    BY <2>1, <2>2, <2>3 DEF PlacedInside, End
<1> QED
  BY <1>10, <1>11, <1>12, <1>13 DEF IInv

LEMMA NodesInvariant == Spec => []IInv
<1>1. Init => IInv
  BY InitInvariant
<1>2. IInv /\ [Next]_vars => IInv'
  <2> SUFFICES ASSUME IInv, [Next]_vars PROVE IInv'
    OBVIOUS
  <2>1. CASE Measure
    BY <2>1, MeasureInvariant
  <2>2. CASE Use
    BY <2>2, UseInvariant
  <2>3. CASE Place
    BY <2>3, PlaceInvariant
  <2>4. CASE Measured \/ Used \/ Placed
    BY <2>4, PhaseInvariant
  <2>5. CASE UNCHANGED vars
    BY <2>5 DEF vars, inputs, sums, IInv, Numbers, Roomy, Frontier,
                PlacedInside, End
  <2> QED
    BY <2>1, <2>2, <2>3, <2>4, <2>5 DEF Next
<1> QED
  BY <1>1, <1>2, PTL DEF Spec

(* No child is printed over the edge of its parent's area or over another  *)
(* child, whatever the children ask for.                                   *)
THEOREM NodesPlacedInside == Spec => []PlacedInside
<1>1. IInv => PlacedInside
  BY DEF IInv
<1> QED
  BY <1>1, NodesInvariant, PTL

(* A quotient by zero counts as zero; any other leaves less than a divisor. *)
LEMMA DivSplit ==
  ASSUME NEW a \in Nat, NEW b \in Nat
  PROVE  /\ DIV_OR_ZERO(a, b) \in Nat
         /\ DIV_OR_ZERO(a, b) * b <= a
         /\ b = 0 => DIV_OR_ZERO(a, b) = 0
         /\ b > 0 => a - DIV_OR_ZERO(a, b) * b < b
<1>1. CASE b = 0
  BY <1>1 DEF DIV_OR_ZERO
<1>2. CASE b # 0
  <2>1. /\ a \div b \in Nat
        /\ (a \div b) * b <= a
        /\ a - (a \div b) * b < b
    BY <1>2, Z3
  <2> QED
    BY <1>2, <2>1 DEF DIV_OR_ZERO
<1> QED
  BY <1>1, <1>2

LEMMA TimesMonotone ==
  ASSUME NEW a \in Nat, NEW b \in Nat, NEW c \in Nat, a <= b
  PROVE  c * a \in Nat /\ c * b \in Nat /\ c * a <= c * b
<1>1. PICK d \in Nat : b = a + d
  <2>1. b - a \in Nat /\ b = a + (b - a)
    OBVIOUS
  <2> QED
    BY <2>1
<1>2. c * b = c * a + c * d
  BY <1>1
<1>3. c * a \in Nat /\ c * d \in Nat
  BY <1>1
<1> QED
  BY <1>2, <1>3

LEMMA TimesZero ==
  ASSUME NEW c \in Nat
  PROVE  c * 0 = 0
  OBVIOUS

LEMMA TimesNext ==
  ASSUME NEW a \in Nat, NEW c \in Nat
  PROVE  c * (a + 1) = c * a + c
  OBVIOUS

\* f adds up the first k of the natural numbers v, and thus never falls.
PartialSums(f, v, k) ==
  /\ f \in [0..k -> Nat]
  /\ f[0] = 0
  /\ \A i \in 1..k : f[i] = f[i - 1] + v[i]
  /\ \A i, j \in 0..k : i <= j => f[i] <= f[j]

LEMMA EmptySum ==
  ASSUME NEW v
  PROVE  PartialSums([i \in 0..0 |-> 0], v, 0)
  BY DEF PartialSums

LEMMA SumAt ==
  ASSUME NEW k \in Nat, NEW f, NEW v, PartialSums(f, v, k), NEW i \in 1..k
  PROVE  /\ i \in 0..k /\ i - 1 \in 0..k
         /\ f[i - 1] \in Nat /\ f[i] \in Nat /\ f[k] \in Nat
         /\ f[i] = f[i - 1] + v[i] /\ f[i] <= f[k]
<1>1. i \in 0..k /\ i - 1 \in 0..k /\ k \in 0..k
  OBVIOUS
<1>2. \A j \in 0..k : f[j] \in Nat
  BY DEF PartialSums
<1>3. f[i] = f[i - 1] + v[i]
  BY DEF PartialSums
<1>4. f[i] <= f[k]
  BY <1>1 DEF PartialSums
<1> QED
  BY <1>1, <1>2, <1>3, <1>4

LEMMA NextSum ==
  ASSUME NEW k \in Nat \ {0}, NEW f, NEW v, PartialSums(f, v, k - 1), v[k] \in Nat
  PROVE  \E g : /\ PartialSums(g, v, k)
                /\ g[k] = f[k - 1] + v[k]
<1> DEFINE g == [i \in 0..k |-> IF i = k THEN f[k - 1] + v[k] ELSE f[i]]
<1>1. \A i \in 0..k - 1 : f[i] \in Nat
  BY DEF PartialSums
<1>2. /\ g \in [0..k -> Nat]
      /\ g[k] = f[k - 1] + v[k]
      /\ \A i \in 0..k - 1 : g[i] = f[i]
  BY <1>1
<1> HIDE DEF g
<1>3. g[0] = 0
  BY <1>2 DEF PartialSums
<1>4. \A i \in 1..k : g[i] = g[i - 1] + v[i]
  <2> SUFFICES ASSUME NEW i \in 1..k PROVE g[i] = g[i - 1] + v[i]
    OBVIOUS
  <2>1. CASE i = k
    BY <1>2, <2>1
  <2>2. CASE i # k
    <3>1. i \in 1..k - 1 /\ i \in 0..k - 1 /\ i - 1 \in 0..k - 1
      BY <2>2
    <3> QED
      BY <1>2, <3>1 DEF PartialSums
  <2> QED
    BY <2>1, <2>2
<1>5. \A i, j \in 0..k : i <= j => g[i] <= g[j]
  <2> SUFFICES ASSUME NEW i \in 0..k, NEW j \in 0..k, i <= j
               PROVE  g[i] <= g[j]
    OBVIOUS
  <2>1. CASE j # k
    <3>1. i \in 0..k - 1 /\ j \in 0..k - 1
      BY <2>1
    <3> QED
      BY <1>2, <3>1 DEF PartialSums
  <2>2. CASE j = k /\ i # k
    <3>1. i \in 0..k - 1 /\ k - 1 \in 0..k - 1
      BY <2>2
    <3>2. f[i] <= f[k - 1] /\ f[i] \in Nat /\ f[k - 1] \in Nat
      BY <1>1, <3>1 DEF PartialSums
    <3> QED
      BY <1>2, <2>2, <3>1, <3>2
  <2>3. CASE j = k /\ i = k
    BY <1>2, <2>3
  <2> QED
    BY <2>1, <2>2, <2>3
<1> QED
  BY <1>2, <1>3, <1>4, <1>5 DEF PartialSums

-----------------------------------------------------------------------------

\* What the three loops add up, child by child.
need == [i \in 1..Len(nodes) |-> AtLeast(nodes[i].required, nodes[i].basis)]
expand == [i \in 1..Len(nodes) |-> nodes[i].expand]
one == [i \in 1..Len(nodes) |-> IF nodes[i].expand # 0 THEN 1 ELSE 0]
shared == [i \in 1..Len(nodes) |-> SharedSize(nodes[i])]

Totals(f, g, h) ==
  LET k == IF phase = "measure" THEN curr - 1 ELSE Len(nodes)
  IN  /\ PartialSums(f, need, k) /\ min_sizes_sum = f[k]
      /\ PartialSums(g, expand, k) /\ expand_sum = g[k]
      /\ PartialSums(h, one, k) /\ expanded_nodes_amount = h[k]
      /\ expand_sum > 0 => expanded_nodes_amount > 0

Shares(f, g, s) ==
  LET k == IF phase = "use" THEN curr - 1 ELSE Len(nodes)
  IN  phase # "measure" =>
        /\ PartialSums(s, shared, k) /\ size_used = s[k]
        /\ size_used <= f[k] + expand_to_chars * g[k]

\* Where the first i children end, uncut.
Reach(h, s, i) == s[i] + leftover_base * h[i] + AtMost(h[i], leftover_leftover)

Positions(h, s) ==
  phase \in {"place", "done"} =>
    LET k == Len(placed)
    IN  /\ k <= Len(nodes)
        /\ curr_pos = Reach(h, s, k) /\ curr_weighted_node_index = h[k]
        /\ phase = "place" => curr = k + 1
        /\ phase = "done" => k = Len(nodes) \/ (k > 0 /\ curr_pos >= size)
        /\ \A i \in 1..k :
             LET at == Reach(h, s, i - 1)
             IN  placed[i] = [at   |-> at,
                              size |-> AtMost(Reach(h, s, i) - at, size - at)]

Summed == \E f, g, h, s : Totals(f, g, h) /\ Shares(f, g, s) /\ Positions(h, s)

\* Nothing is used before the second loop, nothing placed before the third.
Untouched ==
  /\ phase = "measure" => size_used = 0
  /\ phase \in {"measure", "use"} => curr_pos = 0 /\ curr_weighted_node_index = 0

Capped == phase # "measure" => max_size = AtLeast(size, min_sizes_sum)

SumInv == IInv /\ Untouched /\ Capped /\ Summed

LEMMA ValuesNat ==
  ASSUME Numbers, NEW i \in 1..Len(nodes)
  PROVE  /\ nodes[i].required \in Nat /\ nodes[i].basis \in Nat
         /\ nodes[i].expand \in Nat
         /\ need[i] \in Nat /\ expand[i] \in Nat /\ one[i] \in Nat
         /\ need[i] = AtLeast(nodes[i].required, nodes[i].basis)
         /\ expand[i] = nodes[i].expand
         /\ one[i] = IF nodes[i].expand # 0 THEN 1 ELSE 0
         /\ shared[i] = SharedSize(nodes[i])
<1>1. nodes[i] \in Node
  BY DEF Numbers
<1>2. /\ nodes[i].required \in Nat /\ nodes[i].basis \in Nat
      /\ nodes[i].expand \in Nat
  BY <1>1, BoundsAssumption DEF Node
<1> QED
  BY <1>2 DEF need, expand, one, shared, AtLeast

LEMMA ExpandUnit ==
  ASSUME IInv, phase # "measure"
  PROVE  /\ expand_to_chars \in Nat
         /\ min_sizes_sum + expand_to_chars * expand_sum <= max_size
<1>1. max_size - min_sizes_sum \in Nat /\ expand_sum \in Nat
      /\ max_size \in Nat /\ min_sizes_sum \in Nat
  BY DEF IInv, Numbers, Roomy
<1> DEFINE room == max_size - min_sizes_sum
<1>2. /\ DIV_OR_ZERO(room, expand_sum) \in Nat
      /\ DIV_OR_ZERO(room, expand_sum) * expand_sum <= room
  BY <1>1, DivSplit
<1>3. expand_to_chars \in Nat /\ expand_to_chars * expand_sum <= room
  BY <1>2 DEF expand_to_chars
<1>4. expand_to_chars * expand_sum \in Nat
  BY <1>1, <1>3, Product
<1> QED
  BY <1>1, <1>3, <1>4

(* A child gets what it needs, and at most its part of the area more.      *)
LEMMA SharedBounds ==
  ASSUME IInv, phase # "measure", NEW i \in 1..Len(nodes)
  PROVE  /\ shared[i] \in Nat
         /\ need[i] <= shared[i]
         /\ shared[i] <= need[i] + expand_to_chars * expand[i]
<1>1. /\ nodes[i].required \in Nat /\ nodes[i].basis \in Nat
      /\ nodes[i].expand \in Nat
      /\ need[i] = AtLeast(nodes[i].required, nodes[i].basis)
      /\ expand[i] = nodes[i].expand
      /\ shared[i] = SharedSize(nodes[i])
  BY ValuesNat DEF IInv
<1>2. expand_to_chars \in Nat
  BY ExpandUnit
<1> DEFINE part == nodes[i].expand * expand_to_chars
<1>3. part \in Nat /\ part = expand_to_chars * expand[i]
  BY <1>1, <1>2, Product
<1>4. SharedSize(nodes[i]) = AtLeast(part + nodes[i].basis, nodes[i].required)
  BY DEF SharedSize
<1> HIDE DEF part
<1> QED
  BY <1>1, <1>3, <1>4 DEF AtLeast

(* The second loop never uses more than the area, enlarged if need be.     *)
LEMMA UsedFits ==
  ASSUME IInv, phase # "measure", NEW f, NEW g, NEW h, NEW s,
         Totals(f, g, h), Shares(f, g, s)
  PROVE  size_used <= max_size
<1> DEFINE k == IF phase = "use" THEN curr - 1 ELSE Len(nodes)
           n == Len(nodes)
<1>1. n \in Nat /\ k \in 0..n /\ n \in 0..n
  BY DEF IInv, Numbers
<1>2. /\ f[k] \in Nat /\ f[n] \in Nat /\ f[k] <= f[n] /\ f[n] = min_sizes_sum
      /\ g[k] \in Nat /\ g[n] \in Nat /\ g[k] <= g[n] /\ g[n] = expand_sum
  BY <1>1 DEF Totals, PartialSums
<1>3. size_used <= f[k] + expand_to_chars * g[k]
  BY DEF Shares
<1>4. size_used \in Nat /\ max_size \in Nat
  BY DEF IInv, Numbers
<1> HIDE DEF k, n
<1>5. /\ expand_to_chars * g[k] \in Nat /\ expand_to_chars * g[n] \in Nat
      /\ expand_to_chars * g[k] <= expand_to_chars * g[n]
  BY <1>2, ExpandUnit, TimesMonotone
<1>6. f[n] + expand_to_chars * g[n] <= max_size
  BY <1>2, ExpandUnit
<1> QED
  BY <1>2, <1>3, <1>4, <1>5, <1>6

(* What is left over is handed out to the last cell.                       *)
LEMMA LeftoverSplit ==
  ASSUME Numbers, size_used <= max_size
  PROVE  /\ leftover_base \in Nat /\ leftover_leftover \in Nat
         /\ expanded_nodes_amount = 0 => leftover_base = 0
         /\ expanded_nodes_amount > 0 => leftover_leftover < expanded_nodes_amount
         /\ size_used + leftover_base * expanded_nodes_amount + leftover_leftover
              = max_size
<1>1. /\ size_used \in Nat /\ max_size \in Nat /\ expanded_nodes_amount \in Nat
      /\ total_leftover \in Nat /\ total_leftover = max_size - size_used
  BY DEF Numbers, total_leftover, SUB_OR_ZERO
<1>2. /\ leftover_base \in Nat
      /\ leftover_base * expanded_nodes_amount <= total_leftover
      /\ expanded_nodes_amount = 0 => leftover_base = 0
      /\ expanded_nodes_amount > 0 =>
           total_leftover - leftover_base * expanded_nodes_amount
             < expanded_nodes_amount
  BY <1>1, DivSplit DEF leftover_base
<1>3. leftover_base * expanded_nodes_amount \in Nat
  BY <1>1, <1>2, Product
<1> QED
  BY <1>1, <1>2, <1>3 DEF leftover_leftover

\* What a child gets of the leftover, the h-th child that expands.
LeftoverAt(i, h) ==
  IF nodes[i].expand = 0 THEN 0
  ELSE leftover_base + (IF h < leftover_leftover THEN 1 ELSE 0)

LEMMA StepOrder ==
  ASSUME NEW a \in Nat, NEW b \in Nat, NEW c \in Nat,
         NEW x \in Nat, NEW y \in Nat, NEW z \in Nat
  PROVE  a + x + (b + y) + (c + z) = a + b + c + x + (y + z)
  OBVIOUS

(* One more child reaches further by its share and its part of the         *)
(* leftover, which is what Place gives it.                                 *)
LEMMA ReachNext ==
  ASSUME IInv, phase # "measure", NEW h, NEW s,
         PartialSums(h, one, Len(nodes)), PartialSums(s, shared, Len(nodes)),
         leftover_base \in Nat, leftover_leftover \in Nat,
         NEW i \in 1..Len(nodes)
  PROVE  /\ LeftoverAt(i, h[i - 1]) \in Nat
         /\ Reach(h, s, i) =
              Reach(h, s, i - 1) + shared[i] + LeftoverAt(i, h[i - 1])
<1>1. /\ s[i - 1] \in Nat /\ s[i] = s[i - 1] + shared[i]
      /\ h[i - 1] \in Nat /\ h[i] = h[i - 1] + one[i]
      /\ shared[i] \in Nat
  <2>1. i - 1 \in 0..Len(nodes)
    BY DEF IInv, Numbers
  <2> QED
    BY <2>1, SharedBounds DEF PartialSums
<1>2. one[i] = (IF nodes[i].expand # 0 THEN 1 ELSE 0)
  BY ValuesNat DEF IInv
<1> DEFINE base(j) == leftover_base * h[j]
           odd(j) == AtMost(h[j], leftover_leftover)
<1>3. base(i - 1) \in Nat /\ odd(i - 1) \in Nat
  BY <1>1, Product DEF AtMost
<1>4. /\ Reach(h, s, i) = s[i] + base(i) + odd(i)
      /\ Reach(h, s, i - 1) = s[i - 1] + base(i - 1) + odd(i - 1)
  BY DEF Reach
<1>5. CASE nodes[i].expand = 0
  <2>1. base(i) = base(i - 1) /\ odd(i) = odd(i - 1)
    BY <1>1, <1>2, <1>5
  <2> HIDE DEF base, odd
  <2> QED
    BY <1>1, <1>3, <1>4, <1>5, <2>1 DEF LeftoverAt
<1>6. CASE nodes[i].expand # 0
  <2> DEFINE more == IF h[i - 1] < leftover_leftover THEN 1 ELSE 0
  <2>1. h[i] = h[i - 1] + 1
    BY <1>1, <1>2, <1>6
  <2>2. base(i) = base(i - 1) + leftover_base
    BY <1>1, <2>1, TimesNext
  <2>3. odd(i) = odd(i - 1) + more /\ more \in Nat
    BY <1>1, <2>1 DEF AtMost
  <2>4. LeftoverAt(i, h[i - 1]) = leftover_base + more
    BY <1>6 DEF LeftoverAt
  <2> HIDE DEF base, odd, more
  <2>5. s[i - 1] + shared[i] + (base(i - 1) + leftover_base) + (odd(i - 1) + more)
          = s[i - 1] + base(i - 1) + odd(i - 1) + shared[i] + (leftover_base + more)
    <3>1. /\ s[i - 1] \in Nat /\ base(i - 1) \in Nat /\ odd(i - 1) \in Nat
          /\ shared[i] \in Nat /\ leftover_base \in Nat /\ more \in Nat
      BY <1>1, <1>3, <2>3
    <3> QED
      BY <3>1, StepOrder, SMTT(30)
  <2>6. Reach(h, s, i)
          = s[i - 1] + shared[i] + (base(i - 1) + leftover_base) + (odd(i - 1) + more)
    BY <1>1, <1>4, <2>2, <2>3, Zenon
  <2>7. LeftoverAt(i, h[i - 1]) \in Nat
    BY <2>3, <2>4
  <2>8. s[i - 1] + base(i - 1) + odd(i - 1) + shared[i] + (leftover_base + more)
          = Reach(h, s, i - 1) + shared[i] + LeftoverAt(i, h[i - 1])
    BY <1>4, <2>4, Zenon
  <2>9. Reach(h, s, i) =
          Reach(h, s, i - 1) + shared[i] + LeftoverAt(i, h[i - 1])
    BY <2>5, <2>6, <2>8, Zenon
  <2> QED
    BY <2>7, <2>9
<1> QED
  BY <1>5, <1>6

LEMMA ThreeNat ==
  ASSUME NEW a \in Nat, NEW b \in Nat, NEW c \in Nat
  PROVE  a + b + c \in Nat
  OBVIOUS

LEMMA SumOrder ==
  ASSUME NEW a \in Nat, NEW b \in Nat, NEW c \in Nat, NEW d \in Nat,
         NEW e \in Nat, NEW f \in Nat, a <= b, c <= d, e <= f
  PROVE  a + c + e + b <= b + d + f + a /\ a + c + e <= b + d + f
  OBVIOUS

(* A later child ends no earlier, by at least the shares in between.       *)
LEMMA ReachMonotone ==
  ASSUME IInv, phase # "measure", NEW h, NEW s,
         PartialSums(h, one, Len(nodes)), PartialSums(s, shared, Len(nodes)),
         leftover_base \in Nat, leftover_leftover \in Nat,
         NEW i \in 0..Len(nodes), NEW j \in 0..Len(nodes), i <= j
  PROVE  /\ Reach(h, s, i) \in Nat /\ Reach(h, s, j) \in Nat
         /\ s[i] \in Nat /\ s[j] \in Nat
         /\ Reach(h, s, i) + s[j] <= Reach(h, s, j) + s[i]
         /\ Reach(h, s, i) <= Reach(h, s, j)
         /\ s[i] <= s[j]
<1>1. /\ s[i] \in Nat /\ s[j] \in Nat /\ s[i] <= s[j]
      /\ h[i] \in Nat /\ h[j] \in Nat /\ h[i] <= h[j]
  BY DEF PartialSums
<1> DEFINE base(k) == leftover_base * h[k]
           odd(k) == AtMost(h[k], leftover_leftover)
<1>2. base(i) \in Nat /\ base(j) \in Nat /\ base(i) <= base(j)
  BY <1>1, TimesMonotone
<1>3. odd(i) \in Nat /\ odd(j) \in Nat /\ odd(i) <= odd(j)
  BY <1>1 DEF AtMost
<1>4. /\ Reach(h, s, i) = s[i] + base(i) + odd(i)
      /\ Reach(h, s, j) = s[j] + base(j) + odd(j)
  BY DEF Reach
<1> HIDE DEF base, odd
<1>5. /\ s[i] + base(i) + odd(i) \in Nat
      /\ s[j] + base(j) + odd(j) \in Nat
  BY <1>1, <1>2, <1>3, ThreeNat
<1>6. s[i] + base(i) + odd(i) + s[j] <= s[j] + base(j) + odd(j) + s[i]
  BY <1>1, <1>2, <1>3, SumOrder
<1>7. s[i] + base(i) + odd(i) <= s[j] + base(j) + odd(j)
  BY <1>1, <1>2, <1>3, SumOrder
<1> QED
  BY <1>1, <1>4, <1>5, <1>6, <1>7

(* All children together end where the area, enlarged if need be, ends, or *)
(* before it when none expands.                                            *)
LEMMA ReachEnd ==
  ASSUME IInv, phase \in {"place", "done"}, NEW f, NEW g, NEW h, NEW s,
         Totals(f, g, h), Shares(f, g, s)
  PROVE  /\ PartialSums(h, one, Len(nodes)) /\ PartialSums(s, shared, Len(nodes))
         /\ leftover_base \in Nat /\ leftover_leftover \in Nat
         /\ Reach(h, s, Len(nodes)) <= max_size
         /\ expand_sum > 0 => Reach(h, s, Len(nodes)) = max_size
<1> DEFINE n == Len(nodes)
<1>1. n \in Nat /\ n \in 0..n
  BY DEF IInv, Numbers
<1>2. /\ PartialSums(h, one, n) /\ PartialSums(s, shared, n)
      /\ s[n] = size_used /\ h[n] = expanded_nodes_amount
      /\ expand_sum > 0 => expanded_nodes_amount > 0
  BY DEF Totals, Shares
<1>3. size_used <= max_size
  BY UsedFits
<1>4. /\ size_used \in Nat /\ expanded_nodes_amount \in Nat /\ max_size \in Nat
  BY DEF IInv, Numbers
<1>5. /\ leftover_base \in Nat /\ leftover_leftover \in Nat
      /\ expanded_nodes_amount = 0 => leftover_base = 0
      /\ expanded_nodes_amount > 0 => leftover_leftover < expanded_nodes_amount
      /\ size_used + leftover_base * expanded_nodes_amount + leftover_leftover
           = max_size
  BY <1>3, LeftoverSplit DEF IInv
<1>6. Reach(h, s, n) = size_used + leftover_base * expanded_nodes_amount
                         + AtMost(expanded_nodes_amount, leftover_leftover)
  BY <1>2 DEF Reach
<1>7. leftover_base * expanded_nodes_amount \in Nat
  BY <1>4, <1>5, Product
<1>8. AtMost(expanded_nodes_amount, leftover_leftover) <= leftover_leftover
  BY <1>4, <1>5 DEF AtMost
<1>9. AtMost(expanded_nodes_amount, leftover_leftover) \in Nat
  BY <1>4, <1>5 DEF AtMost
<1>10. Reach(h, s, n) <= max_size
  BY <1>4, <1>5, <1>6, <1>7, <1>8, <1>9
<1>11. expand_sum > 0 => Reach(h, s, n) = max_size
  <2> SUFFICES ASSUME expand_sum > 0 PROVE Reach(h, s, n) = max_size
    OBVIOUS
  <2>1. AtMost(expanded_nodes_amount, leftover_leftover) = leftover_leftover
    BY <1>2, <1>4, <1>5 DEF AtMost
  <2> QED
    BY <1>5, <1>6, <2>1
<1> QED
  BY <1>2, <1>5, <1>10, <1>11

-----------------------------------------------------------------------------

LEMMA InitSums == Init => Summed /\ Untouched /\ Capped
<1> SUFFICES ASSUME Init PROVE Summed /\ Untouched /\ Capped
  OBVIOUS
<1> DEFINE zero == [i \in 0..0 |-> 0]
<1>1. Totals(zero, zero, zero)
  <2>1. /\ PartialSums(zero, need, 0) /\ PartialSums(zero, expand, 0)
        /\ PartialSums(zero, one, 0) /\ zero[0] = 0
    BY EmptySum
  <2> HIDE DEF zero
  <2> QED
    BY <2>1 DEF Init, Totals
<1>2. Shares(zero, zero, zero) /\ Positions(zero, zero)
  BY DEF Init, Shares, Positions
<1> QED
  BY <1>1, <1>2 DEF Summed, Init, Untouched, Capped

LEMMA CountedOnce ==
  ASSUME NEW e \in Nat, NEW a \in Nat, NEW x \in Nat, NEW o \in Nat,
         e > 0 => a > 0, x > 0 => o = 1
  PROVE  e + x > 0 => a + o > 0
  OBVIOUS

LEMMA MeasureSums ==
  ASSUME SumInv, Measure
  PROVE  Summed' /\ Untouched' /\ Capped'
<1>1. PICK f, g, h, s : Totals(f, g, h)
  BY DEF SumInv, Summed
<1>2. /\ phase = "measure" /\ phase' = "measure"
      /\ curr \in 1..Len(nodes) /\ curr \in Nat \ {0} /\ curr' - 1 = curr
      /\ UNCHANGED <<nodes, size_used, curr_pos, curr_weighted_node_index>>
  BY DEF Measure, inputs, SumInv, IInv, Numbers
<1>3. /\ need[curr] \in Nat /\ expand[curr] \in Nat /\ one[curr] \in Nat
      /\ expand[curr] > 0 => one[curr] = 1
      /\ min_sizes_sum' = min_sizes_sum + need[curr]
      /\ expand_sum' = expand_sum + expand[curr]
      /\ expanded_nodes_amount' = expanded_nodes_amount + one[curr]
  BY <1>2, ValuesNat DEF Measure, Child, SumInv, IInv
<1>4. /\ PartialSums(f, need, curr - 1) /\ min_sizes_sum = f[curr - 1]
      /\ PartialSums(g, expand, curr - 1) /\ expand_sum = g[curr - 1]
      /\ PartialSums(h, one, curr - 1) /\ expanded_nodes_amount = h[curr - 1]
      /\ expand_sum > 0 => expanded_nodes_amount > 0
  BY <1>1, <1>2 DEF Totals
<1>5. PICK f2 : PartialSums(f2, need, curr) /\ f2[curr] = f[curr - 1] + need[curr]
  BY <1>2, <1>3, <1>4, NextSum
<1>6. PICK g2 : /\ PartialSums(g2, expand, curr)
                /\ g2[curr] = g[curr - 1] + expand[curr]
  BY <1>2, <1>3, <1>4, NextSum
<1>7. PICK h2 : PartialSums(h2, one, curr) /\ h2[curr] = h[curr - 1] + one[curr]
  BY <1>2, <1>3, <1>4, NextSum
<1>8. need' = need /\ expand' = expand /\ one' = one
  BY <1>2 DEF need, expand, one
<1>9. expand_sum' > 0 => expanded_nodes_amount' > 0
  <2>1. expand_sum \in Nat /\ expanded_nodes_amount \in Nat
    BY DEF SumInv, IInv, Numbers
  <2> QED
    BY <1>3, <1>4, <2>1, CountedOnce
<1>10. Totals(f2, g2, h2)'
  BY <1>2, <1>3, <1>4, <1>5, <1>6, <1>7, <1>8, <1>9 DEF Totals
<1>11. Shares(f2, g2, s)' /\ Positions(h2, s)'
  BY <1>2 DEF Shares, Positions
<1>12. Untouched' /\ Capped'
  BY <1>2 DEF Untouched, Capped, SumInv
<1> QED
  BY <1>10, <1>11, <1>12 DEF Summed

LEMMA MeasuredSums ==
  ASSUME SumInv, Measured
  PROVE  Summed' /\ Untouched' /\ Capped'
<1>1. PICK f, g, h, s : Totals(f, g, h)
  BY DEF SumInv, Summed
<1>2. /\ phase = "measure" /\ phase' = "use"
      /\ curr - 1 = Len(nodes) /\ curr' - 1 = 0
      /\ max_size' = AtLeast(size, min_sizes_sum)
      /\ UNCHANGED <<nodes, size, min_sizes_sum, expand_sum,
                     expanded_nodes_amount, size_used, curr_pos,
                     curr_weighted_node_index>>
  BY DEF Measured, inputs, SumInv, IInv, Numbers
<1>3. need' = need /\ expand' = expand /\ one' = one
  BY <1>2 DEF need, expand, one
<1>4. Totals(f, g, h)'
  BY <1>1, <1>2, <1>3 DEF Totals
<1> DEFINE zero == [i \in 0..0 |-> 0]
<1>5. Shares(f, g, zero)'
  <2>1. PartialSums(zero, shared', 0) /\ zero[0] = 0
    BY EmptySum
  <2> HIDE DEF zero
  <2>2. f[0] = 0 /\ g[0] = 0
    BY <1>1 DEF Totals, PartialSums
  <2>3. expand_to_chars' \in Nat
    <3>1. max_size' - min_sizes_sum' \in Nat /\ expand_sum' \in Nat
      BY <1>2 DEF SumInv, IInv, Numbers, AtLeast
    <3> QED
      BY <3>1, DivSplit DEF expand_to_chars
  <2>4. expand_to_chars' * 0 = 0
    BY <2>3, TimesZero
  <2>5. size_used' = 0
    BY <1>2 DEF SumInv, Untouched
  <2> QED
    BY <1>2, <2>1, <2>2, <2>4, <2>5 DEF Shares
<1>6. Positions(h, zero)'
  BY <1>2 DEF Positions
<1>7. Untouched' /\ Capped'
  BY <1>2 DEF SumInv, Untouched, Capped
<1> QED
  BY <1>4, <1>5, <1>6, <1>7 DEF Summed

LEMMA UseSums ==
  ASSUME SumInv, Use
  PROVE  Summed' /\ Untouched' /\ Capped'
<1>1. PICK f, g, h, s : Totals(f, g, h) /\ Shares(f, g, s)
  BY DEF SumInv, Summed
<1>2. /\ phase = "use" /\ phase' = "use"
      /\ curr \in 1..Len(nodes) /\ curr \in Nat \ {0} /\ curr' - 1 = curr
      /\ size_used' = size_used + SharedSize(Child)
      /\ UNCHANGED <<inputs, sums, curr_pos, curr_weighted_node_index>>
  BY DEF Use, SumInv, IInv, Numbers
<1>3. /\ need' = need /\ expand' = expand /\ one' = one
      /\ expand_to_chars' = expand_to_chars /\ shared' = shared
  BY <1>2 DEF need, expand, one, shared, SharedSize, expand_to_chars, inputs, sums
<1>4. Totals(f, g, h)'
  BY <1>1, <1>2, <1>3 DEF Totals, inputs, sums
<1>5. /\ shared[curr] \in Nat /\ need[curr] \in Nat /\ expand[curr] \in Nat
      /\ shared[curr] <= need[curr] + expand_to_chars * expand[curr]
      /\ SharedSize(Child) = shared[curr]
      /\ expand_to_chars \in Nat
  BY <1>2, ValuesNat, SharedBounds, ExpandUnit DEF SumInv, IInv, Child
<1>6. /\ PartialSums(s, shared, curr - 1) /\ size_used = s[curr - 1]
      /\ size_used <= f[curr - 1] + expand_to_chars * g[curr - 1]
  BY <1>1, <1>2 DEF Shares
<1>7. PICK s2 : PartialSums(s2, shared, curr) /\ s2[curr] = s[curr - 1] + shared[curr]
  BY <1>2, <1>5, <1>6, NextSum
<1>8. /\ f[curr] = f[curr - 1] + need[curr] /\ f[curr - 1] \in Nat
      /\ g[curr] = g[curr - 1] + expand[curr] /\ g[curr - 1] \in Nat
  <2>1. curr - 1 \in 0..Len(nodes)
    BY <1>2
  <2> QED
    BY <1>1, <1>2, <2>1 DEF Totals, PartialSums
<1>9. expand_to_chars * g[curr] =
        expand_to_chars * g[curr - 1] + expand_to_chars * expand[curr]
  BY <1>5, <1>8
<1>10. size_used' <= f[curr] + expand_to_chars * g[curr]
  <2>1. expand_to_chars * g[curr - 1] \in Nat /\ expand_to_chars * expand[curr] \in Nat
    BY <1>5, <1>8, Product
  <2>2. size_used \in Nat /\ size_used' = size_used + shared[curr]
    BY <1>2, <1>5 DEF SumInv, IInv, Numbers
  <2> QED
    BY <1>5, <1>6, <1>8, <1>9, <2>1, <2>2
<1>11. Shares(f, g, s2)'
  BY <1>2, <1>3, <1>5, <1>6, <1>7, <1>10 DEF Shares
<1>12. Positions(h, s2)'
  BY <1>2 DEF Positions
<1>13. Untouched' /\ Capped'
  BY <1>2 DEF SumInv, Untouched, Capped, inputs, sums
<1> QED
  BY <1>4, <1>11, <1>12, <1>13 DEF Summed

LEMMA UsedSums ==
  ASSUME SumInv, Used
  PROVE  Summed' /\ Untouched' /\ Capped'
<1>1. PICK f, g, h, s : Totals(f, g, h) /\ Shares(f, g, s)
  BY DEF SumInv, Summed
<1>2. /\ phase = "use" /\ phase' = "place" /\ placed = <<>>
      /\ curr - 1 = Len(nodes) /\ curr' = 1
      /\ UNCHANGED <<inputs, sums, size_used, curr_pos,
                     curr_weighted_node_index, placed>>
  BY DEF Used, SumInv, IInv, Numbers, Frontier
<1>3. /\ need' = need /\ expand' = expand /\ one' = one
      /\ expand_to_chars' = expand_to_chars /\ shared' = shared
      /\ leftover_base' = leftover_base /\ leftover_leftover' = leftover_leftover
  BY <1>2 DEF need, expand, one, shared, SharedSize, expand_to_chars,
              leftover_base, leftover_leftover, total_leftover, inputs, sums
<1>4. Totals(f, g, h)' /\ Shares(f, g, s)'
  BY <1>1, <1>2, <1>3 DEF Totals, Shares, inputs, sums
<1>5. Positions(h, s)'
  <2>1. leftover_base \in Nat /\ leftover_leftover \in Nat
    BY <1>1, <1>2, UsedFits, LeftoverSplit DEF SumInv, IInv
  <2>2. s[0] = 0 /\ h[0] = 0
    BY <1>1, <1>2 DEF Totals, Shares, PartialSums
  <2>3. Reach(h, s, 0)' = 0
    BY <1>3, <2>1, <2>2 DEF Reach, AtMost
  <2>4. curr_pos' = 0 /\ curr_weighted_node_index' = 0
    BY <1>2 DEF SumInv, Untouched
  <2>5. Len(placed') = 0 /\ Len(nodes') \in Nat
    BY <1>2 DEF SumInv, IInv, Numbers, inputs
  <2> QED
    BY <1>2, <2>2, <2>3, <2>4, <2>5 DEF Positions
<1>6. Untouched' /\ Capped'
  BY <1>2 DEF SumInv, Untouched, Capped, inputs, sums
<1> QED
  BY <1>4, <1>5, <1>6 DEF Summed

LEMMA PlaceSums ==
  ASSUME SumInv, Place
  PROVE  Summed' /\ Untouched' /\ Capped'
<1>1. PICK f, g, h, s :
        Totals(f, g, h) /\ Shares(f, g, s) /\ Positions(h, s)
  BY DEF SumInv, Summed
<1> DEFINE last == [at   |-> curr_pos,
                    size |-> AtMost(SharedSize(Child) + Leftover(Child),
                                    size - curr_pos)]
<1>2. /\ phase = "place" /\ phase' \in {"place", "done"}
      /\ phase' = "done" => curr_pos' >= size
      /\ curr \in 1..Len(nodes) /\ curr' = curr + 1
      /\ placed' = Append(placed, last)
      /\ curr_pos' = curr_pos + (SharedSize(Child) + Leftover(Child))
      /\ UNCHANGED <<inputs, sums, size_used>>
  BY DEF Place, SumInv, IInv, Numbers
<1>3. /\ need' = need /\ expand' = expand /\ one' = one
      /\ expand_to_chars' = expand_to_chars /\ shared' = shared
      /\ leftover_base' = leftover_base /\ leftover_leftover' = leftover_leftover
  BY <1>2 DEF need, expand, one, shared, SharedSize, expand_to_chars,
              leftover_base, leftover_leftover, total_leftover, inputs, sums
<1>4. Totals(f, g, h)' /\ Shares(f, g, s)'
  BY <1>1, <1>2, <1>3 DEF Totals, Shares, inputs, sums
<1>5. /\ PartialSums(h, one, Len(nodes)) /\ PartialSums(s, shared, Len(nodes))
      /\ leftover_base \in Nat /\ leftover_leftover \in Nat
  BY <1>1, <1>2, ReachEnd DEF SumInv
<1>6. /\ Len(placed) = curr - 1 /\ Len(placed') = curr
      /\ \A i \in 1..curr - 1 : placed'[i] = placed[i]
      /\ placed'[curr] = last
  <2>1. placed \in Seq([at : Nat, size : Nat]) /\ Len(placed) = curr - 1
    BY <1>1, <1>2 DEF SumInv, IInv, Numbers, Positions
  <2> HIDE DEF last
  <2> QED
    BY <1>2, <2>1
<1>7. curr_pos = Reach(h, s, curr - 1) /\ curr_weighted_node_index = h[curr - 1]
  BY <1>1, <1>2, <1>6 DEF Positions
<1>8. /\ SharedSize(Child) = shared[curr]
      /\ Leftover(Child) = LeftoverAt(curr, h[curr - 1])
  BY <1>2, <1>7, ValuesNat DEF SumInv, IInv, Child, Leftover, LeftoverAt
<1>9. /\ shared[curr] \in Nat /\ LeftoverAt(curr, h[curr - 1]) \in Nat
      /\ Reach(h, s, curr) =
           Reach(h, s, curr - 1) + shared[curr] + LeftoverAt(curr, h[curr - 1])
  BY <1>2, <1>5, ReachNext, SharedBounds DEF SumInv
<1>10. Reach(h, s, curr - 1) \in Nat
  <2>1. curr - 1 \in 0..Len(nodes) /\ curr - 1 <= curr - 1
    BY <1>2
  <2> QED
    BY <1>2, <1>5, <2>1, ReachMonotone DEF SumInv
<1>11. /\ curr_pos' = Reach(h, s, curr)
       /\ SharedSize(Child) + Leftover(Child)
            = Reach(h, s, curr) - Reach(h, s, curr - 1)
  BY <1>2, <1>7, <1>8, <1>9, <1>10
<1>12. curr_weighted_node_index' = h[curr]
  <2>1. one[curr] = IF Child.expand # 0 THEN 1 ELSE 0
    BY <1>2, ValuesNat DEF SumInv, IInv, Child
  <2>2. h[curr] = h[curr - 1] + one[curr]
    BY <1>2, <1>5 DEF PartialSums
  <2> QED
    BY <1>7, <2>1, <2>2 DEF Place
<1>13. \A i : Reach(h, s, i)' = Reach(h, s, i)
  BY <1>3 DEF Reach
<1>14. \A i \in 1..curr :
         LET at == Reach(h, s, i - 1)
         IN  placed'[i] = [at   |-> at,
                           size |-> AtMost(Reach(h, s, i) - at, size - at)]
  <2> SUFFICES ASSUME NEW i \in 1..curr
               PROVE  placed'[i] =
                        [at   |-> Reach(h, s, i - 1),
                         size |-> AtMost(Reach(h, s, i) - Reach(h, s, i - 1),
                                         size - Reach(h, s, i - 1))]
    OBVIOUS
  <2>1. CASE i = curr
    BY <1>6, <1>7, <1>11, <2>1
  <2>2. CASE i # curr
    <3>1. i \in 1..curr - 1
      BY <1>2, <2>2
    <3> QED
      BY <1>1, <1>2, <1>6, <3>1 DEF Positions
  <2> QED
    BY <2>1, <2>2
<1>15. Positions(h, s)'
  <2>1. /\ size' = size /\ nodes' = nodes /\ curr <= Len(nodes) /\ curr > 0
    BY <1>2 DEF inputs
  <2> HIDE DEF last
  <2> QED
    BY <1>2, <1>6, <1>11, <1>12, <1>13, <1>14, <2>1 DEF Positions
<1>16. Untouched' /\ Capped'
  BY <1>2 DEF SumInv, Untouched, Capped, inputs, sums
<1> QED
  BY <1>4, <1>15, <1>16 DEF Summed

LEMMA PlacedSums ==
  ASSUME SumInv, Placed
  PROVE  Summed' /\ Untouched' /\ Capped'
<1>1. PICK f, g, h, s :
        Totals(f, g, h) /\ Shares(f, g, s) /\ Positions(h, s)
  BY DEF SumInv, Summed
<1>2. /\ phase = "place" /\ phase' = "done" /\ curr = Len(nodes) + 1
      /\ UNCHANGED <<inputs, curr, sums, size_used, curr_pos,
                     curr_weighted_node_index, placed>>
  BY DEF Placed, SumInv, IInv, Numbers
<1>3. /\ need' = need /\ expand' = expand /\ one' = one
      /\ expand_to_chars' = expand_to_chars /\ shared' = shared
      /\ leftover_base' = leftover_base /\ leftover_leftover' = leftover_leftover
  BY <1>2 DEF need, expand, one, shared, SharedSize, expand_to_chars,
              leftover_base, leftover_leftover, total_leftover, inputs, sums
<1>4. Totals(f, g, h)' /\ Shares(f, g, s)'
  BY <1>1, <1>2, <1>3 DEF Totals, Shares, inputs, sums
<1>5. Len(placed) = Len(nodes)
  BY <1>1, <1>2 DEF Positions, SumInv, IInv, Numbers
<1>6. Positions(h, s)'
  BY <1>1, <1>2, <1>3, <1>5 DEF Positions, Reach, inputs
<1>7. Untouched' /\ Capped'
  BY <1>2 DEF SumInv, Untouched, Capped, inputs, sums
<1> QED
  BY <1>4, <1>6, <1>7 DEF Summed

LEMMA SumsInvariant == Spec => []SumInv
<1>1. Init => SumInv
  BY InitInvariant, InitSums DEF SumInv
<1>2. SumInv /\ [Next]_vars => SumInv'
  <2> SUFFICES ASSUME SumInv, [Next]_vars PROVE SumInv'
    OBVIOUS
  <2>1. CASE Measure
    BY <2>1, MeasureInvariant, MeasureSums DEF SumInv
  <2>2. CASE Measured
    BY <2>2, PhaseInvariant, MeasuredSums DEF SumInv
  <2>3. CASE Use
    BY <2>3, UseInvariant, UseSums DEF SumInv
  <2>4. CASE Used
    BY <2>4, PhaseInvariant, UsedSums DEF SumInv
  <2>5. CASE Place
    BY <2>5, PlaceInvariant, PlaceSums DEF SumInv
  <2>6. CASE Placed
    BY <2>6, PhaseInvariant, PlacedSums DEF SumInv
  <2>7. CASE UNCHANGED vars
    <3>1. IInv'
      BY <2>7 DEF vars, inputs, sums, SumInv, IInv, Numbers, Roomy, Frontier,
                  PlacedInside, End
    <3>2. Untouched' /\ Capped'
      BY <2>7 DEF vars, inputs, sums, SumInv, Untouched, Capped
    <3>3. Summed'
      <4>1. PICK f, g, h, s :
              Totals(f, g, h) /\ Shares(f, g, s) /\ Positions(h, s)
        BY DEF SumInv, Summed
      <4>2. /\ need' = need /\ expand' = expand /\ one' = one
            /\ expand_to_chars' = expand_to_chars /\ shared' = shared
            /\ leftover_base' = leftover_base
            /\ leftover_leftover' = leftover_leftover
        BY <2>7 DEF need, expand, one, shared, SharedSize, expand_to_chars,
                    leftover_base, leftover_leftover, total_leftover,
                    vars, inputs, sums
      <4>3. Totals(f, g, h)' /\ Shares(f, g, s)' /\ Positions(h, s)'
        BY <2>7, <4>1, <4>2 DEF Totals, Shares, Positions, Reach,
                                vars, inputs, sums
      <4> QED
        BY <4>3 DEF Summed
    <3> QED
      BY <3>1, <3>2, <3>3 DEF SumInv
  <2> QED
    BY <2>1, <2>2, <2>3, <2>4, <2>5, <2>6, <2>7 DEF Next
<1> QED
  BY <1>1, <1>2, PTL DEF Spec

-----------------------------------------------------------------------------

\* What is known of the k children placed so far.
LEMMA PlacedSoFar ==
  ASSUME SumInv, phase \in {"place", "done"}
  PROVE  \E h, s :
           /\ PartialSums(h, one, Len(nodes)) /\ PartialSums(s, shared, Len(nodes))
           /\ leftover_base \in Nat /\ leftover_leftover \in Nat
           /\ Reach(h, s, Len(nodes)) <= max_size
           /\ expand_sum > 0 => Reach(h, s, Len(nodes)) = max_size /\ Len(nodes) > 0
           /\ curr_weighted_node_index <= expanded_nodes_amount
           /\ Positions(h, s)
<1>1. PICK f, g, h, s :
        Totals(f, g, h) /\ Shares(f, g, s) /\ Positions(h, s)
  BY DEF SumInv, Summed
<1>2. Len(nodes) \in Nat /\ Len(placed) \in Nat
  BY DEF SumInv, IInv, Numbers
<1>3. expand_sum > 0 => Len(nodes) > 0
  <2>1. expand_sum = g[Len(nodes)] /\ g[0] = 0
    BY <1>1 DEF Totals, PartialSums
  <2> QED
    BY <1>2, <2>1
<1>4. curr_weighted_node_index <= expanded_nodes_amount
  <2>1. /\ Len(placed) <= Len(nodes)
        /\ curr_weighted_node_index = h[Len(placed)]
        /\ expanded_nodes_amount = h[Len(nodes)]
        /\ PartialSums(h, one, Len(nodes))
    BY <1>1 DEF Totals, Positions
  <2>2. Len(placed) \in 0..Len(nodes) /\ Len(nodes) \in 0..Len(nodes)
    BY <1>2, <2>1
  <2> QED
    BY <2>1, <2>2 DEF PartialSums
<1> QED
  BY <1>1, <1>3, <1>4, ReachEnd DEF SumInv

LEMMA SumOrdered ==
  ASSUME NEW n \in Nat, NEW f, NEW v, PartialSums(f, v, n),
         NEW i \in 0..n, NEW j \in 0..n, i <= j
  PROVE  f[i] \in Nat /\ f[j] \in Nat /\ f[i] <= f[j]
  BY DEF PartialSums

\* The area the ith child was given.
LEMMA PlacedAt ==
  ASSUME phase \in {"place", "done"}, NEW h, NEW s, Positions(h, s),
         NEW i \in 1..Len(placed)
  PROVE  /\ placed[i].at = Reach(h, s, i - 1)
         /\ placed[i].size = AtMost(Reach(h, s, i) - Reach(h, s, i - 1),
                                    size - Reach(h, s, i - 1))
<1>1. placed[i] = [at   |-> Reach(h, s, i - 1),
                   size |-> AtMost(Reach(h, s, i) - Reach(h, s, i - 1),
                                   size - Reach(h, s, i - 1))]
  BY DEF Positions
<1> QED
  BY <1>1

LEMMA AreaEnlarged ==
  ASSUME SumInv, phase # "measure"
  PROVE  /\ size \in Nat /\ max_size \in Nat /\ size <= max_size
         /\ min_sizes_sum <= size => max_size = size
  BY DEF SumInv, IInv, Numbers, Capped, AtLeast

(* The area that was used lies in the area, and no more children expand    *)
(* than were counted.                                                      *)
THEOREM NodesTypeCorrect == Spec => []TypeOK
<1>1. SumInv => TypeOK
  <2> SUFFICES ASSUME SumInv PROVE TypeOK
    OBVIOUS
  <2>1. size_used <= max_size /\ curr_weighted_node_index <= expanded_nodes_amount
    <3>1. CASE phase = "measure"
      BY <3>1 DEF SumInv, IInv, Numbers, Untouched
    <3>2. CASE phase # "measure"
      <4>1. size_used <= max_size
        <5>1. PICK f, g, h, s : Totals(f, g, h) /\ Shares(f, g, s)
          BY DEF SumInv, Summed
        <5> QED
          BY <3>2, <5>1, UsedFits DEF SumInv
      <4>2. CASE phase = "use"
        BY <4>1, <4>2 DEF SumInv, IInv, Numbers, Untouched
      <4>3. CASE phase \in {"place", "done"}
        BY <4>1, <4>3, PlacedSoFar
      <4> QED
        BY <3>2, <4>2, <4>3 DEF SumInv, IInv, Numbers
    <3> QED
      BY <3>1, <3>2
  <2>2. size_used \in 0..max_size
    BY <2>1 DEF SumInv, IInv, Numbers
  <2>3. curr_weighted_node_index \in 0..expanded_nodes_amount
    BY <2>1 DEF SumInv, IInv, Numbers
  <2> QED
    BY <2>2, <2>3 DEF SumInv, IInv, Numbers, TypeOK
<1> QED
  BY <1>1, SumsInvariant, PTL

(* When the area holds what all children need, each gets what it needs.    *)
THEOREM NodesNeedsMet == Spec => []NeedsMet
<1>1. SumInv => NeedsMet
  <2> DEFINE n == Len(nodes)
             k == Len(placed)
  <2> SUFFICES ASSUME SumInv, phase = "done", min_sizes_sum <= size,
                      NEW i \in 1..n, need[i] > 0
               PROVE  i <= k /\ placed[i].size >= need[i]
    BY ValuesNat DEF NeedsMet, SumInv, IInv
  <2>1. PICK h, s :
          /\ PartialSums(h, one, n) /\ PartialSums(s, shared, n)
          /\ leftover_base \in Nat /\ leftover_leftover \in Nat
          /\ Reach(h, s, n) <= max_size
          /\ Positions(h, s)
    BY PlacedSoFar
  <2>2. n \in Nat /\ k \in 0..n /\ i - 1 \in 0..n /\ i \in 0..n /\ n \in 0..n
    BY <2>1 DEF SumInv, IInv, Numbers, Positions
  <2>3. max_size = size /\ size \in Nat
    BY AreaEnlarged
  <2>4. /\ shared[i] \in Nat /\ need[i] \in Nat /\ need[i] <= shared[i]
        /\ s[i] = s[i - 1] + shared[i]
    BY <2>1, SharedBounds, ValuesNat DEF SumInv, IInv, PartialSums
  <2>5. i <= k
    <3> SUFFICES ASSUME k <= i - 1 PROVE FALSE
      BY <2>2
    <3>1. k # n
      BY <2>2
    <3>2. Reach(h, s, k) >= size
      BY <2>1, <3>1 DEF Positions
    <3>3. /\ Reach(h, s, k) \in Nat /\ Reach(h, s, n) \in Nat
          /\ s[k] \in Nat /\ s[n] \in Nat
          /\ Reach(h, s, k) + s[n] <= Reach(h, s, n) + s[k]
      BY <2>1, <2>2, ReachMonotone DEF SumInv
    <3>4. s[n] <= s[k]
      BY <2>1, <2>3, <3>2, <3>3
    <3>5. s[k] <= s[i - 1] /\ s[i] <= s[n] /\ s[i - 1] \in Nat /\ s[i] \in Nat
      <4>1. k <= i - 1 /\ i <= n
        BY <2>2
      <4> QED
        BY <2>1, <2>2, <4>1, SumOrdered
    <3>6. s[i] <= s[i - 1]
      BY <3>3, <3>4, <3>5
    <3>7. shared[i] > 0
      BY <2>4
    <3> QED
      BY <2>4, <3>5, <3>6, <3>7
  <2>6. placed[i].size >= need[i]
    <3>1. placed[i].size = AtMost(Reach(h, s, i) - Reach(h, s, i - 1),
                                  size - Reach(h, s, i - 1))
      <4>1. i \in 1..k
        BY <2>2, <2>5
      <4> QED
        BY <2>1, <4>1, PlacedAt
    <3>2. /\ LeftoverAt(i, h[i - 1]) \in Nat
          /\ Reach(h, s, i) =
               Reach(h, s, i - 1) + shared[i] + LeftoverAt(i, h[i - 1])
      BY <2>1, ReachNext DEF SumInv
    <3>3. /\ Reach(h, s, i - 1) \in Nat /\ Reach(h, s, i) \in Nat
          /\ Reach(h, s, n) \in Nat /\ Reach(h, s, i) <= Reach(h, s, n)
      BY <2>1, <2>2, ReachMonotone DEF SumInv
    <3> QED
      BY <2>1, <2>3, <2>4, <3>1, <3>2, <3>3 DEF AtMost
  <2> QED
    BY <2>5, <2>6
<1> QED
  BY <1>1, SumsInvariant, PTL

(* If any child expands, the children fill the area to its edge.           *)
THEOREM NodesAreaFilled == Spec => []AreaFilled
<1>1. SumInv => AreaFilled
  <2> DEFINE n == Len(nodes)
             k == Len(placed)
  <2> SUFFICES ASSUME SumInv, phase = "done", expand_sum > 0
               PROVE  End(placed[k]) = size
    BY DEF AreaFilled
  <2>1. PICK h, s :
          /\ PartialSums(h, one, n) /\ PartialSums(s, shared, n)
          /\ leftover_base \in Nat /\ leftover_leftover \in Nat
          /\ Reach(h, s, n) = max_size /\ n > 0
          /\ Positions(h, s)
    BY PlacedSoFar
  <2>2. n \in Nat /\ k \in 1..n /\ k - 1 \in 0..n /\ k \in 0..n
    BY <2>1 DEF SumInv, IInv, Numbers, Positions
  <2>3. max_size >= size /\ size \in Nat
    BY AreaEnlarged
  <2>4. /\ placed[k].at = Reach(h, s, k - 1)
        /\ placed[k].size = AtMost(Reach(h, s, k) - Reach(h, s, k - 1),
                                   size - Reach(h, s, k - 1))
    <3>1. k \in 1..k
      BY <2>2
    <3> QED
      BY <2>1, <3>1, PlacedAt
  <2>5. Reach(h, s, k) >= size
    <3>1. CASE k = n
      BY <2>1, <2>3, <3>1
    <3>2. CASE k # n
      BY <2>1, <3>2 DEF Positions
    <3> QED
      BY <3>1, <3>2
  <2>6. Reach(h, s, k - 1) \in Nat /\ Reach(h, s, k) \in Nat
    BY <2>1, <2>2, ReachMonotone DEF SumInv
  <2> QED
    BY <2>3, <2>4, <2>5, <2>6 DEF End, AtMost
<1> QED
  BY <1>1, SumsInvariant, PTL

LEMMA Regroup ==
  ASSUME NEW r \in Nat, NEW a \in Nat, NEW b \in Nat
  PROVE  (r + a + b) - r = a + b
  OBVIOUS

LEMMA SameShare ==
  ASSUME NEW a \in Nat, NEW b \in Nat, NEW c \in Nat, b - c \in {0, 1}
  PROVE  (a + b) - (a + c) \in {0, 1}
  OBVIOUS

(* Of two children alike that are not cut the earlier is larger by one     *)
(* cell at most.                                                           *)
THEOREM NodesAlikeTreatedAlike == Spec => []AlikeTreatedAlike
<1>1. SumInv => AlikeTreatedAlike
  <2> DEFINE n == Len(nodes)
             k == Len(placed)
  <2> SUFFICES ASSUME SumInv, NEW i \in 1..k, NEW j \in 1..k, i < j,
                      nodes[i] = nodes[j], End(placed[j]) < size
               PROVE  placed[i].size - placed[j].size \in {0, 1}
    BY DEF AlikeTreatedAlike
  <2>1. phase \in {"place", "done"}
    <3>1. placed # <<>>
      BY DEF SumInv, IInv, Numbers
    <3> QED
      BY <3>1 DEF SumInv, IInv, Numbers, Frontier
  <2>2. PICK h, s :
          /\ PartialSums(h, one, n) /\ PartialSums(s, shared, n)
          /\ leftover_base \in Nat /\ leftover_leftover \in Nat
          /\ Positions(h, s)
    BY <2>1, PlacedSoFar
  <2>3. /\ i \in 1..n /\ j \in 1..n /\ i \in 0..n /\ j \in 0..n
        /\ i - 1 \in 0..n /\ j - 1 \in 0..n /\ n \in Nat
        /\ i - 1 <= i /\ j - 1 <= j /\ i <= j /\ i - 1 <= j - 1
    <3>1. n \in Nat /\ k \in Nat /\ k <= n
      BY <2>1, <2>2 DEF SumInv, IInv, Numbers, Positions
    <3> HIDE DEF n, k
    <3> QED
      BY <3>1
  <2>4. /\ placed[i].size = AtMost(Reach(h, s, i) - Reach(h, s, i - 1),
                                   size - Reach(h, s, i - 1))
        /\ placed[j].at = Reach(h, s, j - 1)
        /\ placed[j].size = AtMost(Reach(h, s, j) - Reach(h, s, j - 1),
                                   size - Reach(h, s, j - 1))
    BY <2>1, <2>2, PlacedAt
  <2>5. /\ Reach(h, s, i - 1) \in Nat /\ Reach(h, s, i) \in Nat
        /\ Reach(h, s, j - 1) \in Nat /\ Reach(h, s, j) \in Nat
        /\ Reach(h, s, i) <= Reach(h, s, j)
    <3>1. IInv /\ phase # "measure"
      BY <2>1 DEF SumInv
    <3> QED
      BY <2>2, <2>3, <3>1, ReachMonotone
  <2>6. /\ LeftoverAt(i, h[i - 1]) \in Nat /\ LeftoverAt(j, h[j - 1]) \in Nat
        /\ shared[i] \in Nat /\ shared[j] = shared[i]
        /\ Reach(h, s, i) =
             Reach(h, s, i - 1) + shared[i] + LeftoverAt(i, h[i - 1])
        /\ Reach(h, s, j) =
             Reach(h, s, j - 1) + shared[j] + LeftoverAt(j, h[j - 1])
    <3>1. shared[j] = shared[i]
      BY <2>3 DEF shared
    <3> QED
      BY <2>1, <2>2, <2>3, <3>1, ReachNext, SharedBounds DEF SumInv
  <2>7. LeftoverAt(i, h[i - 1]) - LeftoverAt(j, h[j - 1]) \in {0, 1}
    <3>1. h[i - 1] <= h[j - 1] /\ h[i - 1] \in Nat /\ h[j - 1] \in Nat
      BY <2>2, <2>3, SumOrdered
    <3> QED
      BY <2>2, <3>1 DEF LeftoverAt
  <2>8. size \in Nat
    BY DEF SumInv, IInv, Numbers
  <2>9. /\ placed[j].size = Reach(h, s, j) - Reach(h, s, j - 1)
        /\ Reach(h, s, j) < size
    BY <2>4, <2>5, <2>8 DEF End, AtMost
  <2>10. placed[i].size = Reach(h, s, i) - Reach(h, s, i - 1)
    BY <2>4, <2>5, <2>8, <2>9 DEF AtMost
  <2>11. /\ placed[i].size = shared[i] + LeftoverAt(i, h[i - 1])
         /\ placed[j].size = shared[i] + LeftoverAt(j, h[j - 1])
    <3>1. /\ Reach(h, s, i) - Reach(h, s, i - 1)
               = shared[i] + LeftoverAt(i, h[i - 1])
          /\ Reach(h, s, j) - Reach(h, s, j - 1)
               = shared[i] + LeftoverAt(j, h[j - 1])
      BY <2>5, <2>6, Regroup, SMTT(30)
    <3> QED
      BY <2>9, <2>10, <3>1
  <2> QED
    BY <2>6, <2>7, <2>11, SameShare
<1> QED
  BY <1>1, SumsInvariant, PTL

-----------------------------------------------------------------------------

\* The area is one of those of Init, and each child after the first starts
\* before its edge: the third loop stops at the one that reaches it.
Started ==
  /\ size \in 0..MaxArea
  /\ \A i \in 2..Len(placed) : placed[i].at < size

LEMMA StartedInvariant == Spec => [](SumInv /\ Started)
<1>1. Init => Started
  BY DEF Init, Started
<1>2. IInv /\ Started /\ [Next]_vars => Started'
  <2> SUFFICES ASSUME IInv, Started, [Next]_vars PROVE Started'
    OBVIOUS
  <2>1. CASE Place
    <3> DEFINE last == [at   |-> curr_pos,
                        size |-> AtMost(SharedSize(Child) + Leftover(Child),
                                        size - curr_pos)]
    <3>1. size' = size /\ placed' = Append(placed, last) /\ last.at = curr_pos
      BY <2>1 DEF Place, inputs
    <3>2. phase = "place" /\ (placed # <<>> => curr_pos < size)
      BY <2>1 DEF Place, IInv, Frontier
    <3>3. placed \in Seq([at : Nat, size : Nat]) /\ Len(placed) \in Nat
      BY DEF IInv, Numbers
    <3> HIDE DEF last
    <3>4. /\ Len(placed') = Len(placed) + 1
          /\ \A i \in 1..Len(placed) : placed'[i] = placed[i]
          /\ placed'[Len(placed) + 1] = last
      BY <3>1, <3>3
    <3>5. ASSUME NEW i \in 2..Len(placed') PROVE placed'[i].at < size
      <4>1. CASE i = Len(placed) + 1
        <5>1. placed # <<>>
          BY <3>3, <4>1
        <5> QED
          BY <3>1, <3>2, <3>4, <4>1, <5>1
      <4>2. CASE i # Len(placed) + 1
        <5>1. i \in 2..Len(placed) /\ i \in 1..Len(placed)
          BY <3>3, <3>4, <4>2
        <5> QED
          BY <3>4, <5>1 DEF Started
      <4> QED
        BY <4>1, <4>2
    <3> QED
      BY <3>1, <3>5 DEF Started
  <2>2. CASE ~Place
    <3>1. UNCHANGED <<size, placed>>
      BY <2>2 DEF Next, vars, inputs, Measure, Measured, Use, Used, Placed
    <3> QED
      BY <3>1 DEF Started
  <2> QED
    BY <2>1, <2>2
<1> QED
  BY <1>1, <1>2, NodesInvariant, SumsInvariant, PTL DEF Spec

\* What is known of a rectangle that was printed.
LEMMA RectInside ==
  ASSUME SumInv, Started, NEW rect \in PlacedRects
  PROVE  /\ rect.at \in Nat /\ rect.size \in Nat /\ size \in Nat
         /\ rect.at + rect.size <= size /\ size <= MaxArea
<1>1. PICK i \in 1..Len(placed) : rect = placed[i]
  BY DEF PlacedRects
<1>2. rect \in [at : Nat, size : Nat] /\ End(rect) <= size
  <2>1. placed[i] \in [at : Nat, size : Nat]
    <3> DEFINE R == [at : Nat, size : Nat]
    <3>1. placed \in Seq(R)
      BY DEF SumInv, IInv, Numbers
    <3> HIDE DEF R
    <3>2. placed[i] \in R
      BY <3>1
    <3> QED
      BY <3>2 DEF R
  <2>2. End(placed[i]) <= size
    BY DEF SumInv, IInv, PlacedInside
  <2> QED
    BY <1>1, <2>1, <2>2
<1>3. rect.at \in Nat /\ rect.size \in Nat
  BY <1>2
<1>4. size \in Nat /\ size <= MaxArea
  BY BoundsAssumption DEF Started
<1> QED
  BY <1>2, <1>3, <1>4 DEF End

-----------------------------------------------------------------------------

(* The bounds leave room in a word for what is subtracted and added.       *)
LEMMA UnsignedSmall ==
  ASSUME NEW n \in Nat, n <= MaxArea + MaxPadding + 1
  PROVE  Unsigned(n) = n
<1>1. /\ Word \in Nat /\ MaxArea \in Nat /\ MaxPadding \in Nat
      /\ Word > 2 * (MaxArea + MaxPadding + 1)
  BY DrawAssumption, BoundsAssumption
<1>2. n < Word
  BY <1>1
<1> QED
  BY <1>1, <1>2 DEF Unsigned

LEMMA UnsignedNat ==
  ASSUME NEW n \in Int
  PROVE  Unsigned(n) \in Nat
<1>1. Word \in Nat /\ Word > 0
  BY DrawAssumption, BoundsAssumption
<1> QED
  BY <1>1 DEF Unsigned

(* A size within the bounds is not taken for a negative one.               *)
LEMMA NegativeLarge ==
  ASSUME NEW n \in Nat, n < MaxArea + MaxPadding + 1
  PROVE  ~Negative(n)
<1>1. /\ Word \in Nat /\ MaxArea \in Nat /\ MaxPadding \in Nat
      /\ Word > 2 * (MaxArea + MaxPadding + 1)
  BY DrawAssumption, BoundsAssumption
<1>2. Word \div 2 >= MaxArea + MaxPadding + 1
  BY <1>1
<1>3. Word \div 2 \in Nat
  BY <1>1
<1> QED
  BY <1>1, <1>2, <1>3 DEF Negative

\* A node's rectangle without its paddings, in numbers.
LEMMA InnerRect ==
  ASSUME NEW rect, rect.at \in Nat, rect.size \in Nat,
         rect.at + rect.size <= MaxArea, NEW padding \in Paddings
  PROVE  /\ padding.before \in Nat /\ padding.after \in Nat
         /\ print_node(rect, padding).at = rect.at + padding.before
         /\ print_node(rect, padding).size \in Nat
         /\ padding.before + padding.after <= rect.size =>
              print_node(rect, padding).size
                = rect.size - padding.after - padding.before
         /\ MaxPadding = 0 => print_node(rect, padding).size <= MaxArea
<1>1. MaxArea \in Nat /\ MaxPadding \in Nat
  BY DrawAssumption, BoundsAssumption
<1>2. padding.before \in 0..MaxPadding /\ padding.after \in 0..MaxPadding
  BY DEF Paddings
<1> DEFINE at == rect.at + padding.before
           left == rect.size - padding.after - padding.before
<1>3. print_node(rect, padding) = [at |-> Unsigned(at), size |-> Unsigned(left)]
  BY DEF print_node
<1>4. at \in Nat /\ at <= MaxArea + MaxPadding + 1
  BY <1>1, <1>2
<1>5. left \in Int
  BY <1>2
<1>6. padding.before + padding.after <= rect.size =>
        left \in Nat /\ left <= MaxArea /\ left <= MaxArea + MaxPadding + 1
  BY <1>1, <1>2
<1>7. MaxPadding = 0 => padding.before + padding.after <= rect.size
  BY <1>2
<1>8. padding.before \in Nat /\ padding.after \in Nat
  BY <1>1, <1>2
<1> HIDE DEF at, left
<1>9. Unsigned(at) = at /\ Unsigned(left) \in Nat
  BY <1>4, <1>5, UnsignedSmall, UnsignedNat
<1>10. padding.before + padding.after <= rect.size => Unsigned(left) = left
  BY <1>6, UnsignedSmall
<1>11. /\ print_node(rect, padding).at = at
       /\ print_node(rect, padding).size = Unsigned(left)
  BY <1>3, <1>9
<1> QED
  BY <1>6, <1>7, <1>8, <1>9, <1>10, <1>11 DEF at, left

\* What ncurses_draw_text draws of a text that starts in the window.
LEMMA ClippedText ==
  ASSUME NEW length \in Nat, NEW col \in Nat, NEW rest \in Nat,
         NEW window \in Nat, col <= window, window <= MaxArea + 1,
         MaxPadding = 0 => length <= MaxArea
  PROVE  ncurses_draw_text(length, col, rest, window) =
           [moved |-> col < window,
            count |-> AtMost(AtMost(length, window - col), rest)]
<1>1. MaxArea \in Nat /\ MaxPadding \in Nat
  BY DrawAssumption, BoundsAssumption
<1> DEFINE room == window - col
           clipped == AtMost(length, room)
<1>2. room \in Nat /\ room <= MaxArea + 1 /\ room <= MaxArea + MaxPadding + 1
  BY <1>1
<1>3. ncurses_draw_text(length, col, rest, window) =
        [moved |-> col < window,
         count |-> IF Negative(AtMost(length, Unsigned(room))) THEN rest
                   ELSE AtMost(AtMost(length, Unsigned(room)), rest)]
  BY DEF ncurses_draw_text
<1> HIDE DEF room
<1>4. Unsigned(room) = room
  BY <1>2, UnsignedSmall
<1>5. clipped \in Nat /\ clipped < MaxArea + MaxPadding + 1
  BY <1>1, <1>2 DEF AtMost
<1>6. ~Negative(clipped)
  BY <1>5, NegativeLarge
<1>7. ncurses_draw_text(length, col, rest, window) =
        [moved |-> col < window, count |-> AtMost(clipped, rest)]
  BY <1>3, <1>4, <1>6
<1> QED
  BY <1>7 DEF room

-----------------------------------------------------------------------------

(* A text's last line, and a node's color, are drawn where the node is,    *)
(* however small the rectangle and however large the paddings.             *)
THEOREM NodesDrawnInside == Spec => []DrawnInside
<1>1. SumInv /\ Started => DrawnInside
  <2> SUFFICES ASSUME SumInv, Started, NEW rect \in PlacedRects,
                      NEW padding \in Paddings, NEW length \in 0..MaxLength,
                      NEW window \in Windows
               PROVE  LET inner == print_node(rect, padding)
                          drawn == ncurses_draw_text(inner.size, inner.at,
                                                     length, window)
                          colored == ncurses_draw_color(rect, window)
                      IN  /\ drawn.count > 0
                             /\ rect.at + padding.before <= window =>
                               /\ drawn.moved
                               /\ inner.at + drawn.count <= window
                          /\ drawn.count > 0
                             /\ padding.before + padding.after <= rect.size =>
                               /\ drawn.moved
                               /\ inner.at + drawn.count
                                    <= End(rect) - padding.after
                          /\ rect.size > 0 => End(colored) = End(rect)
    BY DEF DrawnInside
  <2> DEFINE inner == print_node(rect, padding)
             drawn == ncurses_draw_text(inner.size, inner.at, length, window)
             colored == ncurses_draw_color(rect, window)
  <2>1. /\ MaxArea \in Nat /\ MaxPadding \in Nat /\ length \in Nat
        /\ rect.at \in Nat /\ rect.size \in Nat /\ size \in Nat
        /\ rect.at + rect.size <= size /\ size <= MaxArea
    BY RectInside, DrawAssumption, BoundsAssumption
  <2>2. window \in Nat /\ size <= window /\ window <= MaxArea + 1
    BY <2>1 DEF Windows
  <2>3. /\ padding.before \in Nat /\ padding.after \in Nat
        /\ inner.at = rect.at + padding.before /\ inner.at \in Nat
        /\ inner.size \in Nat
        /\ padding.before + padding.after <= rect.size =>
             inner.size = rect.size - padding.after - padding.before
        /\ MaxPadding = 0 => inner.size <= MaxArea
    <3>1. rect.at + rect.size <= MaxArea
      BY <2>1
    <3>2. /\ padding.before \in Nat /\ padding.after \in Nat
          /\ inner.at = rect.at + padding.before
          /\ inner.size \in Nat
          /\ padding.before + padding.after <= rect.size =>
               inner.size = rect.size - padding.after - padding.before
          /\ MaxPadding = 0 => inner.size <= MaxArea
      BY <2>1, <3>1, InnerRect
    <3> QED
      BY <2>1, <3>2
  <2> HIDE DEF inner
  <2>4. ASSUME inner.at <= window
        PROVE  /\ drawn.moved = (inner.at < window)
               /\ drawn.count = AtMost(AtMost(inner.size, window - inner.at), length)
    <3> DEFINE count == AtMost(AtMost(inner.size, window - inner.at), length)
    <3>1. drawn = [moved |-> inner.at < window, count |-> count]
      <4>1. /\ inner.size \in Nat /\ inner.at \in Nat /\ length \in Nat
            /\ window \in Nat /\ window <= MaxArea + 1
            /\ MaxPadding = 0 => inner.size <= MaxArea
        BY <2>1, <2>2, <2>3
      <4> QED
        BY <2>4, <4>1, ClippedText, ZenonT(60)
    <3> HIDE DEF count, drawn
    <3>2. drawn.moved = (inner.at < window) /\ drawn.count = count
      BY <3>1
    <3> QED
      BY <3>2 DEF count
  <2>5. ASSUME drawn.count > 0, inner.at <= window
        PROVE  /\ drawn.moved /\ inner.at + drawn.count <= window
               /\ drawn.count <= inner.size
    <3>1. window - inner.at \in Nat
      BY <2>2, <2>3, <2>5
    <3>2. drawn.count \in Nat /\ drawn.count <= window - inner.at
          /\ drawn.count <= inner.size
      BY <2>1, <2>3, <2>4, <2>5, <3>1 DEF AtMost
    <3> HIDE DEF drawn
    <3>3. inner.at < window /\ inner.at + drawn.count <= window
      BY <2>2, <2>3, <2>5, <3>2
    <3> QED
      BY <2>4, <2>5, <3>2, <3>3
  <2>6. ASSUME drawn.count > 0, padding.before + padding.after <= rect.size
        PROVE  /\ drawn.moved
               /\ inner.at + drawn.count <= End(rect) - padding.after
    <3>1. inner.at <= window
      BY <2>1, <2>2, <2>3, <2>6
    <3>2. /\ drawn.moved /\ drawn.count <= inner.size
          /\ inner.at + drawn.count <= window
      BY <2>5, <2>6, <3>1
    <3>3. drawn.count \in Nat
      <4>1. window - inner.at \in Nat
        BY <2>2, <2>3, <3>1
      <4> QED
        BY <2>1, <2>3, <2>4, <3>1, <4>1 DEF AtMost
    <3> HIDE DEF drawn
    <3>4. inner.at + drawn.count <= End(rect) - padding.after
      BY <2>1, <2>3, <2>6, <3>2, <3>3 DEF End
    <3> QED
      BY <3>2, <3>4
  <2>7. ASSUME rect.size > 0 PROVE End(colored) = End(rect)
    <3> DEFINE room == window - rect.at
    <3>1. /\ room \in Nat /\ rect.size <= room
          /\ room <= MaxArea + MaxPadding + 1
      BY <2>1, <2>2
    <3>2. Unsigned(room) = room
      <4> HIDE DEF room
      <4> QED
        BY <3>1, UnsignedSmall
    <3>3. AtMost(rect.size, Unsigned(room)) = rect.size
      BY <2>1, <3>1, <3>2 DEF AtMost
    <3>4. colored = [at |-> rect.at, size |-> rect.size]
      BY <2>7, <3>3 DEF ncurses_draw_color
    <3> QED
      BY <3>4 DEF End
  <2> QED
    BY <2>3, <2>5, <2>6, <2>7 DEF inner
<1> QED
  BY <1>1, StartedInvariant, PTL

-----------------------------------------------------------------------------

(* The recursive function that adds up a sequence does so.                 *)
LEMMA SumsAddUp ==
  ASSUME NEW n \in Nat, NEW v \in [1..n -> Nat]
  PROVE  Len(v) = n /\ PartialSums(Sums(v), v, n)
<1> DEFINE step == [a \in (1..n) \X Nat |-> a[2] + v[a[1]]]
           Is(f) == f = [m \in 0..n |-> IF m = 0 THEN 0 ELSE f[m - 1] + v[m]]
<1>1. Len(v) = n /\ 0 \in Nat
  OBVIOUS
<1>2. step \in [(1..n) \X Nat -> Nat]
  <2> SUFFICES ASSUME NEW a \in (1..n) \X Nat
               PROVE  a[2] + v[a[1]] \in Nat
    OBVIOUS
  <2>1. a[1] \in 1..n /\ a[2] \in Nat
    OBVIOUS
  <2>2. v[a[1]] \in Nat
    BY <2>1
  <2> QED
    BY <2>1, <2>2
<1>3. \A m \in 1..n, t \in Nat : step[<<m, t>>] = t + v[m]
  OBVIOUS
<1> HIDE DEF step
<1>4. PICK f \in [0..n -> Nat] : Recursion(f, n, 0, step)
  BY <1>1, <1>2, RecursionExists
<1>5. Is(f)
  <2>1. \A m \in 0..n : m # 0 => m \in 1..n /\ m - 1 \in 0..n
    OBVIOUS
  <2>2. \A m \in 0..n : m # 0 => step[<<m, f[m - 1]>>] = f[m - 1] + v[m]
    BY <1>3, <2>1
  <2> QED
    BY <1>4, <2>2 DEF Recursion
<1>6. Sums(v) = CHOOSE g : Is(g)
  BY <1>1 DEF Sums
<1>7. Is(Sums(v))
  <2> HIDE DEF Is
  <2> QED
    BY <1>5, <1>6
<1> DEFINE g == Sums(v)
<1> HIDE DEF g
<1>8. /\ g = [m \in 0..n |-> g[m]]
      /\ g[0] = 0
      /\ \A m \in 1..n : g[m] = g[m - 1] + v[m]
  <2>1. g = [m \in 0..n |-> IF m = 0 THEN 0 ELSE g[m - 1] + v[m]]
    BY <1>7 DEF g
  <2>2. /\ 0 \in 0..n
        /\ \A m \in 1..n : m \in 0..n /\ m # 0
    OBVIOUS
  <2> QED
    BY <2>1, <2>2
<1> DEFINE S == {k \in 0..n : /\ g[k] \in Nat
                              /\ \A j \in 0..k : g[j] \in Nat /\ g[j] <= g[k]}
<1>9. 0..n \subseteq S
  <2>1. 0 \in S
    BY <1>8
  <2>2. ASSUME NEW k \in 1..n, k - 1 \in S PROVE k \in S
    <3>1. k - 1 \in 0..n /\ k \in 0..n /\ g[k - 1] \in Nat
      BY <2>2
    <3>2. g[k] \in Nat /\ g[k - 1] <= g[k]
      <4>1. g[k] = g[k - 1] + v[k] /\ v[k] \in Nat
        BY <1>8
      <4> QED
        BY <3>1, <4>1
    <3>3. ASSUME NEW j \in 0..k PROVE g[j] \in Nat /\ g[j] <= g[k]
      <4>1. CASE j = k
        BY <3>2, <4>1
      <4>2. CASE j # k
        <5>1. j \in 0..(k - 1)
          BY <4>2
        <5>2. g[j] \in Nat /\ g[j] <= g[k - 1]
          BY <2>2, <5>1
        <5> QED
          BY <3>1, <3>2, <5>2
      <4> QED
        BY <4>1, <4>2
    <3> QED
      BY <3>1, <3>2, <3>3
  <2> HIDE DEF S
  <2> QED
    BY <2>1, <2>2, LoopInduction
<1>10. \A i, j \in 0..n : i <= j => g[i] <= g[j]
  <2> SUFFICES ASSUME NEW i \in 0..n, NEW j \in 0..n, i <= j PROVE g[i] <= g[j]
    OBVIOUS
  <2>1. i \in 0..j /\ j \in S
    BY <1>9
  <2> QED
    BY <2>1
<1>11. g \in [0..n -> Nat]
  BY <1>8, <1>9
<1> QED
  BY <1>1, <1>8, <1>10, <1>11 DEF g, PartialSums

\* A text is a sequence of natural numbers, and its width is the largest.
LEMMA TextNat ==
  ASSUME NEW text \in Texts
  PROVE  /\ Len(text) \in Nat /\ Len(text) > 0
         /\ \A i \in 1..Len(text) : text[i] \in Nat
         /\ get_str_width(text) \in Nat
         /\ \A i \in 1..Len(text) : text[i] <= get_str_width(text)
<1>1. PICK n \in 1..MaxLines : text \in [1..n -> 0..MaxLength]
  BY DEF Texts
<1>2. n \in Nat /\ Len(text) = n /\ MaxLength \in Nat
  BY <1>1, DrawAssumption
<1>3. \A i \in 1..n : text[i] \in 0..MaxLength
  BY <1>1
<1> DEFINE T == {text[i] : i \in 1..Len(text)}
<1>4. T \in SUBSET Nat /\ T # {} /\ \A x \in T : x <= MaxLength
  <2>1. 1 \in 1..n
    BY <1>1
  <2> QED
    BY <1>2, <1>3, <2>1
<1>5. \E w \in T : \A y \in T : y <= w
  <2> HIDE DEF T
  <2> QED
    BY <1>2, <1>4, GreatestElement
<1>6. \E w \in T : \A i \in 1..Len(text) : text[i] <= w
  BY <1>5
<1>7. /\ get_str_width(text) \in T
      /\ \A i \in 1..Len(text) : text[i] <= get_str_width(text)
  BY <1>6 DEF get_str_width
<1> QED
  BY <1>1, <1>2, <1>3, <1>4, <1>7

\* What is left of a text holds at least the line it begins with, and holds
\* nothing else at the last line.
LEMMA RestsHold ==
  ASSUME NEW text \in Texts, NEW i \in 1..Len(text)
  PROVE  /\ Rests(text)[i] \in Nat /\ Rests(text)[i] >= text[i]
         /\ i = Len(text) => Rests(text)[i] = text[i]
<1> DEFINE n == Len(text)
           v == [j \in 1..Len(text) |-> text[j] + 1]
           g == Offsets(text)
<1>1. n \in Nat /\ n > 0 /\ \A j \in 1..n : text[j] \in Nat
  BY TextNat
<1>2. v \in [1..n -> Nat]
  BY <1>1
<1>3. PartialSums(g, v, n)
  <2>1. g = Sums(v)
    BY DEF Offsets
  <2> HIDE DEF v, g, n
  <2> QED
    BY <1>1, <1>2, <2>1, SumsAddUp
<1>4. v[i] = text[i] + 1
  OBVIOUS
<1>5. Rests(text)[i] = g[n] - g[i - 1] - 1
  BY DEF Rests
<1> HIDE DEF n, v, g
<1>6. i \in 1..n /\ text[i] \in Nat
  BY <1>1 DEF n
<1>7. /\ g[i - 1] \in Nat /\ g[i] \in Nat /\ g[n] \in Nat
      /\ g[i] = g[i - 1] + v[i] /\ g[i] <= g[n]
  BY <1>1, <1>3, <1>6, SumAt
<1>8. g[n] - g[i - 1] - 1 \in Nat /\ g[n] - g[i - 1] - 1 >= text[i]
  BY <1>4, <1>6, <1>7
<1>9. i = n => g[n] - g[i - 1] - 1 = text[i]
  BY <1>4, <1>6, <1>7
<1> QED
  BY <1>5, <1>8, <1>9 DEF n

(* A text that is given the size it asks for is shown, no draw begins      *)
(* below the rows there are, and a draw leaves its row only past the       *)
(* newline of a line that is shorter than the node is wide.                *)
THEOREM NodesTextShown == Spec => []TextShown
<1>1. SumInv /\ Started => TextShown
  <2> SUFFICES ASSUME SumInv, Started, NEW text \in Texts,
                      NEW rect \in PlacedRects
               PROVE  LET draws == print_text_node(text, rect.size)
                      IN  /\ rect.size >= get_str_height(text) =>
                               \A i \in 1..Len(text) : text[i] > 0 => i <= draws
                          /\ rect.size > 0 => draws <= rect.size
                          /\ \A padding \in Paddings :
                               LET inner == print_node(rect, padding)
                                   drawn(i) == ncurses_draw_text(inner.size,
                                     inner.at, Rests(text)[i], size).count
                               IN  /\ rect.size >= get_width(text, padding) =>
                                        \A i \in 1..Len(text) :
                                          drawn(i) >= text[i]
                                   /\ padding.before + padding.after
                                          <= rect.size =>
                                        \A i \in 1..Len(text) :
                                          drawn(i) > text[i] =>
                                            i < Len(text) /\ text[i] < inner.size
    BY DEF TextShown
  <2> DEFINE lines == Len(text)
             looped == AtMost(lines - 1, AtLeast(rect.size, 1))
             draws == print_text_node(text, rect.size)
  <2>1. /\ MaxArea \in Nat /\ rect.at \in Nat /\ rect.size \in Nat /\ size \in Nat
        /\ rect.at + rect.size <= size /\ size <= MaxArea
    BY RectInside, DrawAssumption, BoundsAssumption
  <2>2. /\ lines \in Nat /\ lines > 0
        /\ \A i \in 1..lines : text[i] \in Nat
        /\ get_str_width(text) \in Nat
        /\ \A i \in 1..lines : text[i] <= get_str_width(text)
    BY TextNat
  <2>3. draws = looped + (IF looped < rect.size THEN 1 ELSE 0)
    BY DEF print_text_node
  <2>4. get_str_height(text) =
          IF lines > 1 /\ text[lines] = 0 THEN lines - 1 ELSE lines
    BY DEF get_str_height
  <2> HIDE DEF lines, draws
  <2>5. /\ looped \in Nat
        /\ rect.size > 0 => looped <= rect.size
        /\ rect.size >= lines - 1 => looped = lines - 1
    BY <2>1, <2>2 DEF AtMost, AtLeast
  <2> HIDE DEF looped
  <2>6. ASSUME rect.size >= get_str_height(text),
               NEW i \in 1..lines, text[i] > 0
        PROVE  i <= draws
    <3>1. CASE lines > 1 /\ text[lines] = 0
      <4>1. i # lines
        BY <2>6, <3>1
      <4>2. rect.size >= lines - 1
        BY <2>4, <2>6, <3>1
      <4> QED
        BY <2>1, <2>2, <2>3, <2>5, <4>1, <4>2
    <3>2. CASE ~(lines > 1 /\ text[lines] = 0)
      <4>1. rect.size >= lines
        BY <2>4, <2>6, <3>2
      <4> QED
        BY <2>1, <2>2, <2>3, <2>5, <4>1
    <3> QED
      BY <3>1, <3>2
  <2>7. rect.size > 0 => draws <= rect.size
    BY <2>1, <2>3, <2>5
  <2>8. ASSUME NEW padding \in Paddings, padding.before + padding.after <= rect.size,
               NEW i \in 1..lines
        PROVE  LET inner == print_node(rect, padding)
                   drawn == ncurses_draw_text(inner.size, inner.at,
                                              Rests(text)[i], size).count
               IN  /\ rect.size >= get_width(text, padding) => drawn >= text[i]
                   /\ drawn > text[i] => i < lines /\ text[i] < inner.size
    <3> DEFINE inner == print_node(rect, padding)
               width == get_str_width(text)
               rest == Rests(text)[i]
               drawn == ncurses_draw_text(inner.size, inner.at, rest, size).count
    <3>1. rect.at + rect.size <= MaxArea
      BY <2>1
    <3>2. /\ padding.before \in Nat /\ padding.after \in Nat
          /\ inner.at = rect.at + padding.before
          /\ inner.size \in Nat
          /\ inner.size = rect.size - padding.after - padding.before
          /\ MaxPadding = 0 => inner.size <= MaxArea
      BY <2>1, <2>8, <3>1, InnerRect
    <3>3. /\ width \in Nat /\ text[i] \in Nat /\ text[i] <= width
          /\ get_width(text, padding) = width + padding.before + padding.after
      BY <2>2 DEF get_width
    <3>4. rest \in Nat /\ rest >= text[i] /\ (i = lines => rest = text[i])
      BY RestsHold DEF lines
    <3>5. drawn = AtMost(AtMost(inner.size, size - inner.at), rest)
      <4>1. /\ inner.size \in Nat /\ inner.at \in Nat /\ size \in Nat
            /\ inner.at <= size /\ size <= MaxArea + 1
            /\ MaxPadding = 0 => inner.size <= MaxArea
        BY <2>1, <2>8, <3>2
      <4> HIDE DEF inner, rest
      <4>2. ncurses_draw_text(inner.size, inner.at, rest, size)
              = [moved |-> inner.at < size,
                 count |-> AtMost(AtMost(inner.size, size - inner.at), rest)]
        BY <3>4, <4>1, ClippedText, ZenonT(60)
      <4> QED
        BY <4>2
    <3> HIDE DEF inner, width, rest, drawn
    <3>6. inner.size <= size - inner.at /\ size - inner.at \in Nat
      BY <2>1, <2>8, <3>2
    <3>7. drawn = AtMost(inner.size, rest)
      BY <3>2, <3>5, <3>6 DEF AtMost
    <3>8. rect.size >= get_width(text, padding) => drawn >= text[i]
      BY <2>1, <3>2, <3>3, <3>4, <3>7 DEF AtMost
    <3>9. ASSUME drawn > text[i] PROVE i < lines /\ text[i] < inner.size
      <4>1. rest > text[i] /\ inner.size > text[i]
        BY <3>2, <3>3, <3>4, <3>7, <3>9 DEF AtMost
      <4> QED
        BY <2>2, <3>3, <3>4, <4>1
    <3> QED
      BY <3>8, <3>9 DEF inner, rest, drawn
  <2>9. ASSUME NEW padding \in Paddings, rect.size >= get_width(text, padding)
        PROVE  padding.before + padding.after <= rect.size
    <3>1. padding.before \in Nat /\ padding.after \in Nat
      BY DrawAssumption DEF Paddings
    <3> QED
      BY <2>1, <2>2, <2>9, <3>1 DEF get_width
  <2> QED
    BY <2>6, <2>7, <2>8, <2>9 DEF lines, draws
<1> QED
  BY <1>1, StartedInvariant, PTL

-----------------------------------------------------------------------------

(* Sums of larger numbers are larger.                                      *)
LEMMA SumsCompare ==
  ASSUME NEW n \in Nat, NEW f, NEW v, NEW g, NEW w,
         PartialSums(f, v, n), PartialSums(g, w, n),
         \A i \in 1..n : v[i] \in Nat /\ w[i] \in Nat /\ v[i] <= w[i]
  PROVE  \A i \in 0..n : f[i] <= g[i]
<1> DEFINE S == {i \in 0..n : f[i] <= g[i]}
<1>1. 0 \in S
  BY DEF PartialSums
<1>2. ASSUME NEW k \in 1..n, k - 1 \in S PROVE k \in S
  <2>1. k \in 0..n /\ k - 1 \in 0..n
    OBVIOUS
  <2>2. /\ f[k] = f[k - 1] + v[k] /\ g[k] = g[k - 1] + w[k]
        /\ f[k - 1] \in Nat /\ g[k - 1] \in Nat
    BY <2>1 DEF PartialSums
  <2>3. f[k - 1] <= g[k - 1] /\ v[k] \in Nat /\ w[k] \in Nat /\ v[k] <= w[k]
    BY <1>2
  <2>4. f[k] <= g[k]
    BY <2>2, <2>3
  <2> QED
    BY <2>1, <2>4
<1>3. 0..n \subseteq S
  <2> HIDE DEF S
  <2> QED
    BY <1>1, <1>2, LoopInduction
<1> QED
  BY <1>3

\* The contents of the children, added up; without bases they hold what the
\* children need.
LEMMA ContentSums ==
  ASSUME Numbers, NEW content \in Contents
  PROVE  /\ \A i \in 1..Len(nodes) :
              content[i] \in Nat /\ nodes[i].required <= content[i]
         /\ PartialSums(Sums(content), content, Len(nodes))
         /\ SizeAlong(content) = Sums(content)[Len(nodes)]
         /\ Len(content) = Len(nodes)
<1>1. /\ Len(nodes) \in Nat /\ MaxRequired \in Nat
      /\ content \in [1..Len(nodes) -> 0..MaxRequired]
  BY BoundsAssumption DEF Contents, Numbers
<1>2. \A i \in 1..Len(nodes) : content[i] \in Nat
  BY <1>1
<1>3. content \in [1..Len(nodes) -> Nat]
  BY <1>1
<1>4. \A i \in 1..Len(nodes) : nodes[i].required \in {0, content[i]}
  BY DEF Contents
<1>5. Len(content) = Len(nodes) /\ PartialSums(Sums(content), content, Len(nodes))
  BY <1>1, <1>3, SumsAddUp
<1> QED
  BY <1>2, <1>4, <1>5 DEF SizeAlong

LEMMA PlacedNat ==
  ASSUME Numbers, NEW i \in 1..Len(placed)
  PROVE  placed[i].at \in Nat /\ placed[i].size \in Nat
<1> DEFINE R == [at : Nat, size : Nat]
<1>1. placed \in Seq(R)
  BY DEF Numbers
<1> HIDE DEF R
<1>2. placed[i] \in R
  BY <1>1
<1> QED
  BY <1>2 DEF R

\* As long as children get the size of their contents, they reach as far as
\* their contents do.
LEMMA ContentsReach ==
  ASSUME SumInv, NEW g, NEW content, PartialSums(g, content, Len(nodes)),
         Len(placed) <= Len(nodes), NEW j \in 1..Len(placed) - 1,
         \A i \in 1..Len(placed) - 1 :
           content[i] \in Nat /\ placed[i].size >= content[i]
  PROVE  g[j] <= End(placed[j])
<1> DEFINE k == Len(placed)
           S == {m \in 0..k - 1 : m > 0 => g[m] <= End(placed[m])}
<1>1. /\ k \in Nat /\ Len(nodes) \in Nat /\ k - 1 \in Nat
      /\ \A m \in 1..k : placed[m].at \in Nat /\ placed[m].size \in Nat
  <2>1. k \in Nat /\ Len(nodes) \in Nat /\ k - 1 \in Nat /\ Numbers
    <3>1. 1 <= k - 1 /\ k \in Nat
      BY DEF SumInv, IInv, Numbers
    <3> QED
      BY <3>1 DEF SumInv, IInv, Numbers
  <2> QED
    BY <2>1, PlacedNat
<1>2. 0 \in S
  BY <1>1
<1>3. ASSUME NEW m \in 1..k - 1, m - 1 \in S PROVE m \in S
  <2>1. /\ g[m] = g[m - 1] + content[m] /\ g[m - 1] \in Nat /\ g[m] \in Nat
        /\ m \in 1..k /\ content[m] \in Nat /\ placed[m].size >= content[m]
    <3>1. m \in 1..Len(nodes) /\ m \in 1..k /\ m \in 1..Len(placed) - 1
      BY <1>1
    <3>2. content[m] \in Nat /\ placed[m].size >= content[m]
      BY <3>1
    <3> HIDE DEF k, S
    <3> QED
      BY <1>1, <3>1, <3>2, SumAt
  <2>2. g[m - 1] <= placed[m].at
    <3>1. CASE m = 1
      <4>1. g[m - 1] = 0
        <5>1. g[0] = 0
          BY DEF PartialSums
        <5> QED
          BY <3>1, <5>1
      <4>2. placed[m].at \in Nat
        BY <1>1, <2>1
      <4> QED
        BY <4>1, <4>2
    <3>2. CASE m # 1
      <4>1. m - 1 \in 1..k - 1 /\ placed[(m - 1) + 1].at = End(placed[m - 1])
        BY <1>1, <3>2 DEF SumInv, IInv, PlacedInside
      <4>2. g[m - 1] <= End(placed[m - 1])
        BY <1>3, <4>1
      <4> QED
        BY <4>1, <4>2
    <3> QED
      BY <3>1, <3>2
  <2>3. g[m] <= End(placed[m])
    BY <1>1, <2>1, <2>2 DEF End
  <2> QED
    BY <1>1, <2>3
<1>4. 0..k - 1 \subseteq S
  <2> HIDE DEF S, k
  <2> QED
    BY <1>1, <1>2, <1>3, LoopInduction
<1> QED
  BY <1>1, <1>4

\* Where the children end that neither expand nor have more content than they
\* are given.
LEMMA ReachFits ==
  ASSUME SumInv, phase \in {"place", "done"}, NEW h, NEW s,
         PartialSums(h, one, Len(nodes)), PartialSums(s, shared, Len(nodes)),
         leftover_base \in Nat, leftover_leftover \in Nat,
         NEW i \in 1..Len(nodes), nodes[i].expand = 0, nodes[i].basis = 0
  PROVE  Reach(h, s, i) = Reach(h, s, i - 1) + nodes[i].required
<1>1. /\ Numbers /\ Len(nodes) \in Nat /\ nodes[i].required \in Nat
      /\ i \in 0..Len(nodes) /\ i - 1 \in 0..Len(nodes)
  BY ValuesNat DEF SumInv, IInv, Numbers
<1>2. one[i] = 0 /\ shared[i] = SharedSize(nodes[i])
  BY DEF one, shared
<1>3. shared[i] = nodes[i].required
  <2>1. /\ shared[i] \in Nat /\ need[i] <= shared[i]
        /\ shared[i] <= need[i] + expand_to_chars * expand[i]
    BY SharedBounds DEF SumInv
  <2>2. expand_to_chars * expand[i] = 0
    <3>1. expand_to_chars \in Nat /\ expand[i] = 0
      BY ExpandUnit DEF expand, SumInv
    <3> QED
      BY <3>1
  <2>3. need[i] = nodes[i].required
    BY <1>1, ValuesNat DEF AtLeast
  <2> QED
    BY <1>1, <2>1, <2>2, <2>3
<1>4. /\ h[i] = h[i - 1] + one[i] /\ h[i - 1] \in Nat /\ s[i - 1] \in Nat
      /\ s[i] = s[i - 1] + shared[i]
  BY <1>1, SumAt
<1>5. h[i] = h[i - 1] /\ s[i] = s[i - 1] + nodes[i].required
  BY <1>2, <1>3, <1>4
<1>6. leftover_base * h[i - 1] \in Nat /\ AtMost(h[i - 1], leftover_leftover) \in Nat
  BY <1>4, Product DEF AtMost
<1>7. nodes[i].required \in Nat /\ s[i - 1] \in Nat
  BY <1>1, <1>4
<1> QED
  BY <1>5, <1>6, <1>7 DEF Reach

LEMMA ExpandsSomewhere ==
  ASSUME SumInv, phase = "done", NEW j \in 1..Len(nodes), nodes[j].expand > 0
  PROVE  expand_sum > 0
<1>1. PICK g : PartialSums(g, expand, Len(nodes)) /\ expand_sum = g[Len(nodes)]
  BY DEF SumInv, Summed, Totals
<1>2. Len(nodes) \in Nat /\ nodes[j].expand \in Nat
  BY ValuesNat DEF SumInv, IInv, Numbers
<1>3. /\ g[j] = g[j - 1] + expand[j] /\ g[j] <= g[Len(nodes)]
      /\ g[j - 1] \in Nat /\ g[j] \in Nat /\ g[Len(nodes)] \in Nat
  BY <1>1, <1>2, SumAt
<1>4. expand[j] = nodes[j].expand
  BY DEF expand
<1> QED
  BY <1>1, <1>2, <1>3, <1>4

\* A child that expands, next to children that neither expand nor have more
\* content than they are given, gets all that these leave of the area.
LEMMA AloneGetsRest ==
  ASSUME SumInv, phase = "done", NEW content \in Contents,
         size >= SizeAlong(content),
         \A i \in 1..Len(nodes) : nodes[i].basis = 0,
         NEW j \in 1..Len(nodes), nodes[j].expand > 0, content[j] > 0,
         \A i \in (1..Len(nodes)) \ {j} :
           nodes[i].required = content[i] /\ nodes[i].expand = 0
  PROVE  j <= Len(placed) /\ placed[j].size >= content[j]
<1> DEFINE n == Len(nodes)
           k == Len(placed)
           g == Sums(content)
<1>1. PICK h, s :
        /\ PartialSums(h, one, n) /\ PartialSums(s, shared, n)
        /\ leftover_base \in Nat /\ leftover_leftover \in Nat
        /\ expand_sum > 0 => Reach(h, s, n) = max_size
        /\ Positions(h, s)
  BY PlacedSoFar
<1>2. /\ n \in Nat /\ k \in 0..n /\ size \in Nat /\ Numbers /\ j \in 1..n
      /\ max_size >= size /\ j \in 0..n /\ j - 1 \in 0..n /\ n \in 0..n /\ 0 \in 0..n
  BY <1>1, AreaEnlarged DEF SumInv, IInv, Numbers, Positions
<1>3. /\ \A i \in 1..n : content[i] \in Nat /\ nodes[i].required <= content[i]
      /\ PartialSums(g, content, n) /\ SizeAlong(content) = g[n]
  BY <1>2, ContentSums
<1>4. \A i \in 0..n : g[i] \in Nat /\ Reach(h, s, i) \in Nat
  <2>1. \A i \in 0..n : Reach(h, s, i) \in Nat
    <3> SUFFICES ASSUME NEW i \in 0..n PROVE Reach(h, s, i) \in Nat
      OBVIOUS
    <3>1. i \in 0..Len(nodes) /\ i <= i /\ IInv /\ phase # "measure"
      BY <1>2 DEF SumInv
    <3> QED
      BY <1>1, <3>1, ReachMonotone
  <2>2. \A i \in 0..n : g[i] \in Nat
    BY <1>3 DEF PartialSums
  <2> QED
    BY <2>1, <2>2
<1>5. expand_sum > 0
  BY <1>2, ExpandsSomewhere
<1>6. Reach(h, s, 0) = 0
  <2>1. h[0] = 0 /\ s[0] = 0
    BY <1>1 DEF PartialSums
  <2> QED
    BY <1>1, <2>1 DEF Reach, AtMost
<1> HIDE DEF n, k, g
<1>7. ASSUME NEW i \in 1..n, i # j
      PROVE  Reach(h, s, i) = Reach(h, s, i - 1) + content[i]
  <2>1. i \in 1..Len(nodes) /\ nodes[i].expand = 0 /\ nodes[i].basis = 0
    BY <1>7 DEF n
  <2>2. Reach(h, s, i) = Reach(h, s, i - 1) + nodes[i].required
    BY <1>1, <2>1, ReachFits DEF n
  <2> QED
    BY <1>7, <2>2 DEF n
<1>8. \A i \in 1..n : g[i] = g[i - 1] + content[i] /\ i \in 0..n /\ i - 1 \in 0..n
  <2>1. PartialSums(g, content, n)
    BY <1>3
  <2> QED
    BY <1>2, <2>1, SumAt
<1> DEFINE S == {i \in 0..n : /\ i < j => Reach(h, s, i) = g[i]
                              /\ i >= j => Reach(h, s, i) = Reach(h, s, j) + g[i] - g[j]}
<1>9. 0..n \subseteq S
  <2>1. 0 \in S
    BY <1>2, <1>3, <1>6 DEF PartialSums
  <2>2. ASSUME NEW i \in 1..n, i - 1 \in S PROVE i \in S
    <3>1. /\ i \in 0..n /\ i - 1 \in 0..n /\ content[i] \in Nat
          /\ g[i] = g[i - 1] + content[i]
          /\ g[i] \in Nat /\ g[i - 1] \in Nat /\ g[j] \in Nat
          /\ Reach(h, s, i) \in Nat /\ Reach(h, s, i - 1) \in Nat
          /\ Reach(h, s, j) \in Nat
      BY <1>2, <1>3, <1>4, <1>8
    <3>2. CASE i = j
      BY <1>2, <3>1, <3>2
    <3>3. CASE i # j
      <4>1. Reach(h, s, i) = Reach(h, s, i - 1) + content[i]
        BY <1>7, <3>3
      <4>2. CASE i < j
        <5>1. Reach(h, s, i - 1) = g[i - 1]
          BY <1>2, <2>2, <4>2
        <5> QED
          BY <1>2, <3>1, <4>1, <4>2, <5>1
      <4>3. CASE i > j
        <5>1. Reach(h, s, i - 1) = Reach(h, s, j) + g[i - 1] - g[j]
          BY <1>2, <2>2, <4>3
        <5>2. Reach(h, s, i) = Reach(h, s, j) + g[i] - g[j]
          <6> DEFINE r == Reach(h, s, j)
                     p == Reach(h, s, i - 1)
                     q == Reach(h, s, i)
          <6>1. /\ q = p + content[i] /\ p = r + g[i - 1] - g[j]
                /\ g[i] = g[i - 1] + content[i] /\ r \in Nat /\ g[i - 1] \in Nat
                /\ g[j] \in Nat /\ content[i] \in Nat
            BY <3>1, <4>1, <5>1
          <6> HIDE DEF r, p, q
          <6>2. q = r + g[i] - g[j]
            BY <6>1
          <6> QED
            BY <6>2 DEF r, q
        <5>3. i >= j /\ ~(i < j) /\ i \in 0..n
          BY <1>2, <3>1, <4>3
        <5> QED
          BY <5>2, <5>3
      <4> QED
        BY <1>2, <3>3, <4>2, <4>3
    <3> QED
      BY <3>2, <3>3
  <2> HIDE DEF S
  <2> QED
    BY <1>2, <2>1, <2>2, LoopInduction
<1>10. /\ Reach(h, s, j - 1) = g[j - 1]
       /\ max_size = Reach(h, s, j) + g[n] - g[j]
       /\ g[j] = g[j - 1] + content[j] /\ content[j] \in Nat /\ g[j] <= g[n]
  <2>1. Reach(h, s, n) = max_size
    BY <1>1, <1>5
  <2>2. g[j] <= g[n]
    BY <1>2, <1>3 DEF PartialSums
  <2> QED
    BY <1>2, <1>3, <1>8, <1>9, <2>1, <2>2
<1>11. size >= g[n] /\ g[n] \in Nat /\ g[j] \in Nat /\ g[j - 1] \in Nat
       /\ Reach(h, s, j) \in Nat
  BY <1>2, <1>3, <1>4
<1>12. /\ Reach(h, s, j) - Reach(h, s, j - 1) >= content[j]
       /\ size - Reach(h, s, j - 1) >= content[j]
  <2> DEFINE a == Reach(h, s, j - 1)
             b == Reach(h, s, j)
             c == content[j]
             all == g[n]
  <2>1. max_size \in Nat
    BY <1>2 DEF Numbers
  <2>2. a \in Nat /\ b \in Nat /\ c \in Nat /\ all \in Nat /\ size \in Nat
    BY <1>2, <1>10, <1>11
  <2>3. /\ max_size = b + all - (a + c) /\ a + c <= all
        /\ all <= size /\ size <= max_size
    BY <1>2, <1>10, <1>11
  <2> HIDE DEF a, b, c, all
  <2>4. a + c <= size /\ a + c <= b
    BY <2>1, <2>2, <2>3
  <2>5. b - a >= c /\ size - a >= c
    BY <2>2, <2>4
  <2> QED
    BY <2>5 DEF a, b, c
<1>13. j <= k
  <2> SUFFICES ASSUME j > k PROVE FALSE
    BY <1>2
  <2>1. k < n /\ k \in 0..n /\ k < j /\ k <= j - 1
    BY <1>2
  <2>2. Reach(h, s, k) >= size
    BY <1>1, <2>1 DEF Positions, n, k
  <2>3. Reach(h, s, k) = g[k] /\ g[k] <= g[j - 1] /\ g[k] \in Nat
    <3>1. k \in 0..n /\ k < j /\ j - 1 \in 0..n /\ k <= j - 1
      BY <1>2, <2>1
    <3>2. Reach(h, s, k) = g[k]
      BY <1>9, <3>1
    <3>3. g[k] <= g[j - 1]
      BY <1>3, <3>1 DEF PartialSums
    <3> QED
      BY <1>4, <3>1, <3>2, <3>3
  <2>4. g[j - 1] < g[n]
    <3>1. content[j] > 0 /\ content[j] \in Nat
      BY <1>10
    <3> QED
      BY <1>10, <1>11, <3>1
  <2>5. size <= g[k] /\ g[k] <= g[j - 1] /\ g[n] <= size
    BY <1>11, <2>2, <2>3
  <2> QED
    BY <1>2, <1>11, <2>3, <2>4, <2>5
<1>14. placed[j].size = AtMost(Reach(h, s, j) - Reach(h, s, j - 1),
                               size - Reach(h, s, j - 1))
  <2>1. j \in 1..Len(placed)
    BY <1>2, <1>13 DEF k
  <2> QED
    BY <1>1, <2>1, PlacedAt
<1> QED
  BY <1>12, <1>13, <1>14 DEF AtMost, k

(* What a node without wrap asks for is enough for its children with       *)
(* fit_content and for one that expands among them; with any room, a child *)
(* is printed that was not looked at for the size across only after one    *)
(* that was printed smaller than its content.                              *)
THEOREM NodesChildrenMeasured == Spec => []ChildrenMeasured
<1>1. SumInv /\ Started /\ NeedsMet => ChildrenMeasured
  <2> DEFINE n == Len(nodes)
             k == Len(placed)
  <2> SUFFICES ASSUME SumInv, Started, NeedsMet, phase = "done",
                      NEW content \in Contents
               PROVE  LET fits(i) == nodes[i].required = content[i]
                          alone(i) == /\ nodes[i].expand > 0
                                      /\ \A j \in (1..n) \ {i} :
                                           fits(j) /\ nodes[j].expand = 0
                          unbased == \A i \in 1..n : nodes[i].basis = 0
                      IN  /\ unbased /\ size >= SizeAlong(content) =>
                               \A i \in 1..n :
                                 content[i] > 0 /\ (fits(i) \/ alone(i)) =>
                                   i <= k /\ placed[i].size >= content[i]
                          /\ (\A i \in 1..k - 1 : placed[i].size >= content[i]) =>
                               1..k \subseteq MeasuredAcross(content, size)
    BY DEF ChildrenMeasured
  <2> DEFINE g == Sums(content)
  <2>1. PICK h, s : Positions(h, s)
    BY PlacedSoFar
  <2>2. PICK f : PartialSums(f, need, n) /\ min_sizes_sum = f[n]
    BY DEF SumInv, Summed, Totals
  <2>3. n \in Nat /\ k \in 0..n /\ size \in Nat /\ IInv /\ Numbers
    BY <2>1 DEF SumInv, IInv, Numbers, Positions
  <2>4. /\ \A i \in 1..n : content[i] \in Nat /\ nodes[i].required <= content[i]
        /\ PartialSums(g, content, n) /\ SizeAlong(content) = g[n]
        /\ Len(content) = n
    BY <2>3, ContentSums
  <2>5. \A i \in 1..n :
          /\ need[i] \in Nat
          /\ need[i] = AtLeast(nodes[i].required, nodes[i].basis)
          /\ nodes[i].basis \in Nat /\ nodes[i].required \in Nat
    BY <2>3, ValuesNat
  <2>6. ASSUME \A i \in 1..n : nodes[i].basis = 0, size >= SizeAlong(content),
               NEW i \in 1..n, content[i] > 0, nodes[i].required = content[i]
        PROVE  i <= k /\ placed[i].size >= content[i]
    <3>1. \A j \in 1..n : need[j] <= content[j]
      BY <2>4, <2>5, <2>6 DEF AtLeast
    <3>2. f[n] <= g[n] /\ f[n] \in Nat /\ g[n] \in Nat
      <4> HIDE DEF n, g
      <4>1. \A j \in 0..n : f[j] <= g[j]
        BY <2>2, <2>3, <2>4, <2>5, <3>1, SumsCompare
      <4>2. n \in 0..n
        BY <2>3
      <4> QED
        BY <2>2, <2>4, <4>1, <4>2 DEF PartialSums
    <3>3. min_sizes_sum <= size
      <4> HIDE DEF n, g
      <4> QED
        BY <2>2, <2>3, <2>4, <2>6, <3>2
    <3>4. /\ AtLeast(nodes[i].required, nodes[i].basis) = content[i]
          /\ content[i] \in Nat
      BY <2>4, <2>5, <2>6 DEF AtLeast
    <3> QED
      BY <2>6, <3>3, <3>4 DEF NeedsMet
  <2>7. ASSUME \A i \in 1..n : nodes[i].basis = 0, size >= SizeAlong(content),
               NEW i \in 1..n, content[i] > 0, nodes[i].expand > 0,
               \A j \in (1..n) \ {i} :
                 nodes[j].required = content[j] /\ nodes[j].expand = 0
        PROVE  i <= k /\ placed[i].size >= content[i]
    BY <2>7, AloneGetsRest
  <2>8. ASSUME \A i \in 1..k - 1 : placed[i].size >= content[i], NEW i \in 1..k
        PROVE  i \in MeasuredAcross(content, size)
    <3>1. i \in 1..n
      BY <2>3
    <3>2. ASSUME i # 1 PROVE g[i - 1] < size
      <4>1. /\ i \in 2..k /\ i - 1 \in 1..k - 1 /\ i - 1 \in 0..n
        BY <2>3, <3>2
      <4>2. g[i - 1] <= End(placed[i - 1])
        <5>1. \A m \in 1..k - 1 : content[m] \in Nat /\ placed[m].size >= content[m]
          BY <2>3, <2>4, <2>8
        <5> HIDE DEF g
        <5> QED
          BY <2>3, <2>4, <4>1, <5>1, ContentsReach
      <4>3. placed[(i - 1) + 1].at = End(placed[i - 1]) /\ placed[i].at < size
        BY <2>3, <4>1 DEF IInv, PlacedInside, Started
      <4>4. g[i - 1] \in Nat /\ placed[i].at \in Nat
        <5>1. placed[i].at \in Nat
          BY <2>3, <2>8, PlacedNat
        <5> HIDE DEF g
        <5> QED
          BY <2>4, <4>1, <5>1 DEF PartialSums
      <4> HIDE DEF g
      <4> QED
        BY <2>3, <4>1, <4>2, <4>3, <4>4
    <3> QED
      BY <2>4, <3>1, <3>2 DEF MeasuredAcross
  <2> QED
    BY <2>6, <2>7, <2>8
<1> QED
  BY <1>1, StartedInvariant, NodesNeedsMet, PTL

=============================================================================
