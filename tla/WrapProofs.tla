----------------------------- MODULE WrapProofs -----------------------------
(***************************************************************************)
(* The lines of a wrapped node, for any number of children of any size in  *)
(* an area of any size, children larger than the area included.            *)
(*                                                                         *)
(* LinesTile is not inductive: it needs that the line to come starts after *)
(* the last one's end (Ahead), which in turn holds because a line that got *)
(* all the room that was left is not followed by another one (Final).      *)
(*                                                                         *)
(* NothingLeftOut sums up the sizes of the children again (SizeUpTo): what  *)
(* the loop adds up is their sum (Summed), a line that ended was too long  *)
(* with the child after it (Broken), and one that is thicker than the room *)
(* left is so by one of its children (Thickest, Reaches).                  *)
(*                                                                         *)
(* AskedSuffices compares the loop with Packing, which computes the size   *)
(* asked for: both pack the same lines (Together), and a line that was not *)
(* cut holds its children (Held).                                          *)
(***************************************************************************)
EXTENDS Sizes, Induction, TLAPS

LastLine == lines[Len(lines)]

\* In the inner loop there is room, and no earlier line reaches into it.
Ahead ==
  /\ phase = "fill" => first <= Len(nodes) /\ prev_other_size <= max_other_size
  /\ phase = "fill" /\ lines # <<>> =>
       LastLine.at + LastLine.thick <= prev_other_size

\* At the outer loop, either the last line ends where the next one starts, or
\* there is none to come.
Final ==
  phase = "loop" /\ lines # <<>> =>
    \/ LastLine.at + LastLine.thick <= prev_other_size
    \/ first > Len(nodes)
    \/ prev_other_size > max_other_size

\* The children of the current line follow those of the lines before.
Counted ==
  /\ phase = "fill" => first + line_nodes_count = next
  /\ phase = "loop" => first = next
  /\ phase = "fill" /\ line_nodes_count = 0 => line_other_size = 0
  /\ lines = <<>> => first = 1 /\ prev_other_size = 0
  /\ lines # <<>> => first = LastLine.first + LastLine.count

\* What Packing says of the children before n.
packed(n) == Packing(nodes, max_size, TRUE)[n]

\* The line that a child starts is one it would not have joined.
Starts(n) ==
  n > 1 /\ n <= Len(nodes) => packed(n - 1).line + nodes[n].size > max_size

\* No child is in a line that is not printed.
Between == phase = "fill" => line_nodes_count = 0

\* print_wrapped_node packs as Packing does: the lines it has printed are as
\* thick in all as Packing says, and so is the line it fills.
Together ==
  /\ Between => prev_other_size = Thickness(packed(first - 1))
  /\ Between /\ phase # "done" => Starts(first)
  /\ phase = "fill" /\ Between => line_size = 0
  /\ ~Between => packed(next - 1) = [line  |-> line_size,
                                     thick |-> line_other_size,
                                     lines |-> prev_other_size]

\* A line printed so far holds its children, unless it was cut.
Held ==
  /\ phase = "fill" =>
       \A i \in first..next - 1 : nodes[i].other <= line_other_size
  /\ \/ prev_other_size > max_other_size
     \/ \A l \in 1..Len(lines) :
          \A i \in lines[l].first..lines[l].first + lines[l].count - 1 :
            nodes[i].other <= lines[l].thick

PackInv == Together /\ Held

\* The loop ends where it says.
Ended == phase = "done" => first > Len(nodes) \/ prev_other_size > max_other_size

IInv == TypeOK /\ Ahead /\ Final /\ Counted /\ LinesInside /\ LinesTile /\ Ended

\* line_size is how long the children of the current line are.
Summed == phase = "fill" => line_size = SizeUpTo[next - 1] - SizeUpTo[first - 1]

\* Line l and the child n after it are too long for the area.
TooLong(l, n) == SizeUpTo[n] - SizeUpTo[lines[l].first - 1] > max_size

\* The lines so far ended where they had to.
Broken ==
  /\ \A l \in 1..Len(lines) - 1 : TooLong(l, lines[l + 1].first)
  /\ lines # <<>> /\ first <= Len(nodes) => TooLong(Len(lines), first)

\* The current line is as thick as one of its children.
Thickest ==
  phase = "fill" /\ line_nodes_count # 0 =>
    \E i \in first..next - 1 : nodes[i].other = line_other_size

\* A child of line l reaches over the area's far edge.
ReachesOver(l) ==
  \E i \in Members(l) : lines[l].at + nodes[i].other > max_other_size

\* Lines that need more than the area do so by a child of the last one.
Reaches ==
  prev_other_size > max_other_size => lines # <<>> /\ ReachesOver(Len(lines))

FillInv == Summed /\ Broken /\ Thickest /\ Reaches

-----------------------------------------------------------------------------
(* Sizes of children are natural numbers.                                  *)
LEMMA ChildSizes ==
  ASSUME NEW children \in Seq(Sizes), NEW n \in 1..Len(children)
  PROVE  children[n].size \in Nat /\ children[n].other \in Nat
<1>1. children[n] \in Sizes
  OBVIOUS
<1> QED
  BY <1>1, SizesAssumption DEF Sizes

Totals == [line : Nat, thick : Nat, lines : Nat]

LEMMA PackTotals ==
  ASSUME NEW p \in Totals, NEW n, n.size \in Nat, n.other \in Nat, NEW long,
         NEW reset \in BOOLEAN
  PROVE  Pack(p, n, long, reset) \in Totals
<1>1. /\ p.line \in Nat /\ p.thick \in Nat /\ p.lines \in Nat
      /\ AtLeast(n.other, p.thick) \in Nat /\ AtLeast(n.other, 0) \in Nat
  BY DEF Totals, AtLeast
<1> QED
  BY <1>1 DEF Pack, Totals

(* The recursive function of Sizes exists, and is what it says.            *)
LEMMA PackingSteps ==
  ASSUME NEW children \in Seq(Sizes), NEW long, NEW reset \in BOOLEAN
  PROVE  /\ Packing(children, long, reset) \in [0..Len(children) -> Totals]
         /\ Packing(children, long, reset)[0] = Packed
         /\ \A n \in 1..Len(children) :
              Packing(children, long, reset)[n] =
                Pack(Packing(children, long, reset)[n - 1], children[n], long, reset)
<1> DEFINE N == Len(children)
           step == [a \in (1..N) \X Totals |-> Pack(a[2], children[a[1]], long, reset)]
           Is(f) == f = [n \in 0..N |-> IF n = 0 THEN Packed
                                        ELSE Pack(f[n - 1], children[n], long, reset)]
<1>1. N \in Nat /\ Packed \in Totals
  BY DEF Packed, Totals
<1>2. step \in [(1..N) \X Totals -> Totals]
  <2> SUFFICES ASSUME NEW a \in (1..N) \X Totals
               PROVE  Pack(a[2], children[a[1]], long, reset) \in Totals
    OBVIOUS
  <2>1. a[1] \in 1..N /\ a[2] \in Totals
    OBVIOUS
  <2> QED
    BY <2>1, ChildSizes, PackTotals
<1>3. \A n \in 1..N, t \in Totals : step[<<n, t>>] = Pack(t, children[n], long, reset)
  OBVIOUS
<1> HIDE DEF step
<1>4. PICK f \in [0..N -> Totals] : Recursion(f, N, Packed, step)
  BY <1>1, <1>2, RecursionExists
<1>5. Is(f)
  <2>1. \A n \in 0..N : n # 0 => n \in 1..N /\ n - 1 \in 0..N
    BY <1>1
  <2>2. \A n \in 0..N : n # 0 =>
          step[<<n, f[n - 1]>>] = Pack(f[n - 1], children[n], long, reset)
    BY <1>3, <2>1
  <2> QED
    BY <1>4, <2>2 DEF Recursion
<1>6. Packing(children, long, reset) = CHOOSE g : Is(g)
  BY DEF Packing
<1>7. Is(Packing(children, long, reset))
  <2> HIDE DEF Is
  <2> QED
    BY <1>5, <1>6
<1> DEFINE g == Packing(children, long, reset)
<1> HIDE DEF g
<1>8. /\ g = [n \in 0..N |-> g[n]]
      /\ g[0] = Packed
      /\ \A n \in 1..N : g[n] = Pack(g[n - 1], children[n], long, reset)
  BY <1>1, <1>7 DEF g
<1>9. 0..N \subseteq {n \in 0..N : g[n] \in Totals}
  <2> DEFINE S == {n \in 0..N : g[n] \in Totals}
  <2>1. 0 \in S
    BY <1>1, <1>8
  <2>2. ASSUME NEW n \in 1..N, n - 1 \in S PROVE n \in S
    BY <1>1, <1>8, <2>2, ChildSizes, PackTotals
  <2> HIDE DEF S
  <2>3. 0..N \subseteq S
    BY <1>1, <2>1, <2>2, LoopInduction
  <2> QED
    BY <2>3 DEF S
<1> QED
  BY <1>8, <1>9 DEF g

\* What all lines after n children take up.
LEMMA ThicknessNat ==
  ASSUME NEW p \in Totals
  PROVE  Thickness(p) \in Nat
  BY DEF Totals, Thickness

(* Another child never makes the lines thinner in all.                     *)
LEMMA PackGrows ==
  ASSUME NEW p \in Totals, NEW n, n.size \in Nat, n.other \in Nat, NEW long,
         NEW reset \in BOOLEAN
  PROVE  Thickness(p) <= Thickness(Pack(p, n, long, reset))
<1>1. /\ p.thick \in Nat /\ p.lines \in Nat
      /\ AtLeast(n.other, p.thick) >= p.thick
      /\ AtLeast(n.other, p.thick) \in Nat
      /\ AtLeast(n.other, 0) \in Nat
  BY DEF Totals, AtLeast
<1> QED
  BY <1>1 DEF Pack, Thickness

LEMMA ThicknessGrows ==
  ASSUME NEW children \in Seq(Sizes), NEW long, NEW reset \in BOOLEAN,
         NEW n \in 0..Len(children), NEW m \in 0..n
  PROVE  Thickness(Packing(children, long, reset)[m])
           <= Thickness(Packing(children, long, reset)[n])
<1> DEFINE N == Len(children)
           g == Packing(children, long, reset)
           S == {k \in 0..N : \A j \in 0..k : Thickness(g[j]) <= Thickness(g[k])}
<1>1. /\ N \in Nat
      /\ \A k \in 0..N : g[k] \in Totals /\ Thickness(g[k]) \in Nat
      /\ \A k \in 1..N : g[k] = Pack(g[k - 1], children[k], long, reset)
  BY PackingSteps, ThicknessNat
<1> HIDE DEF g
<1>2. 0 \in S
  BY <1>1
<1>3. ASSUME NEW k \in 1..N, k - 1 \in S PROVE k \in S
  <2>1. g[k - 1] \in Totals /\ g[k - 1] = g[k - 1]
    BY <1>1
  <2>2. Thickness(g[k - 1]) <= Thickness(g[k])
    BY <1>1, <2>1, ChildSizes, PackGrows
  <2>3. \A j \in 0..k : j = k \/ j \in 0..(k - 1)
    BY <1>1
  <2>4. \A j \in 0..k : Thickness(g[j]) <= Thickness(g[k])
    <3> SUFFICES ASSUME NEW j \in 0..k PROVE Thickness(g[j]) <= Thickness(g[k])
      OBVIOUS
    <3>1. /\ Thickness(g[j]) \in Nat /\ Thickness(g[k]) \in Nat
          /\ Thickness(g[k - 1]) \in Nat
      BY <1>1
    <3>2. j = k \/ Thickness(g[j]) <= Thickness(g[k - 1])
      BY <1>3, <2>3
    <3> QED
      BY <2>2, <3>1, <3>2
  <2> QED
    BY <1>1, <2>4
<1>4. 0..N \subseteq S
  <2> HIDE DEF S
  <2> QED
    BY <1>1, <1>2, <1>3, LoopInduction
<1> QED
  BY <1>1, <1>4 DEF g

(* Thicknesses that are not reset add up to at least as much.              *)
LEMMA PackThicker ==
  ASSUME NEW p \in Totals, NEW t \in Totals, NEW n, n.size \in Nat,
         n.other \in Nat, NEW long,
         t.line = p.line, t.thick >= p.thick, t.lines >= p.lines
  PROVE  LET q == Pack(p, n, long, TRUE)
             u == Pack(t, n, long, FALSE)
         IN  u.line = q.line /\ u.thick >= q.thick /\ u.lines >= q.lines
<1>1. /\ p.thick \in Nat /\ p.lines \in Nat /\ t.thick \in Nat /\ t.lines \in Nat
      /\ AtLeast(n.other, t.thick) >= AtLeast(n.other, p.thick)
      /\ AtLeast(n.other, t.thick) >= AtLeast(n.other, 0)
  BY DEF Totals, AtLeast
<1> QED
  BY <1>1 DEF Pack

LEMMA ThickLinesThicker ==
  ASSUME NEW children \in Seq(Sizes), NEW long
  PROVE  /\ Lines(children, long) \in Nat
         /\ ThickLines(children, long) \in Nat
         /\ Lines(children, long) <= ThickLines(children, long)
<1> DEFINE N == Len(children)
           g == Packing(children, long, TRUE)
           h == Packing(children, long, FALSE)
           S == {k \in 0..N : /\ h[k].line = g[k].line
                              /\ h[k].thick >= g[k].thick
                              /\ h[k].lines >= g[k].lines}
<1>1. /\ N \in Nat /\ g[0] = Packed /\ h[0] = Packed
      /\ \A k \in 0..N : g[k] \in Totals /\ h[k] \in Totals
      /\ \A k \in 1..N : g[k] = Pack(g[k - 1], children[k], long, TRUE)
      /\ \A k \in 1..N : h[k] = Pack(h[k - 1], children[k], long, FALSE)
  <2>1. /\ g[0] = Packed
        /\ \A k \in 0..N : g[k] \in Totals
        /\ \A k \in 1..N : g[k] = Pack(g[k - 1], children[k], long, TRUE)
    BY PackingSteps
  <2>2. /\ h[0] = Packed
        /\ \A k \in 0..N : h[k] \in Totals
        /\ \A k \in 1..N : h[k] = Pack(h[k - 1], children[k], long, FALSE)
    BY PackingSteps
  <2>3. N \in Nat
    OBVIOUS
  <2> QED
    BY <2>1, <2>2, <2>3
<1> HIDE DEF g, h
<1>2. 0 \in S
  BY <1>1 DEF Packed
<1>3. ASSUME NEW k \in 1..N, k - 1 \in S PROVE k \in S
  <2>1. /\ g[k - 1] \in Totals /\ h[k - 1] \in Totals
        /\ h[k - 1].line = g[k - 1].line
        /\ h[k - 1].thick >= g[k - 1].thick /\ h[k - 1].lines >= g[k - 1].lines
    BY <1>1, <1>3
  <2>2. children[k].size \in Nat /\ children[k].other \in Nat
    BY ChildSizes
  <2> DEFINE q == Pack(g[k - 1], children[k], long, TRUE)
             u == Pack(h[k - 1], children[k], long, FALSE)
  <2>3. u.line = q.line /\ u.thick >= q.thick /\ u.lines >= q.lines
    BY <2>1, <2>2, PackThicker
  <2>4. g[k] = q /\ h[k] = u
    BY <1>1
  <2> HIDE DEF q, u
  <2> QED
    BY <2>3, <2>4
<1>4. 0..N \subseteq S
  <2> HIDE DEF S
  <2> QED
    BY <1>1, <1>2, <1>3, LoopInduction
<1>5. /\ g[N] \in Totals /\ h[N] \in Totals
      /\ h[N].thick >= g[N].thick /\ h[N].lines >= g[N].lines
  BY <1>1, <1>4
<1>6. Thickness(g[N]) \in Nat /\ Thickness(h[N]) \in Nat
  BY <1>5, ThicknessNat
<1>7. Thickness(g[N]) <= Thickness(h[N])
  BY <1>5 DEF Thickness, Totals
<1> QED
  BY <1>6, <1>7 DEF Lines, ThickLines, g, h

(* The longest child is as long as a child, or no child is.                *)
LEMMA LongestChildNat ==
  ASSUME NEW children \in Seq(Sizes)
  PROVE  LongestChild(children) \in Nat
<1> DEFINE T == {0} \cup {children[i].size : i \in 1..Len(children)}
<1>1. T \in SUBSET Nat /\ \A m \in T : m <= MaxNode
  <2>1. MaxNode \in Nat
    BY SizesAssumption
  <2>2. \A i \in 1..Len(children) : children[i].size \in 0..MaxNode
    <3> SUFFICES ASSUME NEW i \in 1..Len(children)
                 PROVE  children[i].size \in 0..MaxNode
      OBVIOUS
    <3>1. children[i] \in Sizes
      OBVIOUS
    <3> QED
      BY <3>1 DEF Sizes
  <2> QED
    BY <2>1, <2>2
<1>2. \E m \in T : \A y \in T : y <= m
  <2>1. T # {} /\ MaxNode \in Nat
    BY SizesAssumption
  <2> HIDE DEF T
  <2> QED
    BY <1>1, <2>1, GreatestElement
<1>3. \E m \in T : \A i \in 1..Len(children) : children[i].size <= m
  BY <1>2
<1>4. LongestChild(children) \in T
  BY <1>3 DEF LongestChild
<1> QED
  BY <1>1, <1>4

(* A search that ends below its bound has found lines that are thin enough. *)
LEMMA FoundLinesFit ==
  ASSUME NEW children \in Seq(Sizes), NEW long \in Nat, NEW thick \in Nat,
         ShortestLines(children, long, thick) < long
  PROVE  Lines(children, ShortestLines(children, long, thick)) <= thick
<1> DEFINE start == LongestChild(children)
           tried == start + 1..long
           fitting == {s \in tried : Lines(children, s) <= thick}
           least == CHOOSE s \in fitting : \A r \in fitting : s <= r
<1>1. start \in Nat
  BY LongestChildNat
<1>2. ShortestLines(children, long, thick) =
        IF tried = {} THEN start ELSE IF fitting = {} THEN long ELSE least
  BY DEF ShortestLines
<1>3. tried # {}
  <2> SUFFICES ASSUME tried = {} PROVE FALSE
    OBVIOUS
  <2>1. start < long /\ start + 1 \in tried
    BY <1>1, <1>2
  <2> QED
    BY <2>1
<1>4. fitting # {}
  BY <1>2, <1>3
<1>5. least \in fitting
  <2>1. fitting \in SUBSET Nat
    BY <1>1
  <2> HIDE DEF fitting
  <2>2. \E s \in fitting : \A r \in fitting : s <= r
    BY <1>4, <2>1, LeastElement
  <2> QED
    BY <2>2
<1> QED
  BY <1>2, <1>3, <1>4, <1>5

-----------------------------------------------------------------------------

LEMMA InitInvariant == Init => IInv
<1> SUFFICES ASSUME Init PROVE IInv
  OBVIOUS
<1>1. nodes \in Seq(Sizes) /\ Len(nodes) \in Nat
  BY DEF Init
<1>2. TypeOK
  BY <1>1, SizesAssumption DEF Init, TypeOK
<1> QED
  BY <1>1, <1>2
     DEF Init, IInv, Ahead, Final, Counted, LinesInside, LinesTile,
         Ended

LEMMA LoopInvariant ==
  ASSUME IInv, Loop
  PROVE  IInv'
<1> USE DEF Loop, inputs, IInv
<1>1. TypeOK'
  BY DEF TypeOK
<1>2. Ahead' /\ Final' /\ Counted'
  BY DEF TypeOK, Ahead, Final, Counted, LastLine
<1>3. LinesInside' /\ LinesTile'
  BY DEF LinesInside, LinesTile
<1>4. Ended'
  BY DEF TypeOK, Ended
<1> QED
  BY <1>1, <1>2, <1>3, <1>4

LEMMA TakeNodeInvariant ==
  ASSUME IInv, TakeNode
  PROVE  IInv'
<1> USE DEF TakeNode, Fits, inputs, IInv
<1>1. nodes[next] \in Sizes /\ Len(nodes) \in Nat
  BY DEF TypeOK
<1>2. nodes[next].size \in Nat /\ nodes[next].other \in Nat
  BY <1>1, SizesAssumption DEF Sizes
<1>3. TypeOK'
  <2>1. line_nodes_count' \in Nat /\ line_size' \in Nat /\ line_other_size' \in Nat
    <3>1. {line_nodes_count, line_size, line_other_size} \subseteq Nat
      BY DEF TypeOK
    <3>2. /\ line_nodes_count' = line_nodes_count + 1
          /\ line_size' = line_size + nodes[next].size
          /\ line_other_size' \in {line_other_size, nodes[next].other}
      BY DEF AtLeast
    <3> HIDE DEF TakeNode, IInv
    <3> QED
      BY <1>2, <3>1, <3>2
  <2>2. next' \in 1..(Len(nodes) + 1)
    BY <1>1 DEF TypeOK
  <2> QED
    BY <2>1, <2>2 DEF TypeOK
<1>4. Ahead' /\ Final'
  BY DEF Ahead, Final, LastLine
<1>5. Counted'
  <2>1. line_nodes_count \in Nat /\ first \in Nat /\ next \in Nat
    BY <1>1 DEF TypeOK
  <2>2. first + line_nodes_count = next
    BY DEF Counted
  <2>3. line_nodes_count' = line_nodes_count + 1 /\ next' = next + 1
    OBVIOUS
  <2>4. line_nodes_count' # 0 /\ first + line_nodes_count' = next'
    <3> HIDE DEF TakeNode, IInv
    <3> QED
      BY <2>1, <2>2, <2>3
  <2> QED
    BY <2>4 DEF Counted, LastLine
<1>6. LinesInside' /\ LinesTile' /\ Ended'
  BY DEF LinesInside, LinesTile, Ended
<1> QED
  BY <1>3, <1>4, <1>5, <1>6

LEMMA PrintLineInvariant ==
  ASSUME IInv, PrintLine
  PROVE  IInv'
<1> USE DEF PrintLine, inputs, IInv
<1>1. NewLine \in Line
  BY DEF NewLine, Line, TypeOK
<1>2. /\ NewLine.first = first /\ NewLine.count = line_nodes_count
      /\ NewLine.at = prev_other_size
      /\ NewLine.thick = IF IsLast THEN max_other_size - prev_other_size
                                   ELSE line_other_size
  BY DEF NewLine
<1>3. NewLine.thick >= 0 /\ NewLine.at + NewLine.thick <= max_other_size
  <2>1. {prev_other_size, line_other_size, max_other_size} \subseteq Nat
    BY DEF TypeOK
  <2>2. prev_other_size <= max_other_size
    BY DEF Ahead
  <2>3. ~IsLast => prev_other_size + line_other_size <= max_other_size
    BY <2>1 DEF IsLast
  <2> HIDE DEF PrintLine, IInv, NewLine
  <2> QED
    BY <1>2, <2>1, <2>2, <2>3
<1> HIDE DEF NewLine
<1>4. CASE line_nodes_count = 0
  <2>1. UNCHANGED <<lines, prev_other_size, first, next>>
    BY <1>4 DEF TypeOK, Counted
  <2> QED
    BY <1>4, <2>1 DEF TypeOK, Ahead, Final, Counted, LastLine, LinesInside,
                      LinesTile, Ended
<1>5. CASE line_nodes_count # 0
  <2>1. /\ lines' \in Seq(Line)
        /\ lines' # <<>>
        /\ Len(lines') = Len(lines) + 1
        /\ \A i \in 1..Len(lines) : lines'[i] = lines[i]
        /\ lines'[Len(lines) + 1] = NewLine
    <3>1. lines \in Seq(Line) /\ lines' = Append(lines, NewLine)
      BY <1>5 DEF TypeOK
    <3> HIDE DEF PrintLine, IInv, Line
    <3> QED
      BY <1>1, <3>1
  <2>2. Len(lines) \in Nat /\ Len(nodes) \in Nat
    BY DEF TypeOK
  <2>3. LastLine' = NewLine
    BY <2>1 DEF LastLine
  <2>4. TypeOK'
    BY <2>1 DEF TypeOK
  <2>5. Ahead'
    BY DEF Ahead
  <2>6. Final'
    BY <1>2, <2>2, <2>3 DEF Final, IsLast, TypeOK
  <2>7. Counted'
    BY <1>2, <2>1, <2>3 DEF Counted
  <2>8. LinesInside'
    BY <1>3, <2>1, <2>2 DEF LinesInside
  <2>9. LinesTile'
    <3>1. lines # <<>> => /\ NewLine.first = LastLine.first + LastLine.count
                          /\ NewLine.at >= LastLine.at + LastLine.thick
      BY <1>2 DEF Ahead, Counted
    <3>2. \A i \in 1..Len(lines') - 1 :
            /\ lines'[i + 1].first = lines'[i].first + lines'[i].count
            /\ lines'[i + 1].at >= lines'[i].at + lines'[i].thick
      <4> SUFFICES ASSUME NEW i \in 1..Len(lines)
                   PROVE  /\ lines'[i + 1].first = lines'[i].first + lines'[i].count
                          /\ lines'[i + 1].at >= lines'[i].at + lines'[i].thick
        BY <2>1, <2>2
      <4>1. CASE i = Len(lines)
        BY <2>1, <2>2, <3>1, <4>1 DEF LastLine
      <4>2. CASE i # Len(lines)
        BY <2>1, <2>2, <4>2 DEF LinesTile
      <4> QED
        BY <4>1, <4>2
    <3>3. lines'[1].first = 1 /\ lines'[1].at = 0
      <4>1. CASE lines = <<>>
        BY <1>2, <2>1, <4>1 DEF Counted
      <4>2. CASE lines # <<>>
        BY <2>1, <2>2, <4>2 DEF LinesTile
      <4> QED
        BY <4>1, <4>2
    <3>4. first' = LastLine'.first + LastLine'.count
      BY <1>2, <2>3 DEF Counted
    <3> QED
      BY <3>2, <3>3, <3>4 DEF LinesTile, LastLine
  <2>10. Ended'
    BY DEF Ended
  <2> QED
    BY <2>4, <2>5, <2>6, <2>7, <2>8, <2>9, <2>10
<1> QED
  BY <1>4, <1>5

LEMMA WrapInvariant == Spec => []IInv
<1>1. Init => IInv
  BY InitInvariant
<1>2. IInv /\ [Next]_vars => IInv'
  <2> SUFFICES ASSUME IInv, [Next]_vars PROVE IInv'
    OBVIOUS
  <2>1. CASE Loop
    BY <2>1, LoopInvariant
  <2>2. CASE TakeNode
    BY <2>2, TakeNodeInvariant
  <2>3. CASE PrintLine
    BY <2>3, PrintLineInvariant
  <2>4. CASE UNCHANGED vars
    BY <2>4 DEF vars, IInv, TypeOK, Ahead, Final, Counted, LastLine,
                LinesInside, LinesTile, Ended
  <2> QED
    BY <2>1, <2>2, <2>3, <2>4 DEF Next
<1> QED
  BY <1>1, <1>2, PTL DEF Spec

(* No step of the loop takes a size below zero or reads past the children. *)
THEOREM WrapTypeCorrect == Spec => []TypeOK
<1>1. IInv => TypeOK
  BY DEF IInv
<1> QED
  BY <1>1, WrapInvariant, PTL

(* No line of a wrapped node is drawn outside the node's area.             *)
THEOREM WrapLinesInside == Spec => []LinesInside
<1>1. IInv => LinesInside
  BY DEF IInv
<1> QED
  BY <1>1, WrapInvariant, PTL

(* The lines print the children in order, each once, side by side.         *)
THEOREM WrapLinesTile == Spec => []LinesTile
<1>1. IInv => LinesTile
  BY DEF IInv
<1> QED
  BY <1>1, WrapInvariant, PTL

-----------------------------------------------------------------------------

(* The children's sizes add up one by one.                                 *)
LEMMA SizeUpToSteps ==
  ASSUME TypeOK
  PROVE  /\ SizeUpTo \in [0..Len(nodes) -> Nat]
         /\ SizeUpTo[0] = 0
         /\ \A n \in 1..Len(nodes) : SizeUpTo[n] = SizeUpTo[n - 1] + nodes[n].size
<1> DEFINE N == Len(nodes)
           step == [a \in (1..N) \X Nat |-> a[2] + nodes[a[1]].size]
           Is(f) == f = [n \in 0..N |-> IF n = 0 THEN 0
                                        ELSE f[n - 1] + nodes[n].size]
<1>1. N \in Nat /\ nodes \in Seq(Sizes) /\ 0 \in Nat
  BY DEF TypeOK
<1>2. step \in [(1..N) \X Nat -> Nat]
  <2> SUFFICES ASSUME NEW a \in (1..N) \X Nat
               PROVE  a[2] + nodes[a[1]].size \in Nat
    OBVIOUS
  <2>1. a[1] \in 1..N /\ a[2] \in Nat
    OBVIOUS
  <2>2. nodes[a[1]].size \in Nat
    BY <1>1, <2>1, ChildSizes
  <2> QED
    BY <2>1, <2>2
<1>3. \A n \in 1..N, t \in Nat : step[<<n, t>>] = t + nodes[n].size
  OBVIOUS
<1> HIDE DEF step
<1>4. PICK f \in [0..N -> Nat] : Recursion(f, N, 0, step)
  BY <1>1, <1>2, RecursionExists
<1>5. Is(f)
  <2>1. \A n \in 0..N : n # 0 => n \in 1..N /\ n - 1 \in 0..N
    BY <1>1
  <2>2. \A n \in 0..N : n # 0 => step[<<n, f[n - 1]>>] = f[n - 1] + nodes[n].size
    BY <1>3, <2>1
  <2> QED
    BY <1>4, <2>2 DEF Recursion
<1>6. SizeUpTo = CHOOSE g : Is(g)
  BY DEF SizeUpTo
<1>7. Is(SizeUpTo)
  <2> HIDE DEF Is
  <2> QED
    BY <1>5, <1>6
<1> DEFINE g == SizeUpTo
<1> HIDE DEF g
<1>8. /\ g = [n \in 0..N |-> g[n]]
      /\ g[0] = 0
      /\ \A n \in 1..N : g[n] = g[n - 1] + nodes[n].size
  BY <1>1, <1>7 DEF g
<1>9. 0..N \subseteq {n \in 0..N : g[n] \in Nat}
  <2> DEFINE T == {n \in 0..N : g[n] \in Nat}
  <2>1. 0 \in T
    BY <1>1, <1>8
  <2>2. ASSUME NEW n \in 1..N, n - 1 \in T PROVE n \in T
    <3>1. n \in 0..N /\ g[n - 1] \in Nat
      BY <1>1, <2>2
    <3>2. nodes[n].size \in Nat
      BY <1>1, ChildSizes
    <3>3. g[n] = g[n - 1] + nodes[n].size
      BY <1>8
    <3> QED
      BY <3>1, <3>2, <3>3
  <2> HIDE DEF T
  <2>3. 0..N \subseteq T
    BY <1>1, <2>1, <2>2, LoopInduction
  <2> QED
    BY <2>3 DEF T
<1> QED
  BY <1>8, <1>9 DEF g

LEMMA SummedAt ==
  ASSUME TypeOK, NEW n \in 1..Len(nodes), NEW m \in 1..(Len(nodes) + 1)
  PROVE  /\ SizeUpTo[n] = SizeUpTo[n - 1] + nodes[n].size
         /\ SizeUpTo[n - 1] \in Nat /\ SizeUpTo[m - 1] \in Nat
<1>1. n - 1 \in 0..Len(nodes) /\ m - 1 \in 0..Len(nodes)
  BY DEF TypeOK
<1> QED
  BY <1>1, SizeUpToSteps

LEMMA InitFills == Init => FillInv
<1> SUFFICES ASSUME Init PROVE FillInv
  OBVIOUS
<1>1. lines = <<>> /\ Len(lines) = 0 /\ phase = "loop"
      /\ prev_other_size = 0 /\ max_other_size \in Nat
  BY SizesAssumption DEF Init
<1> QED
  BY <1>1 DEF FillInv, Summed, Broken, Thickest, Reaches

\* Nothing of the lines, nor of the children, changes.
LEMMA FillsUnchanged ==
  ASSUME FillInv,
         UNCHANGED <<nodes, max_size, max_other_size, first, prev_other_size, lines>>
  PROVE  Broken' /\ Reaches'
<1>1. SizeUpTo' = SizeUpTo
  BY DEF SizeUpTo
<1> QED
  BY <1>1 DEF FillInv, Broken, TooLong, Reaches, ReachesOver, Members

LEMMA LoopFills ==
  ASSUME IInv, FillInv, Loop
  PROVE  FillInv'
<1>1. Broken' /\ Reaches'
  BY FillsUnchanged DEF Loop, inputs
<1>2. Thickest'
  BY DEF Loop, Thickest
<1>3. Summed'
  <2>1. /\ first = next /\ first \in 1..(Len(nodes) + 1) /\ Len(nodes) \in Nat
        /\ UNCHANGED <<nodes, first, next>> /\ line_size' = 0 /\ TypeOK
    <3>1. first = next
      BY DEF IInv, Counted, Loop
    <3>2. TypeOK /\ UNCHANGED <<nodes, first, next>> /\ line_size' = 0
      BY DEF IInv, Loop, inputs
    <3>3. first \in 1..(Len(nodes) + 1) /\ Len(nodes) \in Nat
      BY <3>2 DEF TypeOK
    <3> QED
      BY <3>1, <3>2, <3>3
  <2>2. SizeUpTo[first - 1] \in Nat
    <3>1. TypeOK /\ first - 1 \in 0..Len(nodes)
      BY <2>1
    <3> QED
      BY <3>1, SizeUpToSteps
  <2>3. SizeUpTo' = SizeUpTo
    BY <2>1 DEF SizeUpTo
  <2> DEFINE m == SizeUpTo[first - 1]
  <2>4. (SizeUpTo[next - 1])' = m /\ (SizeUpTo[first - 1])' = m
    BY <2>1, <2>3
  <2>5. m - m = 0
    <3>1. m \in Nat
      BY <2>2
    <3> HIDE DEF m
    <3> QED
      BY <3>1
  <2> HIDE DEF m
  <2> QED
    BY <2>1, <2>4, <2>5 DEF Summed
<1> QED
  BY <1>1, <1>2, <1>3 DEF FillInv

LEMMA TakeNodeFills ==
  ASSUME IInv, FillInv, TakeNode
  PROVE  FillInv'
<1>1. /\ TypeOK /\ Len(nodes) \in Nat /\ phase = "fill" /\ nodes \in Seq(Sizes)
      /\ next \in 1..Len(nodes) /\ first \in 1..(Len(nodes) + 1)
      /\ first + line_nodes_count = next
      /\ line_nodes_count \in Nat /\ line_other_size \in Nat
      /\ (line_nodes_count = 0 => line_other_size = 0)
  BY DEF IInv, TypeOK, Counted, TakeNode, Fits
<1>2. /\ UNCHANGED <<nodes, max_size, max_other_size, first, prev_other_size, lines>>
      /\ next' = next + 1 /\ line_size' = line_size + nodes[next].size
      /\ line_other_size' = AtLeast(line_other_size, nodes[next].other)
  BY DEF TakeNode, inputs
<1>3. Broken' /\ Reaches'
  BY <1>2, FillsUnchanged
<1>4. nodes[next].size \in Nat /\ nodes[next].other \in Nat
  BY <1>1, ChildSizes
<1>5. Summed'
  <2>1. /\ SizeUpTo[next] = SizeUpTo[next - 1] + nodes[next].size
        /\ SizeUpTo[next - 1] \in Nat /\ SizeUpTo[first - 1] \in Nat
    BY <1>1, SummedAt
  <2>2. line_size = SizeUpTo[next - 1] - SizeUpTo[first - 1]
    BY <1>1 DEF FillInv, Summed
  <2>3. SizeUpTo' = SizeUpTo
    BY <1>2 DEF SizeUpTo
  <2>4. next' - 1 = next
    BY <1>1, <1>2
  <2>5. line_size' = SizeUpTo[next] - SizeUpTo[first - 1]
    BY <1>2, <1>4, <2>1, <2>2
  <2> QED
    BY <1>2, <2>3, <2>4, <2>5 DEF Summed
<1>6. Thickest'
  <2>1. next \in first..next' - 1
    BY <1>1, <1>2
  <2>2. CASE line_other_size' = nodes[next].other
    BY <1>2, <2>1, <2>2 DEF Thickest
  <2>3. CASE line_other_size' # nodes[next].other
    <3>1. line_other_size' = line_other_size /\ line_nodes_count # 0
      BY <1>1, <1>2, <1>4, <2>3 DEF AtLeast
    <3>2. PICK i \in first..next - 1 : nodes[i].other = line_other_size
      BY <1>1, <3>1 DEF FillInv, Thickest
    <3>3. i \in first..next' - 1
      BY <1>1, <1>2, <3>2
    <3> QED
      BY <1>2, <3>1, <3>2, <3>3 DEF Thickest
  <2> QED
    BY <2>2, <2>3
<1> QED
  BY <1>3, <1>5, <1>6 DEF FillInv

LEMMA PrintLineFills ==
  ASSUME IInv, FillInv, PrintLine
  PROVE  FillInv'
<1>1. /\ TypeOK /\ Len(nodes) \in Nat /\ phase = "fill" /\ phase' = "loop"
      /\ nodes \in Seq(Sizes) /\ max_size \in Nat /\ max_other_size \in Nat
      /\ next \in 1..(Len(nodes) + 1) /\ first \in 1..(Len(nodes) + 1)
      /\ first + line_nodes_count = next /\ line_nodes_count \in Nat
      /\ line_size \in Nat /\ prev_other_size \in Nat /\ line_other_size \in Nat
      /\ lines \in Seq(Line) /\ Len(lines) \in Nat
      /\ UNCHANGED <<nodes, max_size, max_other_size>>
      /\ first' = next /\ prev_other_size' = prev_other_size + line_other_size
  BY DEF IInv, TypeOK, Counted, PrintLine, inputs
<1>2. Summed' /\ Thickest'
  BY <1>1 DEF Summed, Thickest
<1>3. CASE line_nodes_count = 0
  <2>1. UNCHANGED <<lines, first, prev_other_size>>
    BY <1>1, <1>3 DEF IInv, Counted, PrintLine
  <2> QED
    BY <1>1, <1>2, <2>1, FillsUnchanged DEF FillInv
<1>4. CASE line_nodes_count # 0
  <2>1. /\ lines' # <<>>
        /\ Len(lines') = Len(lines) + 1
        /\ \A l \in 1..Len(lines) : lines'[l] = lines[l]
        /\ lines'[Len(lines) + 1] = NewLine
    <3>1. lines' = Append(lines, NewLine)
      BY <1>4 DEF PrintLine
    <3> QED
      BY <1>1, <3>1
  <2>2. /\ NewLine.first = first /\ NewLine.count = line_nodes_count
        /\ NewLine.at = prev_other_size
    BY DEF NewLine
  <2>3. SizeUpTo' = SizeUpTo
    BY <1>1 DEF SizeUpTo
  <2>4. Broken'
    <3>1. ASSUME NEW l \in 1..Len(lines') - 1
          PROVE  TooLong(l, lines[l + 1].first)'
      <4>1. CASE l = Len(lines)
        <5>1. first <= Len(nodes)
          BY <1>1 DEF IInv, Ahead
        <5>2. TooLong(l, first)
          BY <1>1, <2>1, <4>1, <5>1 DEF FillInv, Broken
        <5>3. lines'[l] = lines[l] /\ lines'[l + 1].first = first
          BY <1>1, <2>1, <2>2, <3>1, <4>1
        <5> QED
          BY <1>1, <2>3, <5>2, <5>3 DEF TooLong
      <4>2. CASE l # Len(lines)
        <5>1. l \in 1..Len(lines) - 1 /\ l \in 1..Len(lines) /\ l + 1 \in 1..Len(lines)
          BY <1>1, <2>1, <4>2
        <5>2. TooLong(l, lines[l + 1].first)
          BY <5>1 DEF FillInv, Broken
        <5>3. lines'[l] = lines[l] /\ lines'[l + 1] = lines[l + 1]
          BY <2>1, <5>1
        <5> QED
          BY <1>1, <2>3, <5>2, <5>3 DEF TooLong
      <4> QED
        BY <4>1, <4>2
    <3>2. ASSUME next <= Len(nodes) PROVE TooLong(Len(lines), first)'
      <4>1. /\ SizeUpTo[next] = SizeUpTo[next - 1] + nodes[next].size
            /\ SizeUpTo[next - 1] \in Nat /\ SizeUpTo[first - 1] \in Nat
        <5>1. next \in 1..Len(nodes)
          BY <1>1, <3>2
        <5> QED
          BY <1>1, <5>1, SummedAt
      <4>2. nodes[next].size \in Nat
        BY <1>1, <3>2, ChildSizes
      <4>3. line_size + nodes[next].size > max_size
        BY <1>1, <3>2, <4>2 DEF PrintLine, Fits
      <4>4. line_size = SizeUpTo[next - 1] - SizeUpTo[first - 1]
        BY <1>1 DEF FillInv, Summed
      <4>5. SizeUpTo[next] - SizeUpTo[first - 1] > max_size
        BY <1>1, <4>1, <4>2, <4>3, <4>4
      <4>6. lines'[Len(lines')].first = first
        BY <2>1, <2>2
      <4> QED
        BY <1>1, <2>3, <4>5, <4>6 DEF TooLong
    <3> QED
      BY <1>1, <3>1, <3>2 DEF Broken
  <2>5. Reaches'
    <3> SUFFICES ASSUME prev_other_size + line_other_size > max_other_size
                 PROVE  ReachesOver(Len(lines))'
      BY <1>1, <2>1 DEF Reaches
    <3>1. PICK i \in first..next - 1 : nodes[i].other = line_other_size
      BY <1>1, <1>4 DEF FillInv, Thickest
    <3>2. lines'[Len(lines')] = NewLine
      BY <2>1
    <3>3. i \in first..first + line_nodes_count - 1
      BY <1>1, <3>1
    <3>4. i \in Members(Len(lines))'
      BY <2>2, <3>2, <3>3 DEF Members
    <3>5. lines'[Len(lines')].at + nodes'[i].other > max_other_size'
      BY <1>1, <2>2, <3>1, <3>2
    <3> QED
      BY <3>4, <3>5 DEF ReachesOver
  <2> QED
    BY <1>2, <2>4, <2>5 DEF FillInv
<1> QED
  BY <1>1, <1>3, <1>4

LEMMA FillInvariant == Spec => []FillInv
<1>1. Init => FillInv
  BY InitFills
<1>2. IInv /\ FillInv /\ [Next]_vars => FillInv'
  <2> SUFFICES ASSUME IInv, FillInv, [Next]_vars PROVE FillInv'
    OBVIOUS
  <2>1. CASE UNCHANGED vars
    <3>1. SizeUpTo' = SizeUpTo
      BY <2>1 DEF vars, SizeUpTo
    <3> QED
      BY <2>1, <3>1 DEF vars, FillInv, Summed, Broken, TooLong, Thickest,
                        Reaches, ReachesOver, Members
  <2> QED
    BY <2>1, LoopFills, TakeNodeFills, PrintLineFills DEF Next
<1> QED
  BY <1>1, <1>2, WrapInvariant, PTL DEF Spec

(* Lines end only where the next child would not have fitted, and a child  *)
(* is left out only if one of the last line reaches over the far edge, for *)
(* any children and area.                                                  *)
THEOREM WrapNothingLeftOut == Spec => []NothingLeftOut
<1>1. IInv /\ FillInv => NothingLeftOut
  <2> SUFFICES ASSUME IInv, FillInv PROVE NothingLeftOut
    OBVIOUS
  <2>1. \A l \in 1..Len(lines) - 1 : TooLong(l, lines[l + 1].first)
    BY DEF FillInv, Broken
  <2>2. ASSUME phase = "done", first <= Len(nodes)
        PROVE  Len(lines) \in 1..Len(lines) /\ ReachesOver(Len(lines))
    <3>1. lines \in Seq(Line) /\ Len(nodes) \in Nat /\ first \in Nat
      BY DEF IInv, TypeOK
    <3>2. prev_other_size > max_other_size
      BY <2>2, <3>1 DEF IInv, Ended
    <3>3. lines # <<>> /\ ReachesOver(Len(lines))
      BY <3>2 DEF FillInv, Reaches
    <3> QED
      BY <3>1, <3>3
  <2> QED
    BY <2>1, <2>2 DEF NothingLeftOut, TooLong, ReachesOver
<1> QED
  BY <1>1, WrapInvariant, FillInvariant, PTL

-----------------------------------------------------------------------------

\* What Packing is for the node that is printed.
LEMMA PackedSteps ==
  ASSUME TypeOK
  PROVE  /\ Len(nodes) \in Nat
         /\ packed(0) = Packed
         /\ \A n \in 0..Len(nodes) : packed(n) \in Totals
         /\ \A n \in 1..Len(nodes) :
              packed(n) = Pack(packed(n - 1), nodes[n], max_size, TRUE)
<1>1. nodes \in Seq(Sizes)
  BY DEF TypeOK
<1>2. Len(nodes) \in Nat
  BY <1>1
<1>3. /\ packed(0) = Packed
      /\ \A n \in 0..Len(nodes) : packed(n) \in Totals
      /\ \A n \in 1..Len(nodes) :
           packed(n) = Pack(packed(n - 1), nodes[n], max_size, TRUE)
  BY <1>1, PackingSteps DEF packed
<1> QED
  BY <1>2, <1>3

LEMMA InitPacks == Init => PackInv
<1> SUFFICES ASSUME Init PROVE PackInv
  OBVIOUS
<1>1. packed(0) = Packed
  BY InitInvariant, PackedSteps DEF IInv
<1> QED
  BY <1>1 DEF Init, PackInv, Together, Held, Between, Starts, Packed, Thickness

LEMMA LoopPacks ==
  ASSUME IInv, PackInv, Loop
  PROVE  PackInv'
<1> USE DEF Loop, inputs, PackInv
<1>1. phase # "fill" /\ first = next /\ first \in Nat
  BY DEF IInv, Counted, TypeOK
<1>2. Together'
  BY <1>1 DEF Together, Between, Starts, packed
<1>3. Held'
  BY <1>1 DEF Held
<1> QED
  BY <1>2, <1>3

(* A child that starts a line: Packing starts one as well, or it is the    *)
(* first child of all.                                                     *)
LEMMA LineStarts ==
  ASSUME NEW p \in Totals, NEW n, n.size \in Nat, n.other \in Nat,
         NEW long \in Nat, n.size <= long, p = Packed \/ p.line + n.size > long
  PROVE  Pack(p, n, long, TRUE) = [line  |-> 0 + n.size,
                                   thick |-> AtLeast(0, n.other),
                                   lines |-> Thickness(p)]
<1>1. /\ p.line \in Nat /\ p.thick \in Nat /\ p.lines \in Nat
      /\ AtLeast(0, n.other) = n.other /\ AtLeast(n.other, 0) = n.other
  BY DEF Totals, AtLeast
<1>2. CASE p.line + n.size > long
  BY <1>1, <1>2 DEF Pack, Thickness
<1>3. CASE ~(p.line + n.size > long)
  <2>1. p.line = 0 /\ p.thick = 0 /\ p.lines = 0
    BY <1>3 DEF Packed
  <2> QED
    BY <1>1, <1>3, <2>1 DEF Pack, Thickness
<1> QED
  BY <1>2, <1>3

LEMMA AtLeastCommutes ==
  ASSUME NEW a \in Nat, NEW b \in Nat
  PROVE  AtLeast(a, b) = AtLeast(b, a)
  BY DEF AtLeast

(* A child that joins a line does in both.                                 *)
LEMMA LineContinues ==
  ASSUME NEW p \in Totals, NEW n \in Sizes, NEW long \in Nat,
         p.line + n.size <= long
  PROVE  Pack(p, n, long, TRUE) = [line  |-> p.line + n.size,
                                   thick |-> AtLeast(p.thick, n.other),
                                   lines |-> p.lines]
<1> DEFINE line == p.line
           thick == p.thick
           above == p.lines
<1>1. /\ line \in Nat /\ thick \in Nat /\ above \in Nat
      /\ n.size \in Nat /\ n.other \in Nat
  BY SizesAssumption DEF Totals, Sizes
<1>2. AtLeast(thick, n.other) = AtLeast(n.other, thick)
  BY <1>1, AtLeastCommutes
<1>3. n.size + line = line + n.size /\ above + 0 = above
  BY <1>1
<1>4. ~(line + n.size > long)
  BY <1>1
<1> QED
  BY <1>2, <1>3, <1>4 DEF Pack

LEMMA TakeNodePacks ==
  ASSUME IInv, PackInv, TakeNode
  PROVE  PackInv'
<1> USE DEF TakeNode, Fits, inputs, PackInv
<1>1. /\ nodes \in Seq(Sizes) /\ Len(nodes) \in Nat
      /\ max_size \in Nat /\ line_size \in Nat /\ line_other_size \in Nat
      /\ line_nodes_count \in Nat /\ prev_other_size \in Nat
      /\ first \in Nat /\ next \in 1..Len(nodes)
  BY DEF IInv, TypeOK
<1>2. nodes[next].size \in Nat /\ nodes[next].other \in Nat
  BY <1>1, ChildSizes
<1>3. /\ packed(0) = Packed
      /\ packed(next - 1) \in Totals
      /\ packed(next) = Pack(packed(next - 1), nodes[next], max_size, TRUE)
  <2>1. TypeOK /\ next - 1 \in 0..Len(nodes)
    BY <1>1 DEF IInv
  <2> HIDE DEF TakeNode, PackInv
  <2> QED
    BY <1>1, <2>1, PackedSteps
<1>4. first + line_nodes_count = next
  BY DEF IInv, Counted
<1>5. packed(next) = [line  |-> line_size', thick |-> line_other_size',
                      lines |-> prev_other_size]
  <2>1. CASE line_nodes_count = 0
    <3>1. first = next /\ line_size = 0 /\ line_other_size = 0
      BY <1>1, <1>4, <2>1 DEF IInv, Counted, Together, Between
    <3>2. /\ prev_other_size = Thickness(packed(next - 1))
          /\ next > 1 => packed(next - 1).line + nodes[next].size > max_size
      BY <1>1, <2>1, <3>1 DEF Together, Between, Starts
    <3>3. packed(next - 1) = Packed \/ next > 1
      BY <1>1, <1>3
    <3>4. nodes[next].size <= max_size
      BY <1>2, <3>1
    <3> QED
      BY <1>1, <1>2, <1>3, <3>1, <3>2, <3>3, <3>4, LineStarts
  <2>2. CASE line_nodes_count # 0
    <3>1. packed(next - 1) = [line  |-> line_size, thick |-> line_other_size,
                              lines |-> prev_other_size]
      BY <2>2 DEF Together, Between
    <3>2. /\ line_size + nodes[next].size <= max_size
          /\ line_size' = line_size + nodes[next].size
          /\ line_other_size' = AtLeast(line_other_size, nodes[next].other)
      OBVIOUS
    <3> HIDE DEF TakeNode, Fits, PackInv
    <3> DEFINE p == [line  |-> line_size, thick |-> line_other_size,
                     lines |-> prev_other_size]
    <3>3. Pack(p, nodes[next], max_size, TRUE)
            = [line  |-> line_size + nodes[next].size,
               thick |-> AtLeast(line_other_size, nodes[next].other),
               lines |-> prev_other_size]
      <4>1. /\ p \in Totals /\ nodes[next] \in Sizes /\ max_size \in Nat
            /\ p.line + nodes[next].size <= max_size
        BY <1>1, <3>2 DEF Totals
      <4>2. /\ p.line = line_size /\ p.thick = line_other_size
            /\ p.lines = prev_other_size
        OBVIOUS
      <4> HIDE DEF p
      <4> QED
        BY <4>1, <4>2, LineContinues
    <3>4. packed(next) = Pack(p, nodes[next], max_size, TRUE)
      BY <1>3, <3>1
    <3> QED
      BY <3>2, <3>3, <3>4
  <2> QED
    BY <2>1, <2>2
<1>6. Together'
  <2>1. /\ next' - 1 = next /\ UNCHANGED <<nodes, max_size, prev_other_size>>
        /\ line_nodes_count' # 0 /\ phase' = "fill"
    BY <1>1
  <2>2. packed(next - 1)' = packed(next)
    BY <2>1 DEF packed
  <2> HIDE DEF TakeNode
  <2> QED
    BY <1>5, <2>1, <2>2 DEF Together, Between
<1>7. Held'
  <2>1. \A i \in first..next : nodes[i].other <= line_other_size'
    <3> SUFFICES ASSUME NEW i \in first..next
                 PROVE  nodes[i].other <= line_other_size'
      OBVIOUS
    <3>1. i \in 1..Len(nodes)
      BY <1>1 DEF IInv, TypeOK
    <3>2. nodes[i].other \in Nat
      BY <1>1, <3>1, ChildSizes
    <3>3. CASE i = next
      BY <1>1, <1>2, <3>3 DEF AtLeast
    <3>4. CASE i # next
      <4>1. nodes[i].other <= line_other_size
        BY <1>1, <3>4 DEF Held
      <4> QED
        BY <1>1, <1>2, <3>2, <4>1 DEF AtLeast
    <3> QED
      BY <3>3, <3>4
  <2>2. next' - 1 = next
    BY <1>1
  <2>3. phase' = "fill" => \A i \in first'..next' - 1 :
                              nodes'[i].other <= line_other_size'
    BY <2>1, <2>2
  <2> QED
    BY <2>3 DEF Held
<1> QED
  BY <1>6, <1>7

LEMMA PrintLinePacks ==
  ASSUME IInv, PackInv, PrintLine
  PROVE  PackInv'
<1> USE DEF PrintLine, inputs, PackInv
<1>1. /\ Len(nodes) \in Nat /\ Len(lines) \in Nat /\ lines \in Seq(Line)
      /\ line_other_size \in Nat /\ line_nodes_count \in Nat
      /\ prev_other_size \in Nat /\ max_other_size \in Nat
      /\ first \in Nat /\ next \in 1..(Len(nodes) + 1)
      /\ first + line_nodes_count = next
      /\ prev_other_size <= max_other_size
  <2>1. /\ Len(nodes) \in Nat /\ Len(lines) \in Nat /\ lines \in Seq(Line)
        /\ line_other_size \in Nat /\ line_nodes_count \in Nat
        /\ prev_other_size \in Nat /\ max_other_size \in Nat
        /\ first \in Nat /\ next \in 1..(Len(nodes) + 1)
    BY DEF IInv, TypeOK
  <2>2. /\ first + line_nodes_count = next
        /\ prev_other_size <= max_other_size
    BY DEF IInv, Counted, Ahead
  <2> QED
    BY <2>1, <2>2
<1>2. CASE line_nodes_count = 0
  <2>1. line_other_size = 0
    BY <1>2 DEF IInv, Counted
  <2>2. UNCHANGED <<lines, prev_other_size, first, nodes, max_size, max_other_size>>
    BY <1>1, <1>2, <2>1
  <2>3. phase' = "loop"
    OBVIOUS
  <2>4. Together'
    BY <1>2, <2>2, <2>3 DEF Together, Between, Starts, packed
  <2>5. Held'
    BY <2>2, <2>3 DEF Held
  <2> QED
    BY <2>4, <2>5
<1>3. CASE line_nodes_count # 0
  <2>1. packed(next - 1) = [line  |-> line_size, thick |-> line_other_size,
                            lines |-> prev_other_size]
    BY <1>3 DEF Together, Between
  <2>2. Together'
    <3>1. phase' = "loop" /\ first' = next /\ UNCHANGED <<nodes, max_size>>
      OBVIOUS
    <3>2. prev_other_size' = Thickness(packed(next - 1))
      BY <2>1 DEF Thickness
    <3>3. Starts(next)
      <4> SUFFICES ASSUME next > 1, next <= Len(nodes)
                   PROVE  packed(next - 1).line + nodes[next].size > max_size
        BY DEF Starts
      <4>1. next \in 1..Len(nodes) /\ nodes \in Seq(Sizes)
        BY <1>1 DEF IInv, TypeOK
      <4>2. /\ nodes[next].size \in Nat /\ line_size \in Nat
            /\ max_size \in Nat
        BY <4>1, ChildSizes DEF IInv, TypeOK
      <4>3. ~(line_size + nodes[next].size <= max_size)
        BY DEF Fits
      <4>4. packed(next - 1).line = line_size
        BY <2>1
      <4> QED
        BY <4>2, <4>3, <4>4
    <3> HIDE DEF PrintLine
    <3> QED
      BY <3>1, <3>2, <3>3 DEF Together, Between, Starts, packed
  <2>3. /\ lines' = Append(lines, NewLine)
        /\ Len(lines') = Len(lines) + 1
        /\ \A l \in 1..Len(lines) : lines'[l] = lines[l]
        /\ lines'[Len(lines) + 1] = NewLine
    BY <1>1, <1>3
  <2>4. Held'
    <3> SUFFICES ASSUME prev_other_size' <= max_other_size,
                        NEW l \in 1..Len(lines'),
                        NEW i \in lines'[l].first..
                                    lines'[l].first + lines'[l].count - 1
                 PROVE  nodes[i].other <= lines'[l].thick
      BY <1>1 DEF Held
    <3>1. CASE l \in 1..Len(lines)
      BY <1>1, <2>3, <3>1 DEF Held
    <3>2. CASE l = Len(lines) + 1
      <4>1. NewLine.first = first /\ NewLine.count = line_nodes_count
        BY DEF NewLine
      <4>2. i \in first..next - 1
        <5>1. i \in first..first + line_nodes_count - 1
          BY <2>3, <3>2, <4>1, Zenon
        <5> HIDE DEF PrintLine, PackInv
        <5> QED
          BY <1>1, <5>1
      <4>3. i \in 1..Len(nodes) /\ nodes \in Seq(Sizes)
        BY <1>1, <4>2 DEF IInv, TypeOK
      <4>4. nodes[i].other \in Nat
        BY <4>3, ChildSizes
      <4>5. nodes[i].other <= line_other_size
        BY <4>2 DEF Held
      <4>6. line_other_size <= NewLine.thick /\ NewLine.thick \in Int
        <5>1. NewLine.thick \in {max_other_size - prev_other_size, line_other_size}
          BY DEF NewLine
        <5>2. prev_other_size + line_other_size <= max_other_size
          OBVIOUS
        <5> HIDE DEF PrintLine, PackInv
        <5> QED
          BY <1>1, <5>1, <5>2
      <4>7. lines'[l] = NewLine
        BY <2>3, <3>2
      <4> HIDE DEF PrintLine, PackInv
      <4> QED
        BY <1>1, <4>4, <4>5, <4>6, <4>7
    <3> QED
      BY <1>1, <2>3, <3>1, <3>2
  <2> QED
    BY <2>2, <2>4
<1> QED
  BY <1>2, <1>3

LEMMA PackInvariant == Spec => []PackInv
<1>1. Init => PackInv
  BY InitPacks
<1>2. IInv /\ PackInv /\ [Next]_vars => PackInv'
  <2> SUFFICES ASSUME IInv, PackInv, [Next]_vars PROVE PackInv'
    OBVIOUS
  <2>1. CASE Loop
    BY <2>1, LoopPacks
  <2>2. CASE TakeNode
    BY <2>2, TakeNodePacks
  <2>3. CASE PrintLine
    BY <2>3, PrintLinePacks
  <2>4. CASE UNCHANGED vars
    BY <2>4 DEF vars, PackInv, Together, Held, Between, Starts, packed
  <2> QED
    BY <2>1, <2>2, <2>3, <2>4 DEF Next
<1> QED
  BY <1>1, <1>2, WrapInvariant, PTL DEF Spec

(* If Packing finds the area thick enough, print_wrapped_node does.        *)
LEMMA FittingLinesPrinted ==
  ASSUME IInv, PackInv, phase = "done", Lines(nodes, max_size) <= max_other_size
  PROVE  AllPrinted
<1>1. /\ nodes \in Seq(Sizes) /\ Len(nodes) \in Nat
      /\ first \in 1..(Len(nodes) + 1)
      /\ prev_other_size \in Nat /\ max_other_size \in Nat
  BY DEF IInv, TypeOK
<1>2. prev_other_size = Thickness(packed(first - 1))
  BY DEF PackInv, Together, Between
<1>3. Thickness(packed(first - 1)) <= Thickness(packed(Len(nodes)))
  <2>1. Len(nodes) \in 0..Len(nodes) /\ first - 1 \in 0..Len(nodes)
    BY <1>1
  <2> QED
    BY <1>1, <2>1, ThicknessGrows DEF packed
<1>4. prev_other_size <= max_other_size
  <2>1. Lines(nodes, max_size) = Thickness(packed(Len(nodes)))
    BY DEF Lines, packed
  <2>2. Lines(nodes, max_size) \in Nat
    BY <1>1, ThickLinesThicker
  <2> QED
    BY <1>1, <1>2, <1>3, <2>1, <2>2
<1>5. first > Len(nodes)
  BY <1>1, <1>4 DEF IInv, Ended
<1> QED
  BY <1>1, <1>4, <1>5 DEF PackInv, Held, AllPrinted

(* A wrapped node that gets the thickness or the length it asked for is    *)
(* printed in full, however many children of whatever size it has.         *)
THEOREM WrapAskedSuffices == Spec => []AskedSuffices
<1>1. IInv /\ PackInv => AskedSuffices
  <2> SUFFICES ASSUME IInv, PackInv, phase = "done" PROVE AskedSuffices
    BY DEF AskedSuffices, ThicknessSuffices, LengthSuffices
  <2>1. /\ nodes \in Seq(Sizes) /\ max_size \in Nat /\ max_other_size \in Nat
    BY DEF IInv, TypeOK
  <2>2. ThicknessSuffices
    <3> SUFFICES ASSUME max_other_size >= ThickLines(nodes, max_size)
                 PROVE  AllPrinted
      BY DEF ThicknessSuffices, Directions, Bounds, get_overflow_min_height,
             get_overflow_min_width
    <3>1. Lines(nodes, max_size) <= max_other_size
      BY <2>1, ThickLinesThicker
    <3> QED
      BY <3>1, FittingLinesPrinted
  <2>3. LengthSuffices
    <3> SUFFICES ASSUME NEW bound \in max_size + 1..MaxArea + 1,
                        max_size = ShortestLines(nodes, bound, max_other_size)
                 PROVE  AllPrinted
      BY DEF LengthSuffices, Directions, Bounds, get_overflow_min_height,
             get_overflow_min_width
    <3>1. bound \in Nat /\ max_size < bound
      BY <2>1, SizesAssumption
    <3>2. Lines(nodes, max_size) <= max_other_size
      BY <2>1, <3>1, FoundLinesFit
    <3> QED
      BY <3>2, FittingLinesPrinted
  <2> QED
    BY <2>2, <2>3 DEF AskedSuffices
<1> QED
  BY <1>1, WrapInvariant, PackInvariant, PTL

-----------------------------------------------------------------------------

\* No child is longer than the area.
AllFit == \A i \in 1..Len(nodes) : nodes[i].size <= max_size

\* A bound on the steps to come: each child may still open a line, join it
\* and close it.
StepsLeft ==
  3 * (Len(nodes) + 1 - first) + (Len(nodes) + 1 - next)
    + (CASE phase = "loop" -> 2 [] phase = "fill" -> 1 [] OTHER -> 0)

StepsBounded == StepsLeft \in Nat

StepsCountDown == StepsBounded /\ StepsBounded' /\ StepsLeft' < StepsLeft

LEMMA StepsLeftNat == TypeOK => StepsBounded
<1> SUFFICES ASSUME TypeOK PROVE StepsLeft \in Nat
  BY DEF StepsBounded
<1>1. Len(nodes) \in Nat /\ {first, next} \subseteq 1..(Len(nodes) + 1)
  BY DEF TypeOK
<1> QED
  BY <1>1 DEF StepsLeft

LEMMA LoopCountsDown ==
  ASSUME TypeOK, Loop
  PROVE  StepsLeft' < StepsLeft
<1>1. /\ Len(nodes) \in Nat /\ first \in Nat /\ next \in Nat
      /\ UNCHANGED <<nodes, first, next>>
      /\ phase = "loop" /\ phase' \in {"fill", "done"}
  BY DEF TypeOK, Loop, inputs
<1> QED
  BY <1>1 DEF StepsLeft

LEMMA TakeNodeCountsDown ==
  ASSUME TypeOK, TakeNode
  PROVE  StepsLeft' < StepsLeft
<1>1. /\ Len(nodes) \in Nat /\ first \in Nat /\ next \in Nat
      /\ UNCHANGED <<nodes, first, phase>> /\ next' = next + 1
  BY DEF TypeOK, TakeNode, inputs
<1> QED
  BY <1>1 DEF StepsLeft

(* A line that is printed holds a child: its first one fits into it.       *)
LEMMA PrintLineCountsDown ==
  ASSUME IInv, PackInv, PrintLine, AllFit
  PROVE  StepsLeft' < StepsLeft
<1>1. /\ Len(nodes) \in Nat /\ first \in 1..(Len(nodes) + 1)
      /\ next \in Nat /\ line_nodes_count \in Nat
      /\ nodes \in Seq(Sizes) /\ max_size \in Nat
  BY DEF IInv, TypeOK
<1>2. /\ UNCHANGED <<nodes, next>> /\ first' = next
      /\ phase = "fill" /\ phase' = "loop" /\ ~Fits
  BY DEF PrintLine, inputs
<1>3. first + line_nodes_count = next /\ first <= Len(nodes)
  BY <1>2 DEF IInv, Counted, Ahead
<1>4. line_nodes_count # 0
  <2> SUFFICES ASSUME line_nodes_count = 0 PROVE Fits
    BY <1>2
  <2>1. line_size = 0
    BY <1>2 DEF PackInv, Together, Between
  <2>2. next = first /\ next \in 1..Len(nodes)
    BY <1>1, <1>3
  <2>3. nodes[next].size \in Nat /\ nodes[next].size <= max_size
    BY <1>1, <2>2, ChildSizes DEF AllFit
  <2> QED
    BY <2>1, <2>2, <2>3 DEF Fits
<1>5. next > first
  BY <1>1, <1>3, <1>4
<1>6. /\ StepsLeft = 3 * (Len(nodes) + 1 - first) + (Len(nodes) + 1 - next) + 1
      /\ StepsLeft' = 3 * (Len(nodes) + 1 - next) + (Len(nodes) + 1 - next) + 2
  BY <1>2 DEF StepsLeft
<1> QED
  BY <1>1, <1>5, <1>6

(* The loop of print_wrapped_node has no step that leaves everything as it *)
(* was: with children that fit, every step lowers a natural number, so     *)
(* that the loop cannot go round for ever.  (A child longer than the area  *)
(* takes that away: a line without a child leaves first where it was.)     *)
THEOREM WrapStepsCountDown == Spec => [][AllFit => StepsCountDown]_vars
<1>1. IInv /\ PackInv /\ StepsBounded /\ StepsBounded' /\ [Next]_vars
        => [AllFit => StepsCountDown]_vars
  <2> SUFFICES ASSUME IInv, PackInv, StepsBounded, StepsBounded', Next, AllFit
               PROVE  StepsCountDown
    OBVIOUS
  <2>1. StepsLeft' < StepsLeft
    BY LoopCountsDown, TakeNodeCountsDown, PrintLineCountsDown DEF Next, IInv
  <2> QED
    BY <2>1 DEF StepsCountDown
<1>2. Spec => []StepsBounded
  BY StepsLeftNat, WrapTypeCorrect, PTL
<1> QED
  BY <1>1, <1>2, WrapInvariant, PackInvariant, PTL DEF Spec

=============================================================================
