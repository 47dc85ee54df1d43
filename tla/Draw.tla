-------------------------------- MODULE Draw --------------------------------
(***************************************************************************)
(* What becomes of the rectangles print_nodes hands out (Nodes):           *)
(* print_node's paddings, the lines of print_text_node, and the clipping   *)
(* of src/ncurses_layout.c.                                                *)
(*                                                                         *)
(* Sizes and positions are unsigned and wrap around.  The window starts    *)
(* with the area of Nodes and may be larger.  A text is the sequence of    *)
(* the lengths of its lines.  What curses does is external.                *)
(***************************************************************************)
EXTENDS Nodes

CONSTANTS
  Word,         \* the number of values of a uint32_t
  MaxPadding,   \* bound: padding on either side
  MaxLines,     \* bound: lines of a text
  MaxLength     \* bound: length of a line

ASSUME DrawAssumption ==
  /\ {Word, MaxPadding, MaxLines, MaxLength} \subseteq Nat
  /\ Word > 2 * (MaxArea + MaxPadding + 1)

Unsigned(n) == n % Word
Negative(n) == n >= Word \div 2

Paddings == [before : 0..MaxPadding, after : 0..MaxPadding]
Texts == UNION {[1..n -> 0..MaxLength] : n \in 1..MaxLines}

-----------------------------------------------------------------------------

\* The rectangle of a node without its paddings.
print_node(rect, padding) ==
  [at   |-> Unsigned(rect.at + padding.before),
   size |-> Unsigned(rect.size - padding.after - padding.before)]

\* A newline at the end starts no line.
get_str_height(text) ==
  IF Len(text) > 1 /\ text[Len(text)] = 0 THEN Len(text) - 1 ELSE Len(text)

get_str_width(text) ==
  CHOOSE w \in {text[i] : i \in 1..Len(text)} :
    \A i \in 1..Len(text) : text[i] <= w

\* What a node with this text asks for.
get_width(text, padding) == get_str_width(text) + padding.before + padding.after

\* The sums of the first values of a sequence.
Sums(values) ==
  LET sum[n \in 0..Len(values)] ==
        IF n = 0 THEN 0 ELSE sum[n - 1] + values[n]
  IN  sum

\* How large the children's contents may be: print_nodes looks at the content
\* of a child with fit_content only.
Contents ==
  {content \in [1..Len(nodes) -> 0..MaxRequired] :
     \A i \in 1..Len(nodes) : nodes[i].required \in {0, content[i]}}

\* What a node without wrap asks for along its direction: the contents of all
\* children, with fit_content or without.
SizeAlong(content) == Sums(content)[Len(content)]

(* Plausible bug: the child that reaches the edge is not measured.         *)
MeasuredAcrossShort(content, room) ==
  {i \in 1..Len(content) : Sums(content)[i] < room}

\* The children it looks at for the size across: the loop ends at the one
\* with which the edge of the room is reached.
MeasuredAcross(content, room) ==
  {i \in 1..Len(content) : i = 1 \/ Sums(content)[i - 1] < room}

\* The characters of a text before each line, newlines included.
Offsets(text) == Sums([i \in 1..Len(text) |-> text[i] + 1])

\* How much is left of a text from each line on: this, and not the line alone,
\* is what is drawn from the line's row on.
Rests(text) ==
  LET offsets == Offsets(text)
  IN  [i \in 1..Len(text) |-> offsets[Len(text)] - offsets[i - 1] - 1]

(* Plausible bug: the last line is drawn without looking for room.         *)
print_text_node_overdrawn(text, height) ==
  AtMost(Len(text) - 1, AtLeast(height, 1)) + 1

\* The number of draws, of which the i-th is of the text from line i on, into
\* the i-th row.  The loop makes one for each newline, and looks for room after
\* it has drawn.
print_text_node(text, height) ==
  LET looped == AtMost(Len(text) - 1, AtLeast(height, 1))
  IN  looped + (IF looped < height THEN 1 ELSE 0)

(* Plausible bug: the text is not clipped to the window.                   *)
ncurses_draw_text_unclipped(length, col, rest, window) ==
  [moved |-> col < window,
   count |-> IF Negative(length) THEN rest ELSE AtMost(length, rest)]

\* How many of the `rest` characters of a text are drawn from `col` on, or, if
\* the cursor cannot be moved there, from where it last was.  To waddnstr a
\* negative length is no limit.
ncurses_draw_text(length, col, rest, window) ==
  LET clipped == AtMost(length, Unsigned(window - col))
  IN  [moved |-> col < window,
       count |-> IF Negative(clipped) THEN rest ELSE AtMost(clipped, rest)]

\* The cells that get the node's color; to subwin no size is all that is left.
ncurses_draw_color(rect, window) ==
  LET clipped == AtMost(rect.size, Unsigned(window - rect.at))
  IN  [at   |-> rect.at,
       size |-> IF clipped = 0 THEN window - rect.at ELSE clipped]

-----------------------------------------------------------------------------

(* What a node without wrap asks for is enough: with that room along its   *)
(* direction, bases aside, every child with fit_content is printed as      *)
(* large as its content, and so is one that expands while all others have  *)
(* fit_content.  However little room there is, a child is printed without  *)
(* having been looked at for the size across only if one before it was     *)
(* printed smaller than its content.                                       *)
ChildrenMeasured ==
  phase = "done" =>
    \A content \in Contents :
      LET fits(i) == nodes[i].required = content[i]
          alone(i) == /\ nodes[i].expand > 0
                      /\ \A j \in (1..Len(nodes)) \ {i} :
                           fits(j) /\ nodes[j].expand = 0
          unbased == \A i \in 1..Len(nodes) : nodes[i].basis = 0
      IN  /\ unbased /\ size >= SizeAlong(content) =>
               \A i \in 1..Len(nodes) :
                 content[i] > 0 /\ (fits(i) \/ alone(i)) =>
                   i <= Len(placed) /\ placed[i].size >= content[i]
          /\ (\A i \in 1..Len(placed) - 1 : placed[i].size >= content[i]) =>
               1..Len(placed) \subseteq MeasuredAcross(content, size)

PlacedRects == {placed[i] : i \in 1..Len(placed)}

Windows == {size, size + 1}

(* A text's last line, and a node's color, are drawn where the node is:    *)
(* inside the paddings while these fit into the rectangle; in the window,  *)
(* at least, while the first padding ends there.  Beyond that the size is  *)
(* the unsigned result of a subtraction that went below zero, the cursor   *)
(* stays where it was, and the whole text is drawn there.                  *)
DrawnInside ==
  phase = "done" =>
    \A rect \in PlacedRects, padding \in Paddings, length \in 0..MaxLength,
       window \in Windows :
      LET inner == print_node(rect, padding)
          drawn == ncurses_draw_text(inner.size, inner.at, length, window)
          colored == ncurses_draw_color(rect, window)
      IN  /\ drawn.count > 0 /\ rect.at + padding.before <= window =>
               drawn.moved /\ inner.at + drawn.count <= window
          /\ drawn.count > 0 /\ padding.before + padding.after <= rect.size =>
               drawn.moved /\ inner.at + drawn.count <= End(rect) - padding.after
          /\ rect.size > 0 => End(colored) = End(rect)

(* A text that is given the size it asks for, paddings included, is shown: *)
(* the draw of every line that is not empty is made, in the line's row,    *)
(* below which all later draws stay, and draws all of the line.  No draw   *)
(* begins below the node's rows, except that a text of several lines is    *)
(* drawn into a node without rows.  A draw goes on beyond its line, into   *)
(* the rows below, only past the newline of a line that is shorter than    *)
(* the node is wide.                                                       *)
TextShown ==
  phase = "done" =>
    \A text \in Texts : LET rests == Rests(text) IN \A rect \in PlacedRects :
      LET draws == print_text_node(text, rect.size)
      IN  /\ rect.size >= get_str_height(text) =>
               \A i \in 1..Len(text) : text[i] > 0 => i <= draws
          /\ rect.size > 0 => draws <= rect.size
          /\ \A padding \in Paddings :
               LET inner == print_node(rect, padding)
                   drawn(i) == ncurses_draw_text(inner.size, inner.at,
                                                 rests[i], size).count
               IN  /\ rect.size >= get_width(text, padding) =>
                        \A i \in 1..Len(text) : drawn(i) >= text[i]
                   /\ padding.before + padding.after <= rect.size =>
                        \A i \in 1..Len(text) : drawn(i) > text[i] =>
                          i < Len(text) /\ text[i] < inner.size

=============================================================================
