-------------------------------- MODULE Refs --------------------------------
(***************************************************************************)
(* The list of latest branches: get_latest_refs, print_refs and            *)
(* get_co_command of src/dashboard.c, next to the user's git commands that *)
(* write the reflog of HEAD.                                               *)
(*                                                                         *)
(* Positions in a reflog count from 0, the newest entry, as in the code.   *)
(* What git itself does is external: how a checkout or a commit is logged, *)
(* and what the name @{-n} stands for.  git_reflog_read succeeds: the code *)
(* looks at no error of it, and uses a reflog that was never set if it     *)
(* fails.                                                                  *)
(***************************************************************************)
EXTENDS Naturals, Sequences, FiniteSets

CONSTANTS
  Branches,        \* what HEAD can be at
  Max,             \* the length get_latest_refs is asked for
  MaxReflog        \* bound: entries of the reflog

ASSUME RefsAssumption ==
  /\ Max \in Nat
  /\ MaxReflog \in Nat

VARIABLES
  head,        \* what HEAD is at
  reflog,      \* of HEAD, newest entry first
  entries,     \* the reflog as git_reflog_read found it
  index,
  refs,        \* the list being collected
  phase,       \* "idle", "collect", "print"
  shown        \* the lines of the list on the screen

vars == <<head, reflog, entries, index, refs, phase, shown>>

user_vars == <<head, reflog>>

Entry == [checkout : BOOLEAN, from : Branches, to : Branches]
Ref == [name : Branches, index : Nat]

TypeOK ==
  /\ head \in Branches
  /\ {reflog, entries} \subseteq Seq(Entry)
  /\ index \in 0..Len(entries)
  /\ refs \in Seq(Ref)
  /\ phase \in {"idle", "collect", "print"}
  /\ shown \in Seq([name : Branches, command : Nat \ {0}])

Names(list) == {list[i].name : i \in 1..Len(list)}

-----------------------------------------------------------------------------

Other == [checkout |-> FALSE, from |-> head, to |-> head]

\* HEAD is at the branch the repository was created with.
Init ==
  /\ head \in Branches
  /\ reflog = <<Other>>
  /\ entries = <<>>
  /\ index = 0
  /\ refs = <<>>
  /\ phase = "idle"
  /\ shown = <<>>

\* git checkout, in any terminal.
Checkout(b) ==
  /\ Len(reflog) < MaxReflog
  /\ reflog' = <<[checkout |-> TRUE, from |-> head, to |-> b]>> \o reflog
  /\ head' = b
  /\ UNCHANGED <<entries, index, refs, phase, shown>>

\* git commit, reset, rebase: logged, and not a checkout.
Commit ==
  /\ Len(reflog) < MaxReflog
  /\ reflog' = <<Other>> \o reflog
  /\ UNCHANGED <<head, entries, index, refs, phase, shown>>

\* The branch that git takes @{-n} for: the one the nth latest checkout left.
PreviousBranch(log, n) ==
  LET Checkouts(i) == {k \in 1..i : log[k].checkout}
  IN  {log[i].from : i \in {k \in Checkouts(Len(log)) : Cardinality(Checkouts(k)) = n}}

-----------------------------------------------------------------------------

get_latest_refs ==
  /\ phase = "idle"
  /\ entries' = reflog
  /\ index' = 0
  /\ phase' = "collect"
  /\ UNCHANGED <<user_vars, refs, shown>>

At(i) == entries[i + 1]

is_checkout_reflog(e) == e.checkout

\* Not a checkout, or not the latest one of its target.
SkipEntry ==
  /\ phase = "collect" /\ index < Len(entries)
  /\ is_checkout_reflog(At(index)) => At(index).to \in Names(refs)
  /\ index' = index + 1
  /\ UNCHANGED <<user_vars, entries, refs, phase, shown>>

(* Plausible bug: a branch is listed once for every visit.                 *)
AppendRepeated ==
  /\ phase = "collect" /\ index < Len(entries)
  /\ is_checkout_reflog(At(index))
  /\ refs' = Append(refs, [name |-> At(index).to, index |-> index])
  /\ IF Len(refs') = Max THEN phase' = "print" /\ UNCHANGED index
                         ELSE index' = index + 1 /\ UNCHANGED phase
  /\ UNCHANGED <<user_vars, entries, shown>>

(* Plausible bug: the list keeps the index of the branch left.             *)
AppendLeft ==
  /\ phase = "collect" /\ index < Len(entries)
  /\ is_checkout_reflog(At(index)) /\ At(index).to \notin Names(refs)
  /\ refs' = Append(refs, [name |-> At(index).to, index |-> index + 1])
  /\ IF Len(refs') = Max THEN phase' = "print" /\ UNCHANGED index
                         ELSE index' = index + 1 /\ UNCHANGED phase
  /\ UNCHANGED <<user_vars, entries, shown>>

\* refs_append_unique took it; the list may be complete now.
AppendRef ==
  /\ phase = "collect" /\ index < Len(entries)
  /\ is_checkout_reflog(At(index)) /\ At(index).to \notin Names(refs)
  /\ refs' = Append(refs, [name |-> At(index).to, index |-> index])
  /\ IF Len(refs') = Max THEN phase' = "print" /\ UNCHANGED index
                         ELSE index' = index + 1 /\ UNCHANGED phase
  /\ UNCHANGED <<user_vars, entries, shown>>

EndOfReflog ==
  /\ phase = "collect" /\ index = Len(entries)
  /\ phase' = "print"
  /\ UNCHANGED <<user_vars, entries, index, refs, shown>>

\* The number in the command printed: 1 is "git checkout -", n is
\* "git checkout @{-n}".
get_co_command(ref) == ref.index

Line(ref) == [name |-> ref.name, command |-> get_co_command(ref)]

\* The lines after each iteration of print_refs' loop, which leaves out the
\* newest entry's target.
LinesAfter(list) ==
  LET lines[n \in 0..Len(list)] ==
        IF n = 0 THEN <<>>
        ELSE IF list[n].index = 0 THEN lines[n - 1]
        ELSE Append(lines[n - 1], Line(list[n]))
  IN  lines

(* Plausible bug: the current branch is listed as well.                    *)
print_refs_all ==
  /\ phase = "print"
  /\ shown' = [i \in 1..Len(refs) |-> Line(refs[i])]
  /\ refs' = <<>>
  /\ phase' = "idle"
  /\ UNCHANGED <<user_vars, entries, index>>

\* Then clear_refs.
print_refs ==
  /\ phase = "print"
  /\ shown' = LinesAfter(refs)[Len(refs)]
  /\ refs' = <<>>
  /\ phase' = "idle"
  /\ UNCHANGED <<user_vars, entries, index>>

Next ==
  \/ \E b \in Branches : Checkout(b)
  \/ Commit
  \/ get_latest_refs \/ SkipEntry \/ AppendRef \/ EndOfReflog \/ print_refs

Spec == Init /\ [][Next]_vars

-----------------------------------------------------------------------------

\* The positions of the latest checkout of every branch, among the first n.
LatestVisits(n) ==
  {i \in 0..n - 1 :
     At(i).checkout /\ \A j \in 0..i - 1 : At(j).checkout => At(j).to # At(i).to}

(* The list collected is exactly the branches visited, the latest visit of *)
(* each, latest first, for the part of the reflog that was read; a list    *)
(* that is not full has read all of it, and none is longer than asked for. *)
(* Asked for none (Max = 0, a window of two lines) there is no limit.      *)
LatestFirst ==
  phase \in {"collect", "print"} =>
    LET full == phase = "print" /\ Len(refs) = Max
        read == IF full /\ Max > 0 THEN refs[Max].index + 1 ELSE index
    IN  /\ \A i \in 1..Len(refs) - 1 : refs[i].index < refs[i + 1].index
        /\ {refs[i].index : i \in 1..Len(refs)} = LatestVisits(read)
        /\ \A i \in 1..Len(refs) : refs[i].name = At(refs[i].index).to
        /\ phase = "print" /\ ~full => index = Len(entries)
        /\ Max > 0 => Len(refs) <= Max

(* The command printed next to a branch checks out that branch, provided   *)
(* nothing but checkouts is logged since the repository was created.  With *)
(* a commit among them it does not: the number printed is the position in  *)
(* the reflog, and git counts only the checkouts in it.                    *)
CommandChecksOut ==
  phase = "idle" /\ (\A i \in 1..Len(entries) - 1 : entries[i].checkout) =>
    \A i \in 1..Len(shown) :
      PreviousBranch(entries, shown[i].command) = {shown[i].name}

(* "Never forget the names of your recently visited branches": after a     *)
(* refresh that had room to spare, every branch HEAD was on is listed, the *)
(* one it is on excepted.                                                  *)
BranchesRemembered ==
  phase = "idle" /\ entries # <<>> /\ Len(shown) + 1 < Max =>
    {At(i).from : i \in {k \in 0..Len(entries) - 1 : At(k).checkout}}
      \subseteq Names(shown) \cup {At(0).to}

=============================================================================
