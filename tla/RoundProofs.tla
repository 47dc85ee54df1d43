---------------------------- MODULE RoundProofs ----------------------------
(***************************************************************************)
(* Proofs about a round, for any number of files, contents, tries, edits   *)
(* and unreadable commits, and any height of the window.                   *)
(*                                                                         *)
(* SteadyFileListed speaks of the end of a round.  Its invariant says of   *)
(* every step which of the three lists is printed already, and that a file *)
(* nobody touched is in these as the user would expect now.  That of       *)
(* NewestCommits says that the lines printed and the commits the walk has  *)
(* left are, together, the commits of HEAD.                                *)
(*                                                                         *)
(* That a file comes to be listed is stated without fairness, as an order  *)
(* in which every step of the dashboard goes down (RoundComesToList).      *)
(***************************************************************************)
EXTENDS Round, SequenceTheorems, TLAPS

\* The lists that are printed before a step of the round.
Printed ==
  CASE step = "changed" -> {"staged"}
    [] step = "untracked" -> {"staged", "changed"}
    [] step \in {"commits", "walk", "header"} -> Sections
    [] OTHER -> {}

ListedAs(lists, s, f) == \A w \in Words : <<f, w>> \in lists[s] <=> Due(s, f, w)

PrintedSteady ==
  \A f \in Files \ touched, s \in Printed : ListedAs(rows, s, f)

SteadyInv == PrintedSteady /\ SteadyFileListed

Tries == streak = retries /\ (step # "exited" => retries < RetryCount)

Typed == TypeOK /\ Tries

Counted ==
  /\ step \in {"walk", "header"} => line = Len(hashes) + 1
  /\ step = "walk" /\ max > 1 => line < max

\* What the walk still has to deliver, for as long as nothing went wrong.
WalkInv ==
  "HEAD" \notin touched /\ faults = 0 =>
    /\ step = "walk" => hashes \o walk = log
    /\ step = "header" => hashes = SubSeq(log, 1, Fitting(Len(log)))

-----------------------------------------------------------------------------

LEMMA InitTyped == Init => Typed
  BY RoundAssumption
     DEF Init, Typed, Tries, TypeOK, Sections, Words, Rows, Commits, Trees, Blank

LEMMA DifferingRows ==
  ASSUME NEW old \in Trees, NEW new \in Trees
  PROVE  Differing(old, new) \subseteq Files \X Words
  BY DEF Differing, status, Words

LEMMA AppendCommitTypeOK ==
  ASSUME TypeOK, NEW c \in Commits, step = "walk", AppendCommit(c)
  PROVE  /\ hashes' \in Seq(Commits)
         /\ line' \in Nat
         /\ step' \in {"walk", "header"}
  BY DEF AppendCommit, TypeOK

LEMMA NextTyped == Typed /\ [Next]_vars => Typed'
<1> SUFFICES ASSUME Typed, [Next]_vars PROVE Typed'
  OBVIOUS
<1> USE RoundAssumption
    DEF Typed, Tries, TypeOK, Sections, Rows, Commits, Trees, user_vars,
        walk_vars
<1>1. ASSUME NEW f \in Files, Write(f) PROVE Typed'
  BY <1>1, SMTT(30) DEF Write, Edit
<1>2. ASSUME NEW f \in Files, Stage(f) PROVE Typed'
  BY <1>2 DEF Stage, Edit
<1>3. ASSUME NEW f \in Files, Unstage(f) PROVE Typed'
  BY <1>3 DEF Unstage, Edit
<1>4. CASE Commit
  BY <1>4 DEF Commit, Edit
<1>5. CASE Orphan
  BY <1>5 DEF Orphan, Edit
<1>6. CASE BeginRound
  BY <1>6 DEF BeginRound
<1>7. CASE PrintStaged
  <2>1. rows' \in Rows
    BY <1>7, DifferingRows DEF PrintStaged, Staged, Blank
  <2> QED
    BY <1>7, <2>1 DEF PrintStaged, StatusRead
<1>8. CASE PrintChanged
  <2>1. rows' \in Rows
    BY <1>8, DifferingRows DEF PrintChanged, Changed
  <2> QED
    BY <1>8, <2>1 DEF PrintChanged, StatusRead
<1>9. CASE PrintUntracked
  <2>1. rows' \in Rows
    BY <1>9, DifferingRows DEF PrintUntracked, UntrackedOnly, Untracked
  <2> QED
    BY <1>9, <2>1 DEF PrintUntracked, StatusRead
<1>10. CASE PushHead
  BY <1>10 DEF PushHead
<1>11. CASE WalkCommit
  <2>1. Head(walk) \in Commits /\ Tail(walk) \in Seq(Commits)
    BY <1>11 DEF WalkCommit
  <2>2. step = "walk" /\ AppendCommit(Head(walk))
    BY <1>11 DEF WalkCommit
  <2>3. hashes' \in Seq(Commits) /\ line' \in Nat /\ step' \in {"walk", "header"}
    BY <2>1, <2>2, AppendCommitTypeOK
  <2> QED
    BY <1>11, <2>1, <2>3 DEF WalkCommit
<1>12. CASE WalkOver
  BY <1>12 DEF WalkOver
<1>13. CASE DrawHeader
  BY <1>13 DEF DrawHeader
<1>14. CASE StatusFails
  <2>1. /\ retries' = retries + 1 /\ retries' \in 0..RetryCount
        /\ streak' = streak + 1 /\ streak = retries
        /\ step' = IF retries' < RetryCount THEN step ELSE "exited"
    BY <1>14 DEF StatusFails
  <2>2. UNCHANGED <<user_vars, rows, walk_vars, shown, faults, touched>>
    BY <1>14 DEF StatusFails
  <2> QED
    BY <2>1, <2>2
<1>15. CASE WalkFault
  <2>1. Head(walk) \in Commits /\ Tail(walk) \in Seq(Commits)
    BY <1>15 DEF WalkFault
  <2>2. hashes' \in Seq(Commits) /\ line' \in Nat /\ step' \in {"walk", "header"}
    BY <1>15, AppendCommitTypeOK DEF WalkFault
  <2>3. next' \in Commits \cup {Absent} /\ walk' \in Seq(Commits)
    BY <1>15, <2>1 DEF WalkFault
  <2> QED
    BY <1>15, <2>2, <2>3 DEF WalkFault
<1>16. CASE HeadNameFails
  BY <1>16 DEF HeadNameFails
<1>17. CASE UNCHANGED vars
  BY <1>17 DEF vars
<1> QED
  BY <1>1, <1>2, <1>3, <1>4, <1>5, <1>6, <1>7, <1>8, <1>9, <1>10, <1>11,
     <1>12, <1>13, <1>14, <1>15, <1>16, <1>17 DEF Next, User, Progress

(* Every variable keeps its type, in every instance.                       *)
THEOREM RoundTypeCorrect == Spec => []TypeOK
<1>1. Typed => TypeOK
  BY DEF Typed
<1> QED
  BY <1>1, InitTyped, NextTyped, PTL DEF Spec

-----------------------------------------------------------------------------

(* What libgit2 is asked for, and what print_status filters, is what the   *)
(* titles say.                                                             *)
LEMMA ListsAreDue ==
  ASSUME TypeOK, NEW f \in Files, NEW w \in Words
  PROVE  /\ <<f, w>> \in Staged <=> Due("staged", f, w)
         /\ <<f, w>> \in Changed <=> Due("changed", f, w)
         /\ <<f, w>> \in UntrackedOnly <=> Due("untracked", f, w)
<1> DEFINE In(old, new) == /\ old # new
                           /\ w = "new" <=> old = Absent
                           /\ w = "deleted" <=> new = Absent
<1>1. ASSUME NEW old \in Trees, NEW new \in Trees
      PROVE  <<f, w>> \in Differing(old, new) <=> In(old[f], new[f])
  <2>1. <<f, w>> \in Differing(old, new) <=>
          old[f] # new[f] /\ w = status(old[f], new[f])
    BY DEF Differing
  <2> QED
    BY <2>1 DEF status, Words
<1>2. head \in Trees /\ index \in Trees /\ work \in Trees
  BY DEF TypeOK
<1>3. <<f, w>> \in Untracked(Differing(index, work)) <=>
        <<f, w>> \in Differing(index, work) /\ index[f] = Absent
  BY DEF Untracked
<1>4. <<f, w>> \in Staged <=> In(head[f], index[f])
  BY <1>1, <1>2 DEF Staged
<1>5. <<f, w>> \in Changed <=> In(index[f], work[f]) /\ index[f] # Absent
  BY <1>1, <1>2, <1>3 DEF Changed
<1>6. <<f, w>> \in UntrackedOnly <=> In(index[f], work[f]) /\ index[f] = Absent
  BY <1>1, <1>2, <1>3 DEF UntrackedOnly
<1> QED
  BY <1>4, <1>5, <1>6 DEF Due

\* What the user does leaves alone all files but those it touches.
LEMMA EditSteady ==
  ASSUME TypeOK, SteadyInv, User
  PROVE  SteadyInv'
<1>1. /\ UNCHANGED <<step, rows, shown>>
      /\ touched \subseteq touched'
      /\ \A f \in Files \ touched' :
           head'[f] = head[f] /\ index'[f] = index[f] /\ work'[f] = work[f]
  <2> USE DEF TypeOK, Trees, Edit
  <2>1. CASE Commit
    BY <2>1 DEF Commit
  <2>2. CASE Orphan
    BY <2>2 DEF Orphan
  <2>3. ASSUME NEW f \in Files, Write(f) \/ Stage(f) \/ Unstage(f)
        PROVE  /\ UNCHANGED <<step, rows, shown>>
               /\ touched \subseteq touched'
               /\ \A g \in Files \ touched' :
                    /\ head'[g] = head[g]
                    /\ index'[g] = index[g]
                    /\ work'[g] = work[g]
    BY <2>3 DEF Write, Stage, Unstage
  <2> QED
    BY <2>1, <2>2, <2>3 DEF User
<1>2. \A f \in Files \ touched', s \in Sections, w \in Words :
        Due(s, f, w)' <=> Due(s, f, w)
  BY <1>1 DEF Due
<1>3. Printed' = Printed /\ Printed \subseteq Sections
  BY <1>1 DEF Printed, Sections
<1>4. PrintedSteady'
  BY <1>1, <1>2, <1>3 DEF SteadyInv, PrintedSteady, ListedAs
<1>5. SteadyFileListed'
  BY <1>1, <1>2 DEF SteadyInv, SteadyFileListed
<1> QED
  BY <1>4, <1>5 DEF SteadyInv

LEMMA DashboardSteady ==
  ASSUME TypeOK, SteadyInv, Progress \/ StatusFails \/ WalkFault \/ HeadNameFails
  PROVE  SteadyInv'
<1>1. UNCHANGED <<head, index, work>>
  BY DEF Progress, BeginRound, PrintStaged, PrintChanged, PrintUntracked,
         PushHead, WalkCommit, WalkOver, DrawHeader, StatusFails, WalkFault,
         HeadNameFails, StatusRead, user_vars
<1>2. \A f \in Files, s \in Sections, w \in Words : Due(s, f, w)' <=> Due(s, f, w)
  BY <1>1 DEF Due
<1> USE <1>2 DEF SteadyInv, PrintedSteady, SteadyFileListed, ListedAs, Printed,
                 Sections
<1>3. CASE BeginRound
  BY <1>3 DEF BeginRound
<1>4. CASE PrintStaged
  BY <1>4, ListsAreDue DEF PrintStaged, StatusRead, Blank
<1>5. CASE PrintChanged
  <2>1. rows' = [rows EXCEPT !["changed"] = Changed]
    BY <1>5 DEF PrintChanged
  <2>2. rows'["staged"] = rows["staged"] /\ rows'["changed"] = Changed
    BY <2>1 DEF TypeOK, Rows
  <2> QED
    BY <1>5, <2>2, ListsAreDue DEF PrintChanged, StatusRead
<1>6. CASE PrintUntracked
  <2>1. rows' = [rows EXCEPT !["untracked"] = UntrackedOnly]
    BY <1>6 DEF PrintUntracked
  <2>2. /\ rows'["staged"] = rows["staged"] /\ rows'["changed"] = rows["changed"]
        /\ rows'["untracked"] = UntrackedOnly
    BY <2>1 DEF TypeOK, Rows
  <2> QED
    BY <1>6, <2>2, ListsAreDue DEF PrintUntracked, StatusRead
<1>7. CASE PushHead
  BY <1>7 DEF PushHead
<1>8. CASE WalkCommit \/ WalkOver \/ WalkFault
  BY <1>8 DEF WalkCommit, WalkOver, WalkFault, AppendCommit, walk_vars
<1>9. CASE DrawHeader \/ HeadNameFails
  BY <1>9 DEF DrawHeader, HeadNameFails
<1>10. CASE StatusFails
  BY <1>10 DEF StatusFails
<1> QED
  BY <1>3, <1>4, <1>5, <1>6, <1>7, <1>8, <1>9, <1>10 DEF Progress

(* Whatever the user does to other files between the three status lists,   *)
(* a file nobody touched is listed as it is.                               *)
THEOREM RoundSteadyFileListed == Spec => []SteadyFileListed
<1>1. Init => SteadyInv
  BY DEF Init, SteadyInv, PrintedSteady, SteadyFileListed, Printed
<1>2. TypeOK /\ SteadyInv /\ [Next]_vars => SteadyInv'
  <2> SUFFICES ASSUME TypeOK, SteadyInv, [Next]_vars PROVE SteadyInv'
    OBVIOUS
  <2>1. CASE UNCHANGED vars
    BY <2>1 DEF vars, user_vars, SteadyInv, PrintedSteady, SteadyFileListed,
                ListedAs, Printed, Due
  <2> QED
    BY <2>1, EditSteady, DashboardSteady DEF Next
<1>3. SteadyInv => SteadyFileListed
  BY DEF SteadyInv
<1> QED
  BY <1>1, <1>2, <1>3, RoundTypeCorrect, PTL DEF Spec

-----------------------------------------------------------------------------

LEMMA AppendCommitCounted ==
  ASSUME TypeOK, Counted, NEW c \in Commits, step = "walk", AppendCommit(c),
         UNCHANGED max
  PROVE  /\ line' = Len(hashes') + 1
         /\ step' = "walk" /\ max' > 1 => line' < max'
         /\ max > 1 => Len(hashes') < max
  BY RoundAssumption DEF AppendCommit, TypeOK, Counted

CountInv == Counted /\ CommitLimitKept

LEMMA NextCounted ==
  TypeOK /\ CountInv /\ [Next]_vars => CountInv'
<1> SUFFICES ASSUME TypeOK, CountInv, [Next]_vars PROVE CountInv'
  OBVIOUS
<1> USE RoundAssumption
    DEF TypeOK, CountInv, Counted, CommitLimitKept, walk_vars, Sections
<1>1. CASE User
  <2>1. UNCHANGED <<step, retries, walk_vars, streak>>
    BY <1>1 DEF User, Commit, Orphan, Write, Stage, Unstage, Edit
  <2> QED
    BY <2>1
<1>2. CASE BeginRound
  BY <1>2 DEF BeginRound
<1>3. CASE PrintStaged \/ PrintChanged \/ PrintUntracked
  BY <1>3 DEF PrintStaged, PrintChanged, PrintUntracked, StatusRead
<1>4. CASE PushHead
  BY <1>4 DEF PushHead
<1>5. CASE WalkCommit
  <2>1. Head(walk) \in Commits
    BY <1>5 DEF WalkCommit
  <2> QED
    BY <1>5, <2>1, AppendCommitCounted DEF WalkCommit
<1>6. CASE WalkOver
  BY <1>6 DEF WalkOver
<1>7. CASE DrawHeader \/ HeadNameFails
  BY <1>7 DEF DrawHeader, HeadNameFails
<1>8. CASE StatusFails
  BY <1>8 DEF StatusFails
<1>9. CASE WalkFault
  <2>1. CASE UNCHANGED <<step, line, hashes>>
    BY <1>9, <2>1 DEF WalkFault
  <2>2. CASE next \in Commits /\ AppendCommit(next)
    BY <1>9, <2>2, AppendCommitCounted DEF WalkFault
  <2> QED
    BY <1>9, <2>1, <2>2 DEF WalkFault
<1>10. CASE UNCHANGED vars
  BY <1>10 DEF vars
<1> QED
  BY <1>1, <1>2, <1>3, <1>4, <1>5, <1>6, <1>7, <1>8, <1>9, <1>10
     DEF Next, Progress

LEMMA InitCounted == Init => CountInv
  BY RoundAssumption DEF Init, CountInv, Counted, CommitLimitKept

(* The list of commits keeps its limit, also when commits are printed      *)
(* twice in place of unreadable ones.                                      *)
THEOREM RoundCommitLimitKept == Spec => []CommitLimitKept
<1>1. CountInv => CommitLimitKept
  BY DEF CountInv
<1> QED
  BY <1>1, InitCounted, NextCounted, RoundTypeCorrect, PTL DEF Spec

(* Status lists that fail now and then and unreadable commits do not end   *)
(* the dashboard: it takes GIT_RETRY_COUNT failures of one list in a row,  *)
(* or the name of HEAD (safe_git_status_list_new, get_head_name).          *)
THEOREM RoundTransientSurvived == Spec => TransientSurvived
<1> DEFINE Excused == step' = "exited" => streak' = RetryCount \/ step = "header"
<1>1. Typed /\ [Next]_vars => [Excused]_vars
  <2> SUFFICES ASSUME Typed, Next, step' = "exited", vars' # vars, step # "header"
               PROVE  streak' = RetryCount
    BY DEF vars
  <2>1. CASE User
    BY <2>1 DEF User, Commit, Orphan, Write, Stage, Unstage, Edit
  <2>2. CASE BeginRound \/ PushHead \/ WalkOver \/ DrawHeader \/ HeadNameFails
    BY <2>2 DEF BeginRound, PushHead, WalkOver, DrawHeader, HeadNameFails
  <2>3. CASE PrintStaged \/ PrintChanged \/ PrintUntracked
    BY <2>3 DEF PrintStaged, PrintChanged, PrintUntracked
  <2>4. CASE WalkCommit \/ WalkFault
    BY <2>4 DEF WalkCommit, WalkFault, AppendCommit
  <2>5. CASE StatusFails
    BY <2>5, RoundAssumption DEF StatusFails, Typed, Tries, TypeOK, Sections
  <2> QED
    BY <2>1, <2>2, <2>3, <2>4, <2>5 DEF Next, Progress
<1> QED
  BY <1>1, InitTyped, NextTyped, PTL DEF Spec, TransientSurvived

-----------------------------------------------------------------------------

\* One more line, and one commit less to come.
LEMMA MoveCommit ==
  ASSUME NEW s \in Seq(Commits), NEW t \in Seq(Commits), t # <<>>
  PROVE  Append(s, Head(t)) \o Tail(t) = s \o t
  OBVIOUS

\* The lines, when the walk stops there.
LEMMA PrefixShown ==
  ASSUME NEW s \in Seq(Commits), NEW t \in Seq(Commits)
  PROVE  s = SubSeq(s \o t, 1, Len(s))
  OBVIOUS

LEMMA NextWalk ==
  TypeOK /\ CountInv /\ WalkInv /\ NewestCommits /\ [Next]_vars
    => WalkInv' /\ NewestCommits'
<1> SUFFICES ASSUME TypeOK, CountInv, WalkInv, NewestCommits, [Next]_vars
             PROVE  WalkInv' /\ NewestCommits'
  OBVIOUS
<1> USE DEF WalkInv, NewestCommits, Fitting, user_vars, walk_vars
<1>1. CASE User
  <2>1. /\ UNCHANGED <<step, walk_vars, shown, faults>>
        /\ touched \subseteq touched'
        /\ UNCHANGED log \/ "HEAD" \in touched'
    BY <1>1 DEF User, Commit, Orphan, Write, Stage, Unstage, Edit
  <2> QED
    BY <2>1
<1>2. CASE BeginRound
  BY <1>2 DEF BeginRound
<1>3. CASE PrintStaged \/ PrintChanged \/ PrintUntracked
  BY <1>3 DEF PrintStaged, PrintChanged, PrintUntracked, StatusRead
<1>4. CASE PushHead
  BY <1>4 DEF PushHead, TypeOK
<1>5. CASE WalkCommit
  <2>1. /\ hashes \in Seq(Commits) /\ walk \in Seq(Commits) /\ walk # <<>>
        /\ step = "walk" /\ line = Len(hashes) + 1 /\ max \in Nat
        /\ walk' = Tail(walk) /\ hashes' = Append(hashes, Head(walk))
        /\ UNCHANGED <<log, max, shown, faults, touched>>
        /\ step' = IF line + 1 = max THEN "header" ELSE step
    BY <1>5, RoundAssumption
       DEF WalkCommit, AppendCommit, TypeOK, CountInv, Counted
  <2>2. hashes' \o walk' = hashes \o walk
    BY <2>1, MoveCommit
  <2>3. CASE step' = "walk"
    BY <2>1, <2>2, <2>3
  <2>4. CASE step' = "header" /\ "HEAD" \notin touched /\ faults = 0
    <3>1. log = hashes' \o walk'
      BY <2>1, <2>2, <2>4
    <3>2. /\ hashes' \in Seq(Commits) /\ walk' \in Seq(Commits)
          /\ Len(hashes') = Len(hashes) + 1
      BY <2>1
    <3>3. hashes' = SubSeq(log, 1, Len(hashes'))
      BY <3>1, <3>2, PrefixShown
    <3>4. Len(hashes') = max - 1 /\ max > 1 /\ Len(hashes') <= Len(log)
      BY <2>1, <2>4, <3>1, <3>2
    <3>5. Fitting(Len(log))' = Len(hashes')
      BY <2>1, <3>1, <3>2, <3>4
    <3> QED
      BY <2>1, <2>4, <3>3, <3>5
  <2> QED
    BY <2>1, <2>3, <2>4
<1>6. CASE WalkOver
  <2>1. hashes \in Seq(Commits) /\ hashes \o <<>> = hashes
    BY DEF TypeOK
  <2>2. max > 1 => Len(hashes) < max
    BY DEF CountInv, CommitLimitKept
  <2>3. hashes = SubSeq(hashes, 1, Len(hashes))
    BY <2>1
  <2>4. Fitting(Len(hashes)) = Len(hashes)
    BY <2>1, <2>2, RoundAssumption DEF TypeOK
  <2> QED
    BY <1>6, <2>1, <2>3, <2>4 DEF WalkOver
<1>7. CASE DrawHeader \/ HeadNameFails
  BY <1>7 DEF DrawHeader, HeadNameFails
<1>8. CASE StatusFails
  BY <1>8 DEF StatusFails, Sections
<1>9. CASE WalkFault
  BY <1>9 DEF WalkFault, TypeOK
<1>10. CASE UNCHANGED vars
  BY <1>10 DEF vars
<1> QED
  BY <1>1, <1>2, <1>3, <1>4, <1>5, <1>6, <1>7, <1>8, <1>9, <1>10
     DEF Next, Progress

(* In every instance the commits on the screen are the newest ones.        *)
THEOREM RoundNewestCommits == Spec => []NewestCommits
<1>1. Init => WalkInv /\ NewestCommits
  BY DEF Init, WalkInv, NewestCommits
<1> QED
  BY <1>1, NextWalk, InitCounted, NextCounted, RoundTypeCorrect, PTL DEF Spec

-----------------------------------------------------------------------------
(***************************************************************************)
(* What EventuallyListed rests on besides fairness: a file that is left    *)
(* alone comes to be listed rightly, and stays so.                         *)
(***************************************************************************)

Running == step # "exited"

DashboardStep == Progress \/ StatusFails \/ WalkFault \/ HeadNameFails

\* Nobody changes f in this step.
Untouched(f) ==
  /\ head'[f] = head[f]
  /\ index'[f] = index[f]
  /\ work'[f] = work[f]

\* A list that this round has printed, or the screen, is wrong about f.
Outdated(f) ==
  \/ step = "poll" /\ \E s \in Sections : ~ListedAs(shown.rows, s, f)
  \/ \E s \in Printed : ~ListedAs(rows, s, f)

\* The screen is right about f, and this round will not change that.
Listed(f) ==
  /\ \A s \in Sections : ListedAs(shown.rows, s, f)
  /\ ~Outdated(f)

Position ==
  [staged |-> 1, changed |-> 2, untracked |-> 3, commits |-> 4, walk |-> 5,
   header |-> 6, poll |-> 7]

\* What is left of a step that is tried again: tries of the status list,
\* commits and failures of the walk.
Attempts ==
  IF step \in Sections THEN RetryCount - retries
  ELSE IF step = "walk" THEN Len(walk) + MaxFaults - faults
  ELSE 0

\* A step that starts the round which will be right about f, or goes on in a
\* round, or uses an attempt up.
Closer(f) ==
  \/ Outdated(f) /\ ~Outdated(f)'
  \/ /\ Outdated(f)' => Outdated(f)
     /\ \/ Position[step] < Position[step']
        \/ step' = step /\ Attempts' < Attempts

Nearer(f) ==
  Untouched(f) /\ Running /\ Running' =>
    /\ Attempts \in Nat
    /\ Listed(f) => Listed(f)'
    /\ DashboardStep /\ ~Listed(f) => Closer(f)
    /\ User => UNCHANGED <<Listed(f), Outdated(f), step, Attempts>>

LEMMA AttemptsNat ==
  ASSUME Typed, Running
  PROVE  Attempts \in Nat
<1>1. /\ retries \in Nat /\ RetryCount \in Nat /\ faults \in 0..MaxFaults
      /\ MaxFaults \in Nat /\ Len(walk) \in Nat /\ retries < RetryCount
  BY RoundAssumption DEF Typed, TypeOK, Tries, Running
<1> QED
  BY <1>1 DEF Attempts

LEMMA FilesKept ==
  ASSUME DashboardStep
  PROVE  UNCHANGED <<head, index, work>>
  BY DEF DashboardStep, Progress, BeginRound, PrintStaged, PrintChanged,
         PrintUntracked, PushHead, WalkCommit, WalkOver, DrawHeader,
         StatusFails, WalkFault, HeadNameFails, StatusRead, user_vars

(* No step of a round puts anything wrong about f on its lists.            *)
LEMMA StepKeeps ==
  ASSUME Typed, DashboardStep, Running', NEW f \in Files
  PROVE  /\ Outdated(f)' => Outdated(f)
         /\ Listed(f) => Listed(f)'
<1>1. \A s \in Sections, w \in Words : Due(s, f, w)' <=> Due(s, f, w)
  BY FilesKept DEF Due
<1>2. TypeOK
  BY DEF Typed
<1> USE <1>1 DEF Outdated, Listed, ListedAs, Printed, Sections, Running
<1>3. CASE BeginRound
  BY <1>3 DEF BeginRound
<1>4. CASE PrintStaged
  BY <1>2, <1>4, ListsAreDue DEF PrintStaged, StatusRead, Blank
<1>5. CASE PrintChanged
  <2>1. rows' = [rows EXCEPT !["changed"] = Changed]
    BY <1>5 DEF PrintChanged
  <2>2. rows'["staged"] = rows["staged"] /\ rows'["changed"] = Changed
    BY <1>2, <2>1 DEF TypeOK, Rows
  <2> QED
    BY <1>2, <1>5, <2>2, ListsAreDue DEF PrintChanged, StatusRead
<1>6. CASE PrintUntracked
  <2>1. rows' = [rows EXCEPT !["untracked"] = UntrackedOnly]
    BY <1>6 DEF PrintUntracked
  <2>2. /\ rows'["staged"] = rows["staged"] /\ rows'["changed"] = rows["changed"]
        /\ rows'["untracked"] = UntrackedOnly
    BY <1>2, <2>1 DEF TypeOK, Rows
  <2> QED
    BY <1>2, <1>6, <2>2, ListsAreDue DEF PrintUntracked, StatusRead
<1>7. CASE PushHead
  BY <1>7 DEF PushHead
<1>8. CASE WalkCommit \/ WalkOver \/ WalkFault
  BY <1>8 DEF WalkCommit, WalkOver, WalkFault, AppendCommit, walk_vars
<1>9. CASE DrawHeader \/ HeadNameFails
  BY <1>9 DEF DrawHeader, HeadNameFails
<1>10. CASE StatusFails
  BY <1>10 DEF StatusFails
<1> QED
  BY <1>3, <1>4, <1>5, <1>6, <1>7, <1>8, <1>9, <1>10 DEF DashboardStep, Progress

(* A step of a round goes on, or is tried again with an attempt less.      *)
LEMMA StepForward ==
  ASSUME Typed, DashboardStep, Running', step # "poll"
  PROVE  \/ Position[step] < Position[step']
         \/ step' = step /\ Attempts' < Attempts
<1>1. /\ retries \in Nat /\ RetryCount \in Nat
      /\ faults \in Nat /\ MaxFaults \in Nat /\ walk \in Seq(Commits)
  BY RoundAssumption DEF Typed, TypeOK
<1>2. ASSUME walk # <<>>
      PROVE  Len(Tail(walk)) = Len(walk) - 1 /\ Len(walk) \in Nat
  BY <1>1, <1>2
<1> USE DEF Position, Attempts, Sections, Running
<1>3. CASE PrintStaged \/ PrintChanged \/ PrintUntracked \/ PushHead
  BY <1>3 DEF PrintStaged, PrintChanged, PrintUntracked, PushHead
<1>4. CASE WalkCommit
  <2>1. step' \in {"walk", "header"} /\ step = "walk"
    BY <1>4 DEF WalkCommit, AppendCommit
  <2>2. Len(walk') = Len(walk) - 1 /\ Len(walk) \in Nat /\ faults' = faults
    BY <1>2, <1>4 DEF WalkCommit
  <2> QED
    BY <1>1, <2>1, <2>2
<1>5. CASE WalkFault
  <2>1. step' \in {"walk", "header"} /\ step = "walk"
    BY <1>5 DEF WalkFault, AppendCommit
  <2>2. Len(walk') \in {Len(walk), Len(walk) - 1} /\ Len(walk) \in Nat
    BY <1>2, <1>5 DEF WalkFault
  <2>3. faults' = faults + 1
    BY <1>5 DEF WalkFault
  <2> QED
    BY <1>1, <2>1, <2>2, <2>3
<1>6. CASE WalkOver \/ DrawHeader \/ HeadNameFails
  BY <1>6 DEF WalkOver, DrawHeader, HeadNameFails
<1>7. CASE StatusFails
  BY <1>1, <1>7 DEF StatusFails
<1> QED
  BY <1>3, <1>4, <1>5, <1>6, <1>7 DEF DashboardStep, Progress, BeginRound

(* Each round starts with nothing wrong about any file.                    *)
LEMMA RoundStartsAnew ==
  ASSUME DashboardStep, step = "poll", NEW f \in Files, ~Listed(f)
  PROVE  Outdated(f) /\ ~Outdated(f)'
<1>1. step' = "staged"
  BY DEF DashboardStep, Progress, BeginRound, PrintStaged, PrintChanged,
         PrintUntracked, PushHead, WalkCommit, WalkOver, DrawHeader,
         StatusFails, WalkFault, HeadNameFails, Sections
<1> QED
  BY <1>1 DEF Outdated, Listed, Printed

LEMMA UserKeeps ==
  ASSUME User, NEW f \in Files, Untouched(f)
  PROVE  UNCHANGED <<Listed(f), Outdated(f), step, Attempts>>
<1>1. UNCHANGED <<step, rows, shown, retries, walk, faults>>
  BY DEF User, Commit, Orphan, Write, Stage, Unstage, Edit, walk_vars
<1>2. \A s \in Sections, w \in Words : Due(s, f, w)' <=> Due(s, f, w)
  BY DEF Untouched, Due
<1>3. Printed' = Printed /\ Printed \subseteq Sections
  BY <1>1 DEF Printed, Sections
<1>4. Outdated(f)' = Outdated(f)
  BY <1>1, <1>2, <1>3 DEF Outdated, ListedAs
<1>5. Listed(f)' = Listed(f)
  BY <1>1, <1>2, <1>4 DEF Listed, ListedAs
<1>6. Attempts' = Attempts
  BY <1>1 DEF Attempts
<1> QED
  BY <1>1, <1>4, <1>5, <1>6

(* As long as the user leaves a file alone, a screen that is right about   *)
(* it stays right, and otherwise every step of the dashboard brings it     *)
(* nearer, whatever fails in between and whatever the user does to other   *)
(* files (print_status, safe_git_status_list_new, print_latest_commits).   *)
THEOREM RoundComesToList ==
  ASSUME NEW f \in Files
  PROVE  Spec => [][Nearer(f)]_vars
<1>1. Typed /\ Next => Nearer(f)
  <2> SUFFICES ASSUME Typed, Next, Untouched(f), Running, Running'
               PROVE  Nearer(f)
    BY DEF Nearer
  <2>1. Attempts \in Nat
    BY AttemptsNat
  <2>2. ASSUME DashboardStep
        PROVE  Listed(f) => Listed(f)'
    BY <2>2, StepKeeps
  <2>3. ASSUME DashboardStep, ~Listed(f)
        PROVE  Closer(f)
    <3>1. CASE step = "poll"
      BY <2>3, <3>1, RoundStartsAnew DEF Closer
    <3>2. CASE step # "poll"
      BY <2>3, <3>2, StepKeeps, StepForward DEF Closer
    <3> QED
      BY <3>1, <3>2
  <2>4. User => UNCHANGED <<Listed(f), Outdated(f), step, Attempts>>
    BY UserKeeps
  <2>5. User \/ DashboardStep
    BY DEF Next, DashboardStep
  <2> QED
    BY <2>1, <2>2, <2>3, <2>4, <2>5 DEF Nearer
<1> QED
  BY <1>1, InitTyped, NextTyped, PTL DEF Spec

=============================================================================
