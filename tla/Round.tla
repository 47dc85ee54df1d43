------------------------------- MODULE Round -------------------------------
(***************************************************************************)
(* What one round of run_dashboard collects from the repository, beside    *)
(* the user's editor and git commands: print_status with its three status  *)
(* lists (safe_git_status_list_new, print_status_entry),                   *)
(* print_latest_commits and get_head_name of src/dashboard.c.              *)
(*                                                                         *)
(* Each call into libgit2 that reads the repository is a step: the lists   *)
(* of a round are of different moments.  What libgit2 answers is external. *)
(***************************************************************************)
EXTENDS Naturals, Sequences

CONSTANTS
  Files,
  Contents,      \* what a file can hold
  Absent,        \* no such file
  RetryCount,    \* GIT_RETRY_COUNT, 10
  Maxes,         \* lines for commits: a third of the window, which is resized
  MaxEdits,      \* bound: what the user does
  MaxFaults      \* bound: commits that cannot be read, in a round

ASSUME RoundAssumption ==
  /\ Absent \notin Contents
  /\ RetryCount \in Nat \ {0}
  /\ Maxes \subseteq Nat
  /\ MaxEdits \in Nat
  /\ MaxFaults \in Nat
  /\ "HEAD" \notin Files

VARIABLES
  head, index, work,    \* every file in the commit, the index, the work tree
  log,                  \* the commits of HEAD, newest first; none: unborn
  edits,                \* how much the user did
  step,                 \* where the round is
  retries,
  rows,                 \* the lines under "staged:", "changed:", "untracked:"
  max, line, next, walk, hashes,   \* locals of print_latest_commits
  shown,                \* the screen, after wrefresh
  streak,               \* history: failures of git_status_list_new in a row
  faults,               \* history: commits not read in this round
  touched               \* history: the files, and "HEAD", that changed since
                        \* the round began

user_vars == <<head, index, work, log, edits>>
walk_vars == <<max, line, next, walk, hashes>>
vars == <<user_vars, step, retries, rows, walk_vars, shown, streak, faults,
          touched>>

Sections == {"staged", "changed", "untracked"}
Words == {"new", "modified", "deleted"}
Rows == [Sections -> SUBSET (Files \X Words)]
Commits == 0..MaxEdits
Trees == [Files -> Contents \cup {Absent}]

TypeOK ==
  /\ {head, index, work} \subseteq Trees
  /\ log \in Seq(Commits)
  /\ edits \in 0..MaxEdits
  /\ step \in {"poll", "commits", "walk", "header", "exited"} \cup Sections
  /\ retries \in 0..RetryCount
  /\ rows \in Rows
  /\ max \in Maxes /\ line \in Nat
  /\ next \in Commits \cup {Absent}
  /\ {walk, hashes} \subseteq Seq(Commits)
  /\ shown \in [rows : Rows, hashes : Seq(Commits)]
  /\ streak \in 0..RetryCount
  /\ faults \in 0..MaxFaults
  /\ touched \subseteq Files \cup {"HEAD"}

Blank == [s \in Sections |-> {}]

\* A repository of one commit, in which anything is staged and changed.
Init ==
  /\ head \in Trees /\ index \in Trees /\ work \in Trees
  /\ log = <<0>>
  /\ edits = 0
  /\ step = "poll"
  /\ retries = 0
  /\ rows = Blank
  /\ max \in Maxes
  /\ line = 1
  /\ next = Absent
  /\ walk = <<>>
  /\ hashes = <<>>
  /\ shown = [rows |-> Blank, hashes |-> <<>>]
  /\ streak = 0
  /\ faults = 0
  /\ touched = Files \cup {"HEAD"}

-----------------------------------------------------------------------------

\* The user changes the files of `changed`, or HEAD.
Edit(changed) ==
  /\ step # "exited"
  /\ edits < MaxEdits
  /\ edits' = edits + 1
  /\ touched' = touched \cup changed
  /\ UNCHANGED <<step, retries, rows, walk_vars, shown, streak, faults>>

\* An editor, a compiler or rm.
Write(f) ==
  /\ \E c \in Contents \cup {Absent} : work' = [work EXCEPT ![f] = c]
  /\ Edit({f})
  /\ UNCHANGED <<head, index, log>>

\* git add, and git reset, of one file.
Stage(f) ==
  /\ index' = [index EXCEPT ![f] = work[f]]
  /\ Edit({f})
  /\ UNCHANGED <<head, work, log>>

Unstage(f) ==
  /\ index' = [index EXCEPT ![f] = head[f]]
  /\ Edit({f})
  /\ UNCHANGED <<head, work, log>>

Commit ==
  /\ head' = index
  /\ log' = <<edits + 1>> \o log
  /\ Edit({"HEAD"} \cup {f \in Files : head[f] # index[f]})
  /\ UNCHANGED <<index, work>>

\* git checkout --orphan: HEAD is on a branch without commits.
Orphan ==
  /\ head' = [f \in Files |-> Absent]
  /\ log' = <<>>
  /\ Edit({"HEAD"} \cup {f \in Files : head[f] # Absent})
  /\ UNCHANGED <<index, work>>

User == Commit \/ Orphan \/ \E f \in Files : Write(f) \/ Stage(f) \/ Unstage(f)

-----------------------------------------------------------------------------

\* print_status_entry's word for a file that is `old` here and `new` there.
\* No flag asks libgit2 for renames, so none are reported.
status(old, new) ==
  IF old = Absent THEN "new" ELSE IF new = Absent THEN "deleted" ELSE "modified"

Differing(old, new) ==
  {<<f, status(old[f], new[f])>> : f \in {g \in Files : old[g] # new[g]}}

\* GIT_DELTA_UNTRACKED: the entries of the work tree that the index lacks.
Untracked(entries) == {e \in entries : index[e[1]] = Absent}

\* SHOW_INDEX_ONLY: the index against HEAD.
Staged == Differing(head, index)

\* SHOW_WORKDIR_ONLY, without INCLUDE_UNTRACKED.
Changed == Differing(index, work) \ Untracked(Differing(index, work))

(* Plausible bug: the third list is printed without its filter.            *)
UntrackedUnfiltered == Differing(index, work)

\* The same with INCLUDE_UNTRACKED, filtered by print_status.
UntrackedOnly == Untracked(Differing(index, work))

-----------------------------------------------------------------------------

\* timing_wait, and whether and where the dashboard is attached (Dashboard).
BeginRound ==
  /\ step = "poll"
  /\ step' = "staged"
  /\ touched' = {}
  /\ faults' = 0
  /\ UNCHANGED <<user_vars, retries, rows, walk_vars, shown, streak>>

(* Plausible bug: the tries are counted over all lists.                    *)
StatusReadOnCredit ==
  /\ streak' = 0
  /\ UNCHANGED <<user_vars, retries, walk_vars, shown, faults, touched>>

\* git_status_list_new succeeds; safe_git_status_list_new returns, and its
\* next call counts from zero.
StatusRead ==
  /\ retries' = 0
  /\ streak' = 0
  /\ UNCHANGED <<user_vars, walk_vars, shown, faults, touched>>

(* Plausible bug: the last round's lines are not cleared.                  *)
PrintStagedUncleared ==
  /\ step = "staged"
  /\ step' = "changed"
  /\ rows' = [rows EXCEPT !["staged"] = @ \cup Staged]
  /\ StatusRead

\* clear_children, then the entries below " staged:".
PrintStaged ==
  /\ step = "staged"
  /\ step' = "changed"
  /\ rows' = [Blank EXCEPT !["staged"] = Staged]
  /\ StatusRead

PrintChanged ==
  /\ step = "changed"
  /\ step' = "untracked"
  /\ rows' = [rows EXCEPT !["changed"] = Changed]
  /\ StatusRead

\* The latest branches follow (Refs).
PrintUntracked ==
  /\ step = "untracked"
  /\ step' = "commits"
  /\ rows' = [rows EXCEPT !["untracked"] = UntrackedOnly]
  /\ StatusRead

(* Plausible bug: one try too many.                                        *)
StatusFailsOnceMore ==
  /\ step \in Sections
  /\ retries' = retries + 1
  /\ streak' = streak + 1
  /\ step' = IF retries' <= RetryCount THEN step ELSE "exited"
  /\ UNCHANGED <<user_vars, rows, walk_vars, shown, faults, touched>>

\* git_status_list_new fails, for instance on a file that is just replaced.
\* There is no pause before the next try, and after the last one ABORT.
StatusFails ==
  /\ step \in Sections
  /\ retries' = retries + 1
  /\ streak' = streak + 1
  /\ step' = IF retries' < RetryCount THEN step ELSE "exited"
  /\ UNCHANGED <<user_vars, rows, walk_vars, shown, faults, touched>>

-----------------------------------------------------------------------------

(* Plausible bug: the last round's lines are not cleared.                  *)
PushHeadUncleared ==
  /\ step = "commits"
  /\ step' = "walk"
  /\ max' \in Maxes
  /\ line' = 1
  /\ walk' = log
  /\ next' \in {next, Absent}
  /\ UNCHANGED <<user_vars, retries, rows, hashes, shown, streak, faults, touched>>

\* The walk starts at HEAD; with HEAD unborn the push fails, which is not
\* looked at, and the walk is over at once.  `next` is not initialized: it
\* may still hold what the last round left on the stack.
PushHead ==
  /\ step = "commits"
  /\ step' = "walk"
  /\ max' \in Maxes
  /\ line' = 1
  /\ hashes' = <<>>
  /\ walk' = log
  /\ next' \in {next, Absent}
  /\ UNCHANGED <<user_vars, retries, rows, shown, streak, faults, touched>>

(* Plausible bug: `line++ == max`.                                         *)
AppendCommitLate(c) ==
  /\ hashes' = Append(hashes, c)
  /\ line' = line + 1
  /\ step' = IF line = max THEN "header" ELSE step

\* A line for commit c, and `if (++line == max) break`.
AppendCommit(c) ==
  /\ hashes' = Append(hashes, c)
  /\ line' = line + 1
  /\ step' = IF line' = max THEN "header" ELSE step

WalkCommit ==
  /\ step = "walk"
  /\ walk # <<>>
  /\ next' = Head(walk)
  /\ walk' = Tail(walk)
  /\ AppendCommit(Head(walk))
  /\ UNCHANGED <<user_vars, retries, rows, max, shown, streak, faults, touched>>

\* A commit that cannot be looked up is skipped.  When git_revwalk_next fails,
\* which is not told from success, the walk may or may not get past the commit;
\* `next` is what it was, and that commit is looked up and printed.
WalkFault ==
  /\ step = "walk"
  /\ walk # <<>>
  /\ faults < MaxFaults
  /\ faults' = faults + 1
  /\ \/ /\ next' = Head(walk) /\ walk' = Tail(walk)
        /\ UNCHANGED <<step, line, hashes>>
     \/ /\ walk' \in {walk, Tail(walk)} /\ UNCHANGED next
        /\ IF next = Absent THEN UNCHANGED <<step, line, hashes>>
                            ELSE AppendCommit(next)
  /\ UNCHANGED <<user_vars, retries, rows, max, shown, streak, touched>>

\* GIT_ITEROVER.
WalkOver ==
  /\ step = "walk"
  /\ walk = <<>>
  /\ step' = "header"
  /\ UNCHANGED <<user_vars, retries, rows, walk_vars, shown, streak, faults,
                 touched>>

\* get_head_name's assertion ends the dashboard on a branch without commits;
\* else the round ends with wrefresh.
DrawHeader ==
  /\ step = "header"
  /\ IF log = <<>>
     THEN step' = "exited" /\ UNCHANGED shown
     ELSE step' = "poll" /\ shown' = [rows |-> rows, hashes |-> hashes]
  /\ UNCHANGED <<user_vars, retries, rows, walk_vars, streak, faults, touched>>

\* git_repository_head fails for another reason, for instance on a HEAD that
\* is just replaced.  It is asked only once: GIT_ENOTFOUND fails the assertion
\* as well, any other error is returned, if git_reference_shorthand, which
\* gets no reference then, returns at all.
HeadNameFails ==
  /\ step = "header"
  /\ step' = "exited"
  /\ UNCHANGED <<user_vars, retries, rows, walk_vars, shown, streak, faults,
                 touched>>

Progress ==
  \/ BeginRound \/ PrintStaged \/ PrintChanged \/ PrintUntracked
  \/ PushHead \/ WalkCommit \/ WalkOver \/ DrawHeader

Next == User \/ Progress \/ StatusFails \/ WalkFault \/ HeadNameFails

Spec == Init /\ [][Next]_vars

\* poll times out, and what libgit2 is asked again it answers at some time:
\* a walk that fails for ever, at an object that is missing, never ends.
\* Nothing says that a failure has to happen.
FairSpec == Spec /\ WF_vars(Progress)

-----------------------------------------------------------------------------

\* What the user takes the titles and words to mean.
Due(s, f, w) ==
  LET old == IF s = "staged" THEN head[f] ELSE index[f]
      new == IF s = "staged" THEN index[f] ELSE work[f]
  IN  /\ old # new
      /\ s = "changed" => old # Absent
      /\ s = "untracked" => old = Absent
      /\ w = "new" <=> old = Absent
      /\ w = "deleted" <=> new = Absent

(* The three status lists of a round are of different moments, and a file  *)
(* that is staged meanwhile can be missing in all of them, or be in two.   *)
(* But one that nobody touched since the round began is on the screen      *)
(* under exactly the titles, and with the words, of its state.             *)
SteadyFileListed ==
  step = "poll" =>
    \A f \in Files \ touched, s \in Sections, w \in Words :
      <<f, w>> \in shown.rows[s] <=> Due(s, f, w)

(* Status lists that fail now and then and commits that cannot be read do  *)
(* not end the dashboard, however many there are: in its rounds it ends    *)
(* where one status list failed GIT_RETRY_COUNT times in a row, or at the  *)
(* name of HEAD, for which there is a single try (get_head_name).          *)
TransientSurvived ==
  [][step' = "exited" => streak' = RetryCount \/ step = "header"]_vars

\* As many commits as fit: one less than asked for, as the count starts at 1
\* and is compared after the increment; asked for one or none, all of them.
Fitting(n) == IF max > 1 /\ max - 1 < n THEN max - 1 ELSE n

(* The commits on the screen are the newest ones, in order, for the height *)
(* the window had in that round, if HEAD did not move since the round      *)
(* began and all of them could be read.                                    *)
NewestCommits ==
  step = "poll" /\ "HEAD" \notin touched /\ faults = 0 =>
    shown.hashes = SubSeq(log, 1, Fitting(Len(log)))

(* Unreadable commits, for which others are printed twice, do not make the *)
(* list longer than it was asked for.                                      *)
CommitLimitKept == max > 1 => Len(hashes) < max

(* Once the user is done, the screen comes to list every file as it is,    *)
(* unless the dashboard exits.                                             *)
EventuallyListed ==
  <>[](\/ step = "exited"
       \/ \A f \in Files, s \in Sections, w \in Words :
            <<f, w>> \in shown.rows[s] <=> Due(s, f, w))

=============================================================================
