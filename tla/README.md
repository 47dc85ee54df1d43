# Verification of git-live

TLA+ models of git-live, a live dashboard for a git repository written in C,
checked with TLC and proved with TLAPS: every safety property of the passing
runs is a theorem for all values of the constants; the liveness properties are
model-checked, and what they rest on besides fairness is proved. File names below
are relative to the root of the repository; in `PROJECT.json` they carry the
prefix `src/`, the directory the checkout lives in.

## The system

A dashboard is one single-threaded process that redraws a terminal in rounds.
Other terminals can be *attached* to it: the dashboard then shows paths relative
to the attached shell's directory, and the repository that directory is in. The
processes share nothing but small files under `~/.cache/git-live` and the
repository itself.

| Part | State | Operations | Talks to |
|---|---|---|---|
| shell hook (`package_files/git-live.sh`) | one file per terminal with its `$PWD` | before each prompt: truncate, then write | the dashboard, through the file and its watch |
| attach, detach (`src/attach.c` 110-155) | the session file: name, inode, contents | create or open and write; unlink | the dashboard, through the file and its watch |
| attach session (`src/attach.c` 157-274) | paths already watched, two watch ids | `get_attached_workdir` every round, free at exit | session file, terminal file, inotify |
| wake-up timer (`src/timing.c`) | CPU time charged, total time, last wake-up | `timing_wait`, add and remove watches | clock, poll, inotify |
| dashboard loop (`src/dashboard.c` 443-632) | cwd, repository, screen, `keep_running` | wait, read, switch repository, collect, draw; interrupt; cleanup | all of the above, libgit2 |
| latest branches (`src/dashboard.c` 41-189) | the list collected in this round | read the reflog, append unique, print | libgit2; the user's git commands |
| path arithmetic (`src/utils.c`, `format_path`) | two strings being consumed | `is_relative_to`, `relative_to`, `join_paths` | called for every file printed |
| repository root (`get_root_repo_path`) | none | cut a path at `/.git/modules/` | called once, at the start |
| layout (`lib/layout/layout.c`) | a tree of nodes with sizes, paddings, wrapping | sizes, `print_node`, `print_nodes`, `print_wrapped_node` | the draw callbacks |
| ncurses adapter (`src/ncurses_layout.c`) | none | clip to the window, draw | layout, curses |
| status list (`src/dashboard.c` 300-417) | the lines of this round | read three lists with retries, classify, print | libgit2, the user's editor and git commands, layout |
| commit list (`src/dashboard.c` 191-273) | the walk, a line count | walk from HEAD up to a limit, print; name of HEAD | libgit2, layout |
| error macros (`lib/err.h`) | `err` | ASSERT, RETHROW, RETHROW_PRINT | every function |

What is hard here, and hardly reached by the repository's tests (which cover the
layout only):

- **Interleaving.** Between any two system calls of a round a shell may prompt,
  move, attach, take the attachment over, or detach. What was stat'ed, watched
  or read may be stale one call later.
- **Ordering of watch, drain and read.** A change must either be read in this
  round or leave an event for the next wait.
- **Lifetime of inodes.** A watch belongs to an inode, the code's memory of it
  to a path. Unlinking ends one and not the other.
- **Failure.** Every step of the start, `inotify_add_watch`, git and the write
  of attach may fail; cleanup code runs over whatever was acquired, and assigns
  `err` again.
- **A repository in motion.** One round reads it in several calls, between which
  the user edits, stages and commits.
- **Time.** CPU time charged, sleeping, events and integer division add up to
  the next timeout.
- **Borders.** Paths that are prefixes of each other, areas that are full, empty
  or too small, lists that end exactly at their limit.

What makes each part correct: the dashboard must not sleep on a change it has
not shown, must come to follow a terminal that stays attached, and must show one
repository consistently, made of what one round saw; no step may use what is not
held; the lists must show every file that holds still, and the newest commits up
to the limit; the timer must keep its share and lose no time; printed paths must
lead to their files; the branch list must be the latest visits; the layout must
stay inside its areas, use them, leave nothing out, terminate, and ask for sizes
that are enough for it. `PROJECT.json` lists every hazard at its line, with the
properties that cover it or the reason why none does yet.

## Modules

| Module | Models | Extends |
|---|---|---|
| `Timer` | `src/timing.c`, times and totals | |
| `Terminals` | hook, attach, detach, the files, inodes and watches | |
| `Dashboard` | `run_dashboard` with `get_attached_workdir`, beside the shells, from the start to the exit | `Terminals` |
| `LiveView` | the abstract promise of a dashboard | |
| `DashboardView` | the refinement mapping | `Dashboard`, instance of `LiveView` |
| `Round` | what a round collects: `print_status`, `print_latest_commits`, `get_head_name`, beside the user | |
| `Paths` | `format_path`, `is_relative_to`, `relative_to` | |
| `Roots` | `get_root_repo_path` | `Paths` |
| `Refs` | `get_latest_refs`, `print_refs`, beside the user's git commands | |
| `Nodes` | `print_nodes` | |
| `Draw` | `print_node`, `print_text_node`, sizes of texts and of nodes without wrap, the ncurses adapter | `Nodes` |
| `Wrap` | `print_wrapped_node` | |
| `Sizes` | `get_overflow_min_height`, `get_overflow_min_width` | `Wrap` |
| `MC...` | small instances of each for TLC | the module checked |
| `Induction` | induction over numbers and over recursive functions, for the proofs | |
| `...Proofs` | theorems and proofs | the module proved about, `TLAPS` |

There are eight modules with proofs. `DashboardProofs` covers `Dashboard`,
`Terminals`, `LiveView` and `DashboardView`; `PathsProofs` covers `Paths` and
`Roots`; `NodesProofs` covers `Nodes` and `Draw`; `WrapProofs` covers `Wrap` and
`Sizes`; `TimerProofs`, `RoundProofs` and `RefsProofs` cover the module of their
name; `Induction` holds lemmas only.

Definitions named *Plausible bug* stand before the definition they vary; no
specification uses them. Each is the model with one mistake, against which the
property named in `PROJECT.json` is known to be effective.

### Timer

The variables are the fields of `struct timer`, the clock `now`, and the locals
of `timing_wait` that live across the poll. `Refresh` is the time between two
waits, `EnterWait` is `timing_wait` up to `poll` (charging the refresh and
computing the timeout, with the assertion on `INT_MAX` as a branch), and
`WakeByEvent` and `WakeByTimeout` are the two ways out. Everything between two
wake-ups that is not sleep is charged as CPU time, as in the code, also when the
process was not running.

### Terminals and Dashboard

`Terminals` has one small state machine per shell (`pc`): at a prompt the hook
truncates the terminal's file and then writes it; an idle shell runs commands,
attaches in two steps (open, then write), or detaches. The session file is a
name (`session_inode`) for one of a few inodes, because detach unlinks it and
the next attach creates another: contents belong to inodes, and a watch is on
an inode. `events` is the inotify queue, of which the code only learns whether
it is empty. A queue gets an event for each write or truncation of a watched
file, and when a watch goes away (IN_IGNORED).

`Dashboard` adds the process itself. Its `step` runs through one round:

    start -> loop
    loop -> poll -> stat_session -> [watch_session] -> read_session
         -> stat_terminal -> [watch_terminal] -> read_terminal
         -> switch -> draw -> loop

with the early returns of `get_attached_workdir` going to `switch` and errors to
`cleanup`, then `exited`. At `start` the resources are acquired in the order of
the code (`Before`), and any acquisition may fail (`StartFails`); `held` is what
was acquired and not released. A switch frees the repository before it opens
the next, so a failing open leaves it out of `held`, and `Cleanup` computes the
exit code from what it finds. An open with the read after it is one step: a shell
that removes the name in between does not change what is read, and one that
writes in between is as if it had written before. `Wait` may end at any time
(event, signal, timeout), and drains the queue. `Draw` stands for the status,
the refs, the commits and the screen update, whose inputs from this model are
the attached directory and the repository; `DrawFails` for the failure of any
of these; and it may be that `Draw` is never taken, because two of the loops
behind it can go on for ever (see Fairness). `interrupt_handler` can run at any
point.

`InRoot` and `RepoOf` say which directories are accepted as below the root and
what git opens there. `Elsewhere` are shells whose user set `GIT_LIVE_DIR`,
which the hook honours and the dashboard does not read.

### LiveView

`LiveView` knows no files: someone glances at who is attached, then at where that
terminal is, then shows what was seen, and starts over, while terminals attach,
detach and move. `DashboardView` maps `Dashboard` to it: the session file and its
inode become `session`, the terminal files `place`, the locals of
`get_attached_workdir` and `run_dashboard` become `mind`, the step of the loop
`alive`. Stats, watches, the queue and the repository are invisible; a refused
watch is a refused glance. `ShowsWhatWasSeen` is the safety part of the abstract
specification, which is also proved; `ImplementsLiveView` adds its fairness, that
the viewer goes on looking, reading and showing, for a dashboard whose drawings
end.

### Round

The user's actions change `head`, `index` and `work` (each file in the last
commit, in the index, in the work tree) and `log`, between any two calls into
libgit2. The three lists of `print_status` are three reads (`PrintStaged`,
`PrintChanged`, `PrintUntracked`), each of which may fail up to `RetryCount`
times in a row; `PushHead`, `WalkCommit`, `WalkFault` and `WalkOver` are
`print_latest_commits` with the uninitialized `next` and the walk errors that
the code does not tell from success; `DrawHeader` is `get_head_name` and the
refresh, where a branch without commits fails the assertion, and `HeadNameFails`
the other failures of `git_repository_head`: HEAD missing (the same assertion)
or not to be read at that moment (an error passed on). `touched`, `streak` and
`faults` are history variables: what the user changed since the round began, how
often one list failed in a row, how many commits of this round could not be
read. Renames are never reported, because no flag asks libgit2 for them.

### Paths and Roots

A path is the sequence of its parts. One action is one iteration of a loop of
`is_relative_to` or `relative_to`. Both loops advance in two strings at once;
`parts` counts for both, and `PartAt` beyond the end is the empty part, which is
what `is_path_part_eq` sees in a string that is used up. `Roots` cuts the path of
a git directory where the code's comparison, which is as long as what is left of
the path, first succeeds: at `/.git/modules/`, at a final `/.git/`, or else at
the trailing slash. `FollowsOutermost` excepts work trees that are themselves
in a directory where git keeps submodules (`KeepsModules`): the code takes their
paths for those of submodules.

### Refs

The reflog of HEAD grows by the user's checkouts and by other entries (commit,
reset, rebase) at any time; `get_latest_refs` takes the reflog as it is and
walks it entry by entry, and `print_refs` prints and clears the list
(`LinesAfter` is its loop). How git logs, and what `@{-n}` resolves to, is
external; that the reflog can be read is assumed.

### Nodes, Draw, Wrap and Sizes

`Nodes` is the three loops of `print_nodes`, one child per step, in one
dimension: required sizes, bases and expands in, positions and sizes out.
`Wrap` is the two loops of `print_wrapped_node`: which children go to which
line, and which slice of the area each line gets. The required size of a child
is an input in both; in the program it is what `get_width` or `get_height`
compute, any unsigned number.

`Draw` and `Sizes` add no variables. They are the pure functions around the two
algorithms, and their properties are invariants over what `Nodes` and `Wrap`
computed: `Draw` takes every rectangle handed out, with every padding and text
within the bounds, through `print_node`, `print_text_node` and the clipping,
modulo `Word`, the number of values of a `uint32_t`. A text is the lengths of
its lines, and a draw is of all that is left of it (`Rests`), as in the code, so
it may go on past its line. What a node without wrap asks for is a sum over the
*contents* of all children, of which `print_nodes` only looks at those with
`fit_content`: `Contents` are all the contents that agree with what it saw.
`Sizes` compares what a wrapped node asked for with what `Wrap` then printed, in
both directions.

## What is checked

Every run is TLC on the named `.cfg`. Deadlock is not checked: the dashboard
exits, and so do the loops of the other modules; the timer stops at its bound.

| Run | Instance | What it shows |
|---|---|---|
| `timer` | target 30 %, minimum 2 ms, refreshes up to 5 ms, 40 ms in all | `TimeAccounted`: no millisecond is lost or counted twice. `IdleBudget`: after an undisturbed wait the charged time is within its share. `QuietWaitBounded`: no debt is carried past such a wait |
| `dashboard` | 2 shells, 2 inodes; a repository, its submodule and a directory outside, one shell going in and out of the repository, one in the submodule; watches may be refused; no interrupt | `NoLostUpdate`: if the queue is empty and the watches are where the files say, a dashboard going to sleep has shown what the files hold. `ScreenConsistent`: repository and paths on the screen belong together, also after the attached shell left the root and came back. `NoUseAfterFree`: no step of a round without all its resources. `ShowsWhatWasSeen`: the safety part of `LiveView` |
| `live` | 2 shells, one of them in `Elsewhere`, a directory in the root and one outside, watches may be refused, interrupts | `ImplementsLiveView` with its fairness, `FollowsTerminal` while another shell takes the attachment over and loses it again, `FollowsDetach`, `InterruptStops` |
| `reattach` | 1 shell | *violated:* `AttachWakes`, see below |
| `errors` | 1 shell | *violated:* `ErrorReported`, see below |
| `paths` | three names, `.git` and `modules` among them, depth 3, submodules two deep | `PrintedPathResolves`, `PrintedPathMinimal`; `FollowsOutermost`: the shell is followed in the outermost work tree and nowhere else |
| `refs` | three branches, reflog of 6, a list of 2 | `LatestFirst`: the list is exactly the latest visits in order, up to the limit; `CommandChecksOut` |
| `refs_forgotten` | three branches | *violated:* `BranchesRemembered`, see below |
| `nodes` | up to 3 children, area up to 7 | `PlacedInside`, `NeedsMet`, `AreaFilled`, `AlikeTreatedAlike`; with paddings up to 1, texts of up to 3 lines of up to 2, contents up to 2, and a window as large as the area or larger: `DrawnInside`: nothing beyond the paddings and the window. `TextShown`: a text that gets the size it asks for has each line drawn in full in its row. `ChildrenMeasured`: what `get_width` and `get_height` add up is enough for what `print_nodes` hands out |
| `wrap` | up to 4 children of up to 2x2, area up to 3x3 | `LinesInside`, `LinesTile`, `Terminates`; `NothingLeftOut`: a line ends, and children are left out, only where the next one does not fit; `AskedSuffices`: the size a node asks for, across its lines and along them, is enough for it |
| `round` | 2 files with 2 contents, 3 tries, limits 1 and 2, 2 edits, 1 fault a round | `SteadyFileListed`: a file nobody touched is listed rightly while the other changes. `TransientSurvived`: what ends the dashboard. `NewestCommits`, `CommitLimitKept`, `EventuallyListed` |
| `wrap_oversize` | the same with children longer than a line | *violated:* `Terminates`, see below |

### Why the bounds are enough

- *Shells, inodes, directories.* The dashboard looks at one session file and one
  terminal file at a time, so an interference needs the attached shell and one
  more. One inode more than the one in use lets a session be created anew while
  an earlier attach still has the removed one open. Two directories tell a stale
  one from a current one, a submodule one repository from another. The directory
  outside the root is where one shell of `dashboard` goes to and comes back from,
  while the other stays in the submodule and takes the attachment over or drops
  it: the repository that is open when the shell comes back may then be of
  either. `live` has no submodule, and the interrupts that `dashboard` leaves out.
  The theorems below cover any number of each.
- *Timer.* A target of 30 % does not divide 100, so the remainder of the division
  occurs; 40 ms hold several refreshes and waits, with debts from events that
  outlast the minimum; `IntMax` is 12, so that the refusal occurs.
- *Paths.* Depth 3 gives every relation of three paths: equal, above, below,
  beside, with and without a common part, and names that repeat. The names
  `.git` and `modules` may occur anywhere in a path, also above the work tree.
- *Refs.* A list of two with three branches is full before the reflog ends and
  also not full when it does; six entries hold repeated visits and commits
  between them.
- *Round.* One file is in any state at the start and one is unchanged, so that
  either may hold still while the other is edited; two edits are a stage and an
  unstage, or a write and a commit, between two reads; three tries separate a
  streak over two lists from one in one list; of the limits, two ends the walk
  after one commit and one is not treated as a limit by the code; one fault is an
  unreadable commit anywhere in the walk. The theorems cover any number of each.
- *Nodes, Wrap.* Three children are enough for a first, a middle and a last one,
  for leftovers of 0, 1 and 2 cells, and for two lines with a third to come; the
  fourth in `wrap` is for the thick children that longer lines bring together;
  areas go from empty to more than the children need. Three lines of text are one
  before, one after and one at a newline; a padding of one is enough to be more
  than there is room for.

### Fairness

`FairSpec` of `Dashboard` is weak fairness of the dashboard's own steps but the
drawing: the process is scheduled, `poll` has a timeout, and the system calls it
makes do not block (`Progress`; the two actions that only fail are left out, an
error is possible and never due). `Draw` is not in it, because the code does not
guarantee that a drawing ends: `print_latest_commits` retries an object that is
missing for good in a loop without end, `print_wrapped_node` goes round for ever
with a child longer than its line, and neither looks at `keep_running`. That
drawings end is instead the hypothesis `DrawingEnds` of `FollowsTerminal`,
`FollowsDetach`, `InterruptStops` and of the fairness part of
`ImplementsLiveView`. `Round` and `Wrap` say when the two loops do end. Nothing
is assumed of the shells, of events, or of a choice inside a step: a watch may
be refused every time. Errors may end the program in any round. Liveness
properties therefore allow the dashboard to have exited, and `FollowsTerminal`
speaks of a terminal that *stays* attached, at a prompt and in one directory.
`FairSpec` of `Wrap` is weak fairness of a loop that is running. `FairSpec` of
`Round` is weak fairness of the round's own steps; `StatusFails`, `WalkFault`
and `HeadNameFails` are left out, and within the bound of faults a walk gets on
at last. That is an assumption on the repository: at an object that is missing
for good the code retries for ever, in a loop that no interrupt ends.

### Where code and documents disagree

- `AttachWakes`: the comment of `src/timing.h` promises wake-ups by inotify. The
  session file is watched once per path, but every detach removes the inode and
  its watch. Later attaches are noticed at the next timeout, or when a hook writes
  to a terminal file that is still watched: the terminal that was attached before
  may attach again without delay.
- `ErrorReported`: a failed assertion is to be the exit code. `attach`, `detach`
  and `run_dashboard` overwrite `err` in their cleanup. In the same cleanup,
  `free_attach_session` removes watches that were never set or are gone, which
  fails an assertion of its own; that failure is overwritten as well.
- `BranchesRemembered`: `README.md` promises not to forget recently visited
  branches. Only targets of checkouts are collected; the branch that a
  repository starts on is missing after the first checkout.
- `Terminates` with oversized children: a wrapped node with a child longer than
  its line makes `print_wrapped_node` loop forever. In the dashboard the status
  list is such a node: its direction is rows, its children are single lines as
  long as no file name contains a newline, so it happens when the list gets no
  row at all, or one row and a name with a newline.

Some properties are stated with the condition under which they hold, and fail
without it: `PrintedPathResolves` excepts an attached directory strictly above
the work tree (there paths stay relative to the work tree, although the usage
text says relative to the shell's directory); `CommandChecksOut` excepts reflogs
with commits between the checkouts (the number printed is the position in the
reflog, but git's `@{-n}` counts checkouts only); `FollowsTerminal` excepts
shells in `Elsewhere`. `ChildrenMeasured` promises room only to children with
`fit_content` and to one that expands alone: of the others `print_nodes` does
not look at the contents at all. Such a child may be printed smaller than its
content, and children behind it are then printed without having been looked at
for the size across, where `get_height` had stopped. `TextShown` allows a draw
to go on past the newline of a line that is shorter than the node.
`LengthSuffices` is stated for exactly the length asked for: longer lines can be
thicker in all and lose children (children of 2x0, 2x1 and 1x1 fit in lines of 3
and not of 4, one cell thick). `DrawnInside` speaks of rectangles and paddings
that end in the window; beyond that the unsigned sizes wrap around and the text
is drawn where the cursor was. The corresponding limit in `LatestFirst` is a
maximum of zero, in `CommitLimitKept` one of one or zero, which the code does
not treat as limits; the maximum of zero is covered by the theorem
`RefsLatestFirst` alone, the run asks for two.

## What is proved

All theorems hold for every value of the constants, under the assumptions named
in the modules (`...Assumption`): sentinels differ from real values, the start
directory is in the root, the number of tries is positive, the target is between
1 and 99, bounds are natural numbers, the word holds the sizes within them.

| Theorem | States |
|---|---|
| `TimerTypeOK`, `TimerAccounting`, `TimerIdleBudget`, `TimerQuietWait` | the four invariants of the `timer` run |
| `DashboardTypeCorrect` | `TypeOK`, for any shells, inodes, directories |
| `DashboardNoLostUpdate` | `NoLostUpdate` |
| `DashboardScreenConsistent` | `ScreenConsistent` |
| `DashboardNoUseAfterFree` | `NoUseAfterFree` |
| `DashboardShowsWhatWasSeen` | `Dashboard` implements the safety part of `LiveView` |
| `RoundTypeCorrect`, `RoundSteadyFileListed`, `RoundTransientSurvived`, `RoundNewestCommits`, `RoundCommitLimitKept` | the four invariants of the `round` run and its action property, for any files, contents, limits and bounds |
| `PathsTypeCorrect`, `PathsResolve`, `PathsMinimal` | `TypeOK`, `PrintedPathResolves` and `PrintedPathMinimal`, for paths of any length |
| `PathsFollowOutermost` | `FollowsOutermost`, for work trees at any depth and submodules of any name |
| `RefsTypeCorrect`, `RefsLatestFirst`, `RefsCommandChecksOut` | the three invariants of the `refs` run, for any branches, reflog and limit |
| `NodesTypeCorrect`, `NodesPlacedInside`, `NodesNeedsMet`, `NodesAreaFilled`, `NodesAlikeTreatedAlike` | the five invariants of `Nodes`, for any children and area |
| `NodesDrawnInside`, `NodesTextShown`, `NodesChildrenMeasured` | the three of `Draw`, for any children, area, padding, text and any word that is large enough for them |
| `WrapTypeCorrect`, `WrapLinesInside`, `WrapLinesTile`, `WrapNothingLeftOut` | `TypeOK`, `LinesInside`, `LinesTile` and `NothingLeftOut`, oversized children included |
| `WrapAskedSuffices` | `AskedSuffices`, in both directions of the node, for any children, oversized ones included |

Six properties need fairness and are out of the prover's reach. For five of them
the half that does not need it is a theorem, an action property `[][...]_vars`:

| Theorem | For | States |
|---|---|---|
| `DashboardHomesIn` | `FollowsTerminal` | while a terminal stays settled, a screen that follows it goes on to, and else every step of the dashboard lowers a natural number (`Distance`) or gets there |
| `DashboardLetsGo` | `FollowsDetach` | the same of a screen that shows nobody, while nobody is attached |
| `DashboardInterruptOnlyForward` | `InterruptStops` | after an interrupt every step of the dashboard goes forward to its exit |
| `RoundComesToList` | `EventuallyListed` | while the user leaves a file alone, a screen that is right about it stays right, and else every step of the dashboard goes down in a lexicographic order (`Closer`) |
| `WrapStepsCountDown` | `Terminates` | with children that fit, every step of `print_wrapped_node`'s loops lowers a natural number (`StepsLeft`) |

The sixth is `ImplementsLiveView`, whose safety part is
`DashboardShowsWhatWasSeen`.

The arguments:

- **Timer.** The invariant adds `Paid`: during a poll, sleeping the timeout out
  would bring the charged time under the target. `IdleBudget` speaks of the
  state after the poll and says nothing during it, so it cannot be inductive.
  The rest is the arithmetic of the integer division (`DivBounds`).
- **NoLostUpdate** speaks of one moment of the round. `ReadInvariant` extends it
  to all others: while the queue is empty and both watches are in place, what
  each local variable read so far (terminal, directory, screen) is what the
  files hold now. Shell steps keep it because a step that changes a watched file
  leaves an event (`ShellQuiet`); the dashboard's steps keep it because watches
  are set before the reads. `Unwatched` and `NotYet` close the cases in which a
  watch appears in the middle of a round.
- **ScreenConsistent** needs `RepoInvariant`: outside the cleanup, the open
  repository is that of `cwd` whenever `cwd` is in the root.
- **NoUseAfterFree** needs `held` to be complete from the end of the start on, and
  that the only step that loses something leads to the cleanup.
- **ShowsWhatWasSeen** is a step simulation: the proof takes the invariants of
  `Dashboard` (types, `HashKnown`: a terminal was read before it is looked up),
  shows that the initial states map to the initial state, and maps each action to
  one of `LiveView` or to a stutter.
- **Round.** The lists of a round are of different moments, so the inductive
  invariants say of each list already read that it is right for the files not
  touched since the round began (which every edit keeps, because it touches what
  it changes), and of the walk that what was printed and what is still to come
  make up the log, if HEAD was not touched and nothing failed.
- **PathsResolve** needs what each loop has established on the parts it consumed
  (`Consumed`), and that parts of an absolute path after the first are not
  empty, so that a string used up never agrees with one that is not.
  `PathsMinimal` needs that the loop stopped at a part that differs, which the
  `../`s then count from.
- **PathsFollowOutermost**: the path of a git directory agrees with the code's
  pattern at the end of the outermost work tree, and, as no `.git/modules` comes
  before, nowhere earlier (`AgreesParts`); so that is where the first match is
  (`RootFound`), and comparing with that prefix is being below the work tree.
- **RefsLatestFirst** needs that every visit read so far is of a branch in the
  list (`Covered`), so that an entry whose branch is not in it is a latest visit,
  and that there is room in the list until its last entry (`Room`).
- **RefsCommandChecksOut** speaks of lines that are on the screen after the list
  they came from was cleared. `JInv` carries on what they were made of: each
  line's number is the position of a visit of its branch (`Shown`). With nothing
  but checkouts, the entry at position *n* is the *n+1*st checkout, so `@{-n}` is
  the branch that the *n*th left (`NthCheckout`, by counting), and that is the one
  the checkout before it entered, because every entry leaves where the one before
  it went (`Logs`). That the loop of `print_refs` puts out nothing but lines of
  the list (`LinesListed`) is an induction over the list.
- **NodesPlacedInside** needs that no size is negative: after `Measured`, the
  area used for sharing holds what all children need (`Roomy`), so the expand
  unit and the leftovers are natural numbers; `Frontier` says where the third
  loop stands.
- **NodesNeedsMet, NodesAreaFilled, NodesAlikeTreatedAlike** need what the loops
  add up, which the code holds only in totals. `Summed` says that
  there are functions that are the partial sums of the children's needs, expands,
  shares and of the number that expand, as far as the loop is; each step of a loop
  extends one of them by the child it is at, and keeps it monotone. The second
  loop's total then never exceeds the area (`UsedFits`), the leftover splits
  without remainder (`LeftoverSplit`), and where a child ends is a monotone
  function of the children before it (`ReachMonotone`, `ReachEnd`).
- **RoundTransientSurvived** needs that `retries` and `streak` agree while a list
  is read, so that the code's counter, which it starts anew for each list, is the
  number of failures in a row.
- **NodesDrawnInside, NodesTextShown** take the rectangles as the loops leave
  them, inside the area (`RectInside`). A position then stays inside the word,
  paddings included (`InnerRect`), and a size that went below zero and wrapped
  around is cut by the window, as long as the text starts in it (`ClippedText`).
  What is left of a text from a line on holds that line, and is more than the
  line only where another follows (`RestsHold`).
- **NodesChildrenMeasured** compares two sums over the same children, of contents
  and of what `print_nodes` counts, the second at most the first (`SumsAddUp`,
  `ContentSums`), so that the room asked for satisfies `NodesNeedsMet`; what a
  child with `fit_content` then gets is its content (`ReachFits`), and one that
  expands alone gets all that the others leave (`AloneGetsRest`). For the size
  across, children printed as large as their contents reach at least as far as
  the sum of these (`ContentsReach`), and the third loop ends when a child reaches
  the edge, so that all it printed were looked at.
- **WrapLinesTile** needs `Ahead` and `Final`: a line that got all the remaining
  room is never followed by another, so the next line always starts past the
  last one's end.
- **WrapNothingLeftOut** needs what the inner loop knew when it left (`FillInv`):
  the size of the line is the sum over its children (`Summed`), a line that is
  over was ended by a child that did not fit (`Broken`), its thickness is that of
  one of its children (`Thickest`), and so the line after which the outer loop
  gave up has a child that reaches over the edge (`Reaches`).
- **WrapAskedSuffices** is about two loops that pack the same children at
  different times, the one of `get_overflow_min_...` and the one that prints.
  `Together` says that the printing loop's variables are what `Packing` gives for
  the children so far, `Held` that a line which was not cut is thick enough for
  all its children. The thickness that is never reset only makes a node ask for
  more (`ThickLinesThicker`), and a length that the search stopped at before its
  bound is one at which the lines fit (`FoundLinesFit`).
- **DashboardHomesIn** needs no event and no watch: it holds with `MayRefuse`.
  `Distance` counts what can still cost a round: that the round under way had read
  something else before the terminal settled (`Stale`), that the session's or the
  terminal's watch is still to be set and may be refused (`SessionDue`,
  `TerminalDue`: each is refused once, as the path is remembered before the watch
  is tried), that the round's outcome missed the directory (`Missed`); then the
  steps of a round. A step may raise one of these only by paying with another.
  `Following` is stronger than a right screen: with a watch still to be
  set, the next round could lose the terminal again. It uses `HookTold`: the
  terminal's file holds the shell's directory whenever the shell is at a prompt.
- **DashboardInterruptOnlyForward**: the steps of a round have an order
  (`Position`), at the start resources are only added, and the only way back, from
  the loop's condition to the wait, is closed by the interrupt.
- **RoundComesToList**: `Outdated` is a list of this round, or the screen, that is
  wrong about the file; only the start of a round ends it, and no step of a round
  brings it back while the file is left alone. Retries stay at their step and use
  up `Attempts`, which is a natural number because of the retry limit and the
  bound on unreadable commits (see Fairness).
- **WrapStepsCountDown** needs the inductive invariants of the wrapping loop:
  that a line holds at least one child follows from what was measured before it.

Induction over data is done without operators as parameters: the lemmas of
`Induction` are about the *set* of numbers for which something holds
(`LeastElement`, `SetInduction`, `LoopInduction`, `GreatestElement`) and about
the *function* that makes one step of a recursion (`Recursion`,
`RecursionExists`). The recursive functions of the models (`Packing`, `Sums`,
`SizeUpTo`, `LinesAfter`) are written so that these apply, and no module uses a
`RECURSIVE` operator.

Only model-checked is what needs fairness, and with it `ENABLED`: that the steps
which go forward are taken. That step from the action properties above to
`FollowsTerminal`, `FollowsDetach`, `InterruptStops`, `EventuallyListed`,
`Terminates` and the liveness of `LiveView` is TLC's, on the instances of the
runs.

## What is not modelled

- Two dashboards that draw the same session id: they only read the session file
  and do not disturb each other.
- What libgit2, curses and the file system do is modelled as far as the code uses
  it, and marked external. Status entries for conflicts and type changes are not
  among the states of a file.
- The layout as a tree: each module takes one node and its children. A child
  whose size depends on the room it is given (a wrapped node in a wrapped node)
  is not modelled. `append_child`, `clear_children`, `init_layout` and
  `free_layout` are single-threaded list code.
- A linked work tree: git's directory is then below the main one's
  `.git/worktrees`, where only the trailing slash matches, and no shell's
  directory is ever accepted as below the root.
- The watch on the work tree: it only makes waits end early, which they may.
- The command line: `main` dispatches on `argv` and prints usage texts.
- Truncation of paths at `PATH_MAX` and of branch names, allocation failures after
  the start, formatting, attributes and the text of a commit's line.
- An overflow of the inotify queue: it would only add events.

Seen in the code and not stated as a property, because the models leave out what
it takes, or because no document promises otherwise:

- `src/attach.c` 187: at exit the watch ids are removed whether or not they are
  watches, so an assertion fails and its message is printed; later frees
  overwrite its result.
- `src/attach.c` 176: a failed `init_attach_session` would leave a freed pointer
  to the cleanup; as written nothing after its allocation fails.
- `src/attach.c` 32: a session id is the four leading hexadecimal digits of a
  random number seeded with the second.
- `src/dashboard.c` 241 and 268: `msg` and `head_name` are not terminated when a
  message's first line has 511 bytes or a branch name 100.
- `lib/layout/layout.c` 298-307: a draw is given the rest of the whole text and
  the width of the node, so a line shorter than the node is drawn past its
  newline, and what follows appears in the rows below, also below the node's
  last row: with one row, `a\nb` in a width of 3 draws `b` into the row below.
  `TextShown` says when a draw goes beyond its line, not what becomes of these
  cells.
- `lib/layout/layout.c` 174-186 and 202-214 add up the sizes of all children,
  `print_nodes` those with `fit_content` (line 19): a first child that expands,
  has no `fit_content` and fills the room ends the measuring, and the children
  behind it are printed with a size across that nobody asked for.
- `lib/layout/layout.c` 171 and 199: a wrapped node's own paddings are added after
  its size was computed for the room with them, and lines 376-377 take them off
  before it is printed; `AskedSuffices` is about nodes without paddings.
- `src/dashboard.c` 107: no error of `git_reflog_read` is looked at; if it fails,
  the uninitialized `reflog` is used and freed.
- `src/dashboard.c` 265-268: of the errors of `git_repository_head`, two fail the
  assertion; with any other, `git_reference_shorthand` is called with no
  reference before the error is returned.

## Plan

Done, in this order: `Timer`, `Terminals`, `Dashboard`, `Paths`, `Refs`,
`Nodes`, `Wrap`; then the start and the cleanup in `Dashboard`, `LiveView` with
its refinement, `Round`, `Sizes`, `Draw`, `Roots`; then the theorems, from the
invariants of each loop to the properties of the functions around it (`Draw`,
`Sizes`, `Roots`); then contents of children without `fit_content` and draws
past a newline in `Draw`, the failures of HEAD's name in `Round`, and drawings
that do not end.

Left:

1. The composition of `Sizes` with itself, a wrapped node among the children of
   another.
2. The fairness part of `ImplementsLiveView` as an action property of the same
   kind.
