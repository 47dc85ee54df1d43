----------------------------- MODULE Dashboard -----------------------------
(***************************************************************************)
(* A running dashboard (run_dashboard of src/dashboard.c, with the         *)
(* get_attached_workdir of src/attach.c it calls every round) beside       *)
(* the shells of Terminals, and the interrupt signal.                      *)
(*                                                                         *)
(* Every system call at which a shell can get in between is a step of its  *)
(* own; an open and the read that follows it are one step, because nothing *)
(* a shell does to the file's name in between changes what is read.        *)
(***************************************************************************)
EXTENDS Terminals

CONSTANTS
  InRoot,       \* the directories is_relative_to accepts under repo_root
  RepoOf,       \* the repository git opens in each directory of InRoot
  Start,        \* the directory the dashboard is started in
  MayRefuse     \* may inotify_add_watch fail on a file that exists?

ASSUME RootAssumption ==
  /\ InRoot \subseteq Dirs
  /\ DOMAIN RepoOf = InRoot
  /\ Start \in InRoot
  /\ MayRefuse \in BOOLEAN

Repos == {RepoOf[d] : d \in InRoot}

VARIABLES
  step,                 \* where run_dashboard is
  prev_session,         \* is prev_session_file_path set?
  session_file_watch,   \* is the watch id other than INVALID_WATCH_ID?
  prev_terminal,        \* the terminal prev_terminal_file_path names, or None
  terminal_hash,        \* what get_attached_workdir read from the session file
  is_attached,
  new_pwd,
  cwd,
  repo,
  shown,                \* the screen, after wrefresh
  keep_running,
  held,                 \* what run_dashboard acquired and did not release
  err,                  \* did an error end the loop?
  exit_code

attach_vars == <<prev_session, session_file_watch, prev_terminal, terminal_hash>>
view_vars == <<is_attached, new_pwd>>
repo_vars == <<cwd, repo>>
end_vars == <<held, err, exit_code>>

dashboard_vars == <<step, attach_vars, view_vars, repo_vars, shown,
                    keep_running, end_vars>>

vars == <<terminal_vars, dashboard_vars>>

Steps == {"start", "loop", "poll", "stat_session", "watch_session", "read_session",
          "stat_terminal", "watch_terminal", "read_terminal", "switch",
          "draw", "cleanup", "exited"}

\* In the order of their acquisition, each needs those before.
Before == [repo |-> {}, win |-> {"repo"}, layout |-> {"repo", "win"},
           timer |-> {"repo", "win", "layout"},
           attach_session |-> {"repo", "win", "layout", "timer"}]

Resources == DOMAIN Before

Views == [attached : BOOLEAN, pwd : Dirs, repo : Repos]

DashboardTypeOK ==
  /\ step \in Steps
  /\ prev_session \in BOOLEAN
  /\ session_file_watch \in BOOLEAN
  /\ prev_terminal \in Terminals \cup {None}
  /\ terminal_hash \in Terminals \cup {None}
  /\ is_attached \in BOOLEAN
  /\ new_pwd \in Dirs
  /\ cwd \in Dirs
  /\ repo \in Repos
  /\ shown \in Views
  /\ keep_running \in BOOLEAN
  /\ held \subseteq Resources
  /\ err \in {0, 1}
  /\ exit_code \in {0, 1}

TypeOK == TerminalsTypeOK /\ DashboardTypeOK

-----------------------------------------------------------------------------

\* The first screen is drawn after the first wait; until then shown is what
\* run_dashboard started with.
Init ==
  /\ TerminalsInit
  /\ step = "start"
  /\ prev_session = FALSE
  /\ session_file_watch = FALSE
  /\ prev_terminal = None
  /\ terminal_hash = None
  /\ is_attached = FALSE
  /\ new_pwd = Start
  /\ cwd = Start
  /\ repo = RepoOf[Start]
  /\ shown = [attached |-> FALSE, pwd |-> Start, repo |-> RepoOf[Start]]
  /\ keep_running = TRUE
  /\ held = {}
  /\ err = 0
  /\ exit_code = 0

\* RETHROW or ASSERT in run_dashboard.
Fail ==
  /\ step' = "cleanup"
  /\ err' = 1
  /\ UNCHANGED exit_code

\* The repository is opened, curses set up, and so on up to the watch on the
\* work tree, which only makes waits end early.
StartUp ==
  /\ step = "start"
  /\ IF held = Resources
     THEN step' = "loop" /\ UNCHANGED held
     ELSE /\ \E r \in Resources \ held :
               Before[r] \subseteq held /\ held' = held \cup {r}
          /\ UNCHANGED step
  /\ UNCHANGED <<terminal_vars, attach_vars, view_vars, repo_vars, shown,
                 keep_running, err, exit_code>>

\* No repository here, no memory, no terminal, no inotify.
StartFails ==
  /\ step = "start"
  /\ Fail
  /\ UNCHANGED <<terminal_vars, attach_vars, view_vars, repo_vars, shown,
                 keep_running, held>>

\* The loop's condition.
Loop ==
  /\ step = "loop"
  /\ step' = IF keep_running THEN "poll" ELSE "cleanup"
  /\ UNCHANGED <<terminal_vars, attach_vars, view_vars, repo_vars, shown,
                 keep_running, end_vars>>

(* Plausible bug: a poll without timeout, restarted after a signal.        *)
WaitForEvent ==
  /\ step = "poll"
  /\ events
  /\ step' = "stat_session"
  /\ events' = FALSE
  /\ UNCHANGED <<shell_vars, session_watch, terminal_watch, attach_vars,
                 view_vars, repo_vars, shown, keep_running, end_vars>>

\* timing_wait returns: on an event, on the signal, or at the timeout, which
\* comes in any case; the queue is emptied.
Wait ==
  /\ step = "poll"
  /\ step' = "stat_session"
  /\ events' = FALSE
  /\ UNCHANGED <<shell_vars, session_watch, terminal_watch, attach_vars,
                 view_vars, repo_vars, shown, keep_running, end_vars>>

\* timing_wait refuses a timeout of INT_MAX or more (see Timer).
WaitFails ==
  /\ step = "poll"
  /\ Fail
  /\ UNCHANGED <<terminal_vars, attach_vars, view_vars, repo_vars, shown,
                 keep_running, held>>

-----------------------------------------------------------------------------

(* Plausible bug: the outcome of the last round is kept.                   *)
StatSessionSticky ==
  /\ step = "stat_session"
  /\ IF session_inode # None /\ ~prev_session
     THEN step' = "watch_session" /\ prev_session' = TRUE
     ELSE step' = "read_session" /\ UNCHANGED prev_session
  /\ UNCHANGED <<terminal_vars, session_file_watch, prev_terminal,
                 terminal_hash, view_vars, repo_vars, shown, keep_running,
                 end_vars>>

\* get_attached_workdir: is there a session file, and is it a new one?
StatSession ==
  /\ step = "stat_session"
  /\ is_attached' = FALSE
  /\ IF session_inode # None /\ ~prev_session
     THEN step' = "watch_session" /\ prev_session' = TRUE
     ELSE step' = "read_session" /\ UNCHANGED prev_session
  /\ UNCHANGED <<terminal_vars, session_file_watch, prev_terminal,
                 terminal_hash, new_pwd, repo_vars, shown, keep_running,
                 end_vars>>

\* The session file is watched, once in the life of the dashboard.  The
\* watch fails if the file was removed since the stat; the error ends the
\* function, whose cleanup then forgets it.
WatchSession ==
  /\ step = "watch_session"
  /\ \/ /\ session_inode # None
        /\ session_watch' = session_inode
        /\ session_file_watch' = TRUE
        /\ step' = "read_session"
     \/ /\ session_inode = None \/ MayRefuse
        /\ step' = "switch"
        /\ UNCHANGED <<session_watch, session_file_watch>>
  /\ UNCHANGED <<shell_vars, terminal_watch, events, prev_session,
                 prev_terminal, terminal_hash, view_vars, repo_vars, shown,
                 keep_running, end_vars>>

(* Plausible bug: the session file is read only once.                      *)
ReadSessionOnce ==
  /\ step = "read_session"
  /\ IF session_inode = None \/ session_data[session_inode] = Empty
     THEN step' = "switch" /\ UNCHANGED terminal_hash
     ELSE /\ step' = "stat_terminal"
          /\ terminal_hash' = IF terminal_hash = None
                              THEN session_data[session_inode]
                              ELSE terminal_hash
  /\ UNCHANGED <<terminal_vars, prev_session, session_file_watch,
                 prev_terminal, view_vars, repo_vars, shown, keep_running,
                 end_vars>>

\* open and read of the session file.
ReadSession ==
  /\ step = "read_session"
  /\ IF session_inode = None \/ session_data[session_inode] = Empty
     THEN step' = "switch" /\ UNCHANGED terminal_hash
     ELSE /\ step' = "stat_terminal"
          /\ terminal_hash' = session_data[session_inode]
  /\ UNCHANGED <<terminal_vars, prev_session, session_file_watch,
                 prev_terminal, view_vars, repo_vars, shown, keep_running,
                 end_vars>>

\* Is there a terminal file, and is it another one than the last?
StatTerminal ==
  /\ step = "stat_terminal"
  /\ IF terminal_file[terminal_hash] # Absent /\ prev_terminal # terminal_hash
     THEN step' = "watch_terminal" /\ prev_terminal' = terminal_hash
     ELSE step' = "read_terminal" /\ UNCHANGED prev_terminal
  /\ UNCHANGED <<terminal_vars, prev_session, session_file_watch,
                 terminal_hash, view_vars, repo_vars, shown, keep_running,
                 end_vars>>

\* The watch moves from the last terminal's file, if any, to this one's.
\* Removing a watch queues IN_IGNORED.  Terminal files are never removed, so
\* the removal succeeds whenever the id is valid.
WatchTerminal ==
  /\ step = "watch_terminal"
  /\ events' = (events \/ terminal_watch # None)
  /\ \/ terminal_watch' = terminal_hash /\ step' = "read_terminal"
     \/ MayRefuse /\ terminal_watch' = None /\ step' = "switch"
  /\ UNCHANGED <<shell_vars, session_watch, attach_vars, view_vars,
                 repo_vars, shown, keep_running, end_vars>>

(* Plausible bug: the result of read is not looked at.                     *)
ReadTerminalUnchecked ==
  /\ step = "read_terminal"
  /\ step' = "switch"
  /\ is_attached' = TRUE
  /\ new_pwd' = terminal_file[terminal_hash]
  /\ UNCHANGED <<terminal_vars, attach_vars, repo_vars, shown, keep_running,
                 end_vars>>

\* open and read of the terminal file.
ReadTerminal ==
  /\ step = "read_terminal"
  /\ step' = "switch"
  /\ IF terminal_file[terminal_hash] \in Dirs
     THEN is_attached' = TRUE /\ new_pwd' = terminal_file[terminal_hash]
     ELSE UNCHANGED view_vars
  /\ UNCHANGED <<terminal_vars, attach_vars, repo_vars, shown, keep_running,
                 end_vars>>

-----------------------------------------------------------------------------

(* Plausible bug: cwd is not updated after the comparison.                 *)
SwitchForgetful ==
  /\ step = "switch"
  /\ IF is_attached /\ cwd # new_pwd /\ new_pwd \in InRoot
     THEN \/ repo' = RepoOf[new_pwd] /\ step' = "draw" /\ UNCHANGED end_vars
          \/ Fail /\ held' = held \ {"repo"} /\ UNCHANGED repo
     ELSE step' = "draw" /\ UNCHANGED <<repo, end_vars>>
  /\ UNCHANGED <<terminal_vars, attach_vars, view_vars, cwd, shown,
                 keep_running>>

(* Plausible bug: the result of the open is not looked at.                 *)
SwitchUnchecked ==
  /\ step = "switch"
  /\ step' = "draw"
  /\ IF is_attached /\ cwd # new_pwd
     THEN /\ cwd' = new_pwd
          /\ \/ new_pwd \in InRoot /\ repo' = RepoOf[new_pwd] /\ UNCHANGED held
             \/ new_pwd \in InRoot /\ held' = held \ {"repo"} /\ UNCHANGED repo
             \/ new_pwd \notin InRoot /\ UNCHANGED <<repo, held>>
     ELSE UNCHANGED <<repo_vars, held>>
  /\ UNCHANGED <<terminal_vars, attach_vars, view_vars, shown, keep_running,
                 err, exit_code>>

\* The attached shell moved: follow it, and open its repository if it is
\* under the root of the one the dashboard was started in.  The open fails
\* if the directory is gone by now.
Switch ==
  /\ step = "switch"
  /\ IF is_attached /\ cwd # new_pwd
     THEN /\ cwd' = new_pwd
          /\ IF new_pwd \in InRoot
             THEN \/ repo' = RepoOf[new_pwd] /\ step' = "draw" /\ UNCHANGED end_vars
                  \/ Fail /\ held' = held \ {"repo"} /\ UNCHANGED repo
             ELSE step' = "draw" /\ UNCHANGED <<repo, end_vars>>
     ELSE step' = "draw" /\ UNCHANGED <<repo_vars, end_vars>>
  /\ UNCHANGED <<terminal_vars, attach_vars, view_vars, shown, keep_running>>

(* Plausible bug: the queue is emptied after the round's reads.            *)
DrawThenClear ==
  /\ step = "draw"
  /\ step' = "loop"
  /\ shown' = [attached |-> is_attached, pwd |-> new_pwd, repo |-> repo]
  /\ events' = FALSE
  /\ UNCHANGED <<shell_vars, session_watch, terminal_watch, attach_vars,
                 view_vars, repo_vars, keep_running, end_vars>>

\* The rest of the round renders the repository's status, with paths
\* relative to new_pwd, its refs and its commits, then refreshes the screen.
Draw ==
  /\ step = "draw"
  /\ step' = "loop"
  /\ shown' = [attached |-> is_attached, pwd |-> new_pwd, repo |-> repo]
  /\ UNCHANGED <<terminal_vars, attach_vars, view_vars, repo_vars,
                 keep_running, end_vars>>

\* Any of it may fail, for instance the status after GIT_RETRY_COUNT tries.
DrawFails ==
  /\ step = "draw"
  /\ Fail
  /\ UNCHANGED <<terminal_vars, attach_vars, view_vars, repo_vars, shown,
                 keep_running, held>>

\* Both watches are removed, ids are tested against 0 and not against
\* INVALID_WATCH_ID, and the second removal assigns err over the first.
\* Without a session there is no watch either, and an assertion fails.
free_attach_session == IF terminal_watch # None THEN 0 ELSE 1

\* Each free of something that was never acquired fails an assertion, each
\* other succeeds, and all but delwin and endwin assign err.  The process's
\* exit ends the watches that are left.
Cleanup ==
  /\ step = "cleanup"
  /\ step' = "exited"
  /\ LET Freed(r) == IF r \in held THEN 0 ELSE 1
         rethrown == RETHROW_PRINT(RETHROW_PRINT(RETHROW_PRINT(err,
                       free_attach_session), Freed("timer")), Freed("layout"))
     IN  exit_code' = IF "win" \in held THEN rethrown ELSE 1
  /\ held' = {}
  /\ session_watch' = None
  /\ terminal_watch' = None
  /\ events' = FALSE
  /\ UNCHANGED <<shell_vars, attach_vars, view_vars, repo_vars, shown,
                 keep_running, err>>

\* SIGINT.
interrupt_handler ==
  /\ step # "exited"
  /\ keep_running
  /\ keep_running' = FALSE
  /\ UNCHANGED <<terminal_vars, step, attach_vars, view_vars, repo_vars,
                 shown, end_vars>>

Progress ==
  \/ StartUp \/ Loop \/ Wait
  \/ StatSession \/ WatchSession \/ ReadSession
  \/ StatTerminal \/ WatchTerminal \/ ReadTerminal
  \/ Switch \/ Cleanup

DashboardStep == Progress \/ Draw \/ StartFails \/ WaitFails \/ DrawFails

\* The shells go on after the dashboard exited, but nothing of it reaches the
\* dashboard; the model ends there.
ShellStep(t) ==
  /\ step # "exited"
  /\ TerminalStep(t)
  /\ UNCHANGED dashboard_vars

Next ==
  \/ DashboardStep
  \/ interrupt_handler
  \/ \E t \in Terminals : ShellStep(t)

Spec == Init /\ [][Next]_vars

\* The dashboard's process is scheduled and poll times out; nothing is
\* asked of the user's shells, and no error has to happen.  Nor does a round
\* have to come to its end: see DrawingEnds.
FairSpec == Spec /\ WF_vars(Progress)

\* No drawing goes on for ever.  One that meets an object missing for good in
\* print_latest_commits (see Round), or a child larger than its line in
\* print_wrapped_node (see Wrap), does, and looks at no interrupt.
DrawingEnds == []<>(step # "draw")

-----------------------------------------------------------------------------

\* The watches are where the session file says.
Watching ==
  /\ session_inode # None
  /\ session_watch = session_inode
  /\ session_data[session_inode] # Empty
  /\ terminal_watch = session_data[session_inode]

(* No lost wake-up.  Whenever the dashboard goes to sleep on an empty      *)
(* queue while its watches are on the current session file and on the file *)
(* of the terminal that names, the screen shows what these files hold now: *)
(* every change since they were read has queued an event.  (The watches    *)
(* are set before the reads, and the queue is emptied before both.)        *)
NoLostUpdate ==
  step = "poll" /\ ~events /\ Watching =>
    LET dir == terminal_file[session_data[session_inode]]
    IN  /\ shown.attached = (dir \in Dirs)
        /\ shown.attached => shown.pwd = dir

(* The screen never mixes two directories: paths printed relative to an    *)
(* attached directory under repo_root come from the repository of that     *)
(* directory, whatever order of attaching, detaching and moving in and out *)
(* of the root led there.                                                  *)
ScreenConsistent ==
  shown.attached /\ shown.pwd \in InRoot => shown.repo = RepoOf[shown.pwd]

(* No step of a round uses a resource that was never acquired or that is   *)
(* freed, whatever failed at the start or when the repository changed.     *)
NoUseAfterFree ==
  step \notin {"start", "cleanup", "exited"} => held = Resources

\* Terminal t is attached, and its shell at a prompt in directory d.
Settled(t, d) ==
  /\ session_inode # None
  /\ session_data[session_inode] = t
  /\ pc[t] = "idle"
  /\ pwd[t] = d

(* "attach: Attach a running dashboard to the current terminal so that the *)
(* paths are relative to its cwd" (main.c:12): once a terminal stays       *)
(* attached, at a prompt and in one directory, the dashboard comes to show *)
(* that directory and stays with it, even if every wake-up by inotify was  *)
(* lost, unless it exits or hangs in a drawing.  Shells with a             *)
(* GIT_LIVE_DIR of their own are excepted: the hook lets the user set it,  *)
(* get_cache_dir does not read it.                                         *)
FollowsTerminal ==
  DrawingEnds =>
    \A t \in Terminals \ Elsewhere, d \in Dirs :
      <>[]Settled(t, d) =>
        <>[](step = "exited" \/ (shown.attached /\ shown.pwd = d))

(* "detach: Detach a running dashboard from the terminal it is attached    *)
(* to" (main.c:14): with nobody attached any more, the screen comes to say *)
(* so, unless the dashboard exits or hangs in a drawing.                   *)
FollowsDetach ==
  DrawingEnds /\ <>[](session_inode = None) =>
    <>[](step = "exited" \/ ~shown.attached)

(* An interrupt ends the dashboard, wherever in the round it arrives, if   *)
(* the drawing of that round ends: only the loop of run_dashboard tests    *)
(* keep_running.                                                           *)
InterruptStops == DrawingEnds => (~keep_running ~> step = "exited")

(* "wakes up both by inotify for low latency and periodically for          *)
(* reliability" (timing.h:8): a dashboard whose session file was watched   *)
(* does not sleep through an attachment.  It does: the watch ended with    *)
(* the file that was detached, and the file of the next attach, which has  *)
(* the same path, is not watched again.                                    *)
AttachWakes ==
  step = "poll" /\ ~events /\ session_file_watch
    /\ (\E t \in Terminals, d \in Dirs : Settled(t, d))
  => shown.attached

(* A process that an error ended exits with that error: ASSERT sets err to *)
(* 1 (err.h:20) and main returns what attach, detach and run_dashboard     *)
(* return.  Their cleanups assign err again, so this does not hold.        *)
ErrorReported ==
  /\ last_command.asserted => last_command.code # 0
  /\ step = "exited" /\ err # 0 => exit_code # 0

=============================================================================
