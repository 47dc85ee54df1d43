-------------------------- MODULE DashboardProofs --------------------------
(***************************************************************************)
(* Proofs about the dashboard for any number of shells, inodes,            *)
(* directories and repositories.                                           *)
(*                                                                         *)
(* NoLostUpdate speaks of the moment the dashboard goes to sleep.  Its     *)
(* invariant says, for every step of a round, what the locals that were    *)
(* read so far have to do with the files: while the queue is empty and     *)
(* both watches are in place (Quiet), they are what the files hold now.    *)
(*                                                                         *)
(* What liveness rests on besides fairness is stated by action properties: *)
(* every step of the dashboard comes nearer to its end after an interrupt, *)
(* to the directory of a settled terminal, to letting go of a session.     *)
(***************************************************************************)
EXTENDS DashboardView, TLAPS

Quiet == ~events /\ Watching

\* The watched terminal's file.
Watched == terminal_file[session_data[session_inode]]

Agrees(attached, dir) ==
  /\ attached = (Watched \in Dirs)
  /\ attached => dir = Watched

\* No session watch exists before the session file's path is remembered.
Unwatched ==
  /\ ~prev_session \/ step \in {"start", "watch_session"} => session_watch = None
  /\ step = "watch_session" => prev_session

\* is_attached is reset until the terminal file was read.
NotYet ==
  step \in {"watch_session", "read_session", "stat_terminal",
            "watch_terminal", "read_terminal"}
    => ~is_attached

HashKnown ==
  step \in {"stat_terminal", "watch_terminal", "read_terminal"}
    => terminal_hash \in Terminals

HashRead ==
  step \in {"stat_terminal", "watch_terminal", "read_terminal"} /\ Quiet
    => terminal_hash = session_data[session_inode]

DirRead ==
  step \in {"switch", "draw"} /\ Quiet => Agrees(is_attached, new_pwd)

ScreenRead ==
  step \in {"loop", "poll"} /\ Quiet => Agrees(shown.attached, shown.pwd)

ReadInvariant ==
  Unwatched /\ NotYet /\ HashKnown /\ HashRead /\ DirRead /\ ScreenRead

-----------------------------------------------------------------------------

LEMMA InitTypeOK == Init => TypeOK
<1> SUFFICES ASSUME Init PROVE TerminalsTypeOK /\ DashboardTypeOK
  BY DEF TypeOK
<1>1. TerminalsTypeOK
  BY DEF Init, TerminalsInit, NoCommand, TerminalsTypeOK
<1>2. Start \in Dirs /\ RepoOf[Start] \in Repos
  BY RootAssumption DEF Repos
<1>3. shown \in Views
  BY <1>2 DEF Init, Views
<1>4. DashboardTypeOK
  BY <1>2, <1>3, Zenon DEF Init, DashboardTypeOK, Steps
<1> QED
  BY <1>1, <1>4

LEMMA ShellTypeOK ==
  ASSUME TypeOK, NEW t \in Terminals, TerminalStep(t)
  PROVE  TerminalsTypeOK'
<1> USE DEF TypeOK, TerminalsTypeOK, Return, RETHROW_PRINT, NoCommand,
            SessionModified, TerminalModified, SessionGone, session_vars,
            kernel_vars
<1>1. ASSUME NEW d \in Dirs, RunCommand(t, d) PROVE TerminalsTypeOK'
  BY <1>1 DEF RunCommand
<1>2. CASE PromptTruncate(t)
  BY <1>2 DEF PromptTruncate
<1>3. CASE PromptWrite(t)
  BY <1>3 DEF PromptWrite
<1>4. CASE PromptElsewhere(t)
  BY <1>4 DEF PromptElsewhere
<1>5. CASE AttachOpen(t)
  BY <1>5 DEF AttachOpen
<1>6. CASE AttachRefused(t)
  BY <1>6 DEF AttachRefused
<1>7. CASE AttachWrite(t)
  BY <1>7 DEF AttachWrite
<1>8. CASE AttachWriteFails(t)
  BY <1>8 DEF AttachWriteFails
<1>9. CASE Detach(t)
  BY <1>9 DEF Detach
<1>10. CASE DetachUnattached(t)
  BY <1>10 DEF DetachUnattached
<1> QED
  BY <1>1, <1>2, <1>3, <1>4, <1>5, <1>6, <1>7, <1>8, <1>9, <1>10
     DEF TerminalStep

LEMMA DashboardStepTypeOK ==
  ASSUME TypeOK, DashboardStep
  PROVE  TypeOK'
<1> USE RootAssumption
    DEF TypeOK, TerminalsTypeOK, DashboardTypeOK, terminal_vars, shell_vars,
        session_vars, kernel_vars, attach_vars, view_vars, repo_vars,
        end_vars, Fail
<1>1. CASE Loop
  BY <1>1 DEF Loop, Steps
<1>2. CASE Wait
  <2>1. TerminalsTypeOK'
    BY <1>2, Zenon DEF Wait
  <2>2. DashboardTypeOK'
    BY <1>2, Zenon DEF Wait, Steps
  <2> QED
    BY <2>1, <2>2
<1>3. CASE WaitFails
  BY <1>3 DEF WaitFails, Steps
<1>4. CASE StatSession
  <2>1. TerminalsTypeOK'
    BY <1>4, Zenon DEF StatSession
  <2>2. DashboardTypeOK'
    BY <1>4, Zenon DEF StatSession, Steps
  <2> QED
    BY <2>1, <2>2
<1>5. CASE WatchSession
  <2>1. TerminalsTypeOK'
    BY <1>5, Zenon DEF WatchSession
  <2>2. DashboardTypeOK'
    BY <1>5, Zenon DEF WatchSession, Steps
  <2> QED
    BY <2>1, <2>2
<1>6. CASE ReadSession
  BY <1>6 DEF ReadSession, Steps
<1>7. CASE StatTerminal
  BY <1>7 DEF StatTerminal, Steps
<1>8. CASE WatchTerminal
  BY <1>8 DEF WatchTerminal, Steps
<1>9. CASE ReadTerminal
  <2>1. TerminalsTypeOK'
    BY <1>9, Zenon DEF ReadTerminal
  <2>2. DashboardTypeOK'
    BY <1>9, Zenon DEF ReadTerminal, Steps
  <2> QED
    BY <2>1, <2>2
<1>10. CASE Switch
  BY <1>10 DEF Switch, Steps, Repos
<1>11. CASE Draw
  BY <1>11 DEF Draw, Steps, Views
<1>12. CASE DrawFails
  BY <1>12 DEF DrawFails, Steps
<1>13. CASE Cleanup
  <2>1. TerminalsTypeOK'
    BY <1>13 DEF Cleanup
  <2>2. exit_code' \in {0, 1} /\ held' \subseteq Resources
    BY <1>13 DEF Cleanup, RETHROW_PRINT, free_attach_session
  <2>3. DashboardTypeOK'
    BY <1>13, <2>2 DEF Cleanup, Steps
  <2> QED
    BY <2>1, <2>3
<1>14. CASE StartUp
  <2>1. TerminalsTypeOK'
    BY <1>14, Zenon DEF StartUp
  <2>2. held' \subseteq Resources /\ step' \in Steps
    BY <1>14 DEF StartUp, Steps
  <2>3. DashboardTypeOK'
    BY <1>14, <2>2, Zenon DEF StartUp
  <2> QED
    BY <2>1, <2>3
<1>15. CASE StartFails
  BY <1>15 DEF StartFails, Steps
<1> QED
  BY <1>1, <1>2, <1>3, <1>4, <1>5, <1>6, <1>7, <1>8, <1>9, <1>10, <1>11,
     <1>12, <1>13, <1>14, <1>15 DEF DashboardStep, Progress

(* Every variable keeps its type, in every instance.                       *)
THEOREM DashboardTypeCorrect == Spec => []TypeOK
<1>1. Init => TypeOK
  BY InitTypeOK
<1>2. TypeOK /\ [Next]_vars => TypeOK'
  <2> SUFFICES ASSUME TypeOK, [Next]_vars PROVE TypeOK'
    OBVIOUS
  <2>1. CASE DashboardStep
    BY <2>1, DashboardStepTypeOK
  <2>2. CASE interrupt_handler
    <3>1. TerminalsTypeOK'
      BY <2>2, Zenon DEF interrupt_handler, TypeOK, TerminalsTypeOK,
         terminal_vars, shell_vars, session_vars, kernel_vars
    <3>2. DashboardTypeOK'
      BY <2>2, Zenon DEF interrupt_handler, TypeOK, DashboardTypeOK,
         attach_vars, view_vars, repo_vars, end_vars
    <3> QED
      BY <3>1, <3>2 DEF TypeOK
  <2>3. ASSUME NEW t \in Terminals, ShellStep(t) PROVE TypeOK'
    <3>1. TerminalsTypeOK'
      BY <2>3, ShellTypeOK DEF ShellStep
    <3>2. DashboardTypeOK'
      BY <2>3 DEF ShellStep, TypeOK, DashboardTypeOK, dashboard_vars, attach_vars,
                  view_vars, repo_vars, end_vars
    <3> QED
      BY <3>1, <3>2 DEF TypeOK
  <2>4. CASE UNCHANGED vars
    BY <2>4 DEF vars, terminal_vars, shell_vars, session_vars, kernel_vars,
                dashboard_vars, attach_vars, view_vars, repo_vars, end_vars,
                TypeOK, TerminalsTypeOK, DashboardTypeOK
  <2> QED
    BY <2>1, <2>2, <2>3, <2>4 DEF Next
<1> QED
  BY <1>1, <1>2, PTL DEF Spec

-----------------------------------------------------------------------------

(* A shell's step after which the queue is still empty and the watches are *)
(* in place changed nothing of what they watch.                            *)
LEMMA ShellQuiet ==
  ASSUME TypeOK, NEW t \in Terminals, TerminalStep(t), Quiet'
  PROVE  /\ Quiet
         /\ session_data'[session_inode'] = session_data[session_inode]
         /\ Watched' = Watched
<1> USE DEF TypeOK, TerminalsTypeOK, Quiet, Watching, Watched,
            SessionModified, TerminalModified, SessionGone, session_vars,
            kernel_vars
<1> DEFINE Same == /\ Quiet
                   /\ session_data'[session_inode'] = session_data[session_inode]
                   /\ Watched' = Watched
<1>1. ASSUME NEW d \in Dirs, RunCommand(t, d) PROVE Same
  BY <1>1 DEF RunCommand
<1>2. CASE PromptTruncate(t)
  BY <1>2 DEF PromptTruncate
<1>3. CASE PromptWrite(t)
  BY <1>3 DEF PromptWrite
<1>4. CASE PromptElsewhere(t)
  BY <1>4 DEF PromptElsewhere
<1>5. CASE AttachOpen(t)
  BY <1>5 DEF AttachOpen
<1>6. CASE AttachRefused(t)
  BY <1>6 DEF AttachRefused
<1>7. CASE AttachWrite(t)
  BY <1>7 DEF AttachWrite
<1>8. CASE AttachWriteFails(t)
  BY <1>8 DEF AttachWriteFails
<1>9. CASE Detach(t)
  BY <1>9 DEF Detach
<1>10. CASE DetachUnattached(t)
  BY <1>10 DEF DetachUnattached
<1> QED
  BY <1>1, <1>2, <1>3, <1>4, <1>5, <1>6, <1>7, <1>8, <1>9, <1>10
     DEF TerminalStep

(* No shell sets a watch.                                                  *)
LEMMA ShellUnwatched ==
  ASSUME NEW t \in Terminals, TerminalStep(t), session_watch = None
  PROVE  session_watch' = None
  BY DEF TerminalStep, RunCommand, PromptTruncate, PromptWrite,
         PromptElsewhere, AttachOpen, AttachRefused, AttachWrite,
         AttachWriteFails, Detach, DetachUnattached, SessionGone, kernel_vars

LEMMA ShellReadInvariant ==
  ASSUME TypeOK, ReadInvariant, NEW t \in Terminals, ShellStep(t)
  PROVE  ReadInvariant'
<1>1. TerminalStep(t)
  BY DEF ShellStep
<1>2. UNCHANGED <<step, prev_session, terminal_hash, is_attached, new_pwd, shown>>
  BY DEF ShellStep, dashboard_vars, attach_vars, view_vars
<1>3. Unwatched'
  BY <1>1, <1>2, ShellUnwatched DEF ReadInvariant, Unwatched
<1>4. NotYet' /\ HashKnown'
  BY <1>2 DEF ReadInvariant, NotYet, HashKnown
<1>5. HashRead'
  BY <1>1, <1>2, ShellQuiet DEF ReadInvariant, HashRead
<1>6. DirRead'
  BY <1>1, <1>2, ShellQuiet DEF ReadInvariant, DirRead, Agrees
<1>7. ScreenRead'
  BY <1>1, <1>2, ShellQuiet DEF ReadInvariant, ScreenRead, Agrees
<1> QED
  BY <1>3, <1>4, <1>5, <1>6, <1>7 DEF ReadInvariant

LEMMA DashboardStepReadInvariant ==
  ASSUME TypeOK, ReadInvariant, DashboardStep
  PROVE  ReadInvariant'
<1> USE DEF ReadInvariant, Unwatched, NotYet, HashKnown, HashRead, DirRead, ScreenRead,
            Agrees, Quiet, Watching, Watched, Fail, terminal_vars, shell_vars,
            session_vars, kernel_vars, attach_vars, view_vars, repo_vars
<1>1. CASE Loop
  BY <1>1 DEF Loop
<1>2. CASE Wait
  BY <1>2 DEF Wait
<1>3. CASE WaitFails
  BY <1>3 DEF WaitFails
<1>4. CASE StatSession
  BY <1>4 DEF StatSession
<1>5. CASE WatchSession
  BY <1>5 DEF WatchSession
<1>6. CASE ReadSession
  BY <1>6 DEF ReadSession, TypeOK, TerminalsTypeOK
<1>7. CASE StatTerminal
  BY <1>7 DEF StatTerminal
<1>8. CASE WatchTerminal
  <2>1. None # session_data'[session_inode'] \/ ~Quiet'
    BY <1>8, SentinelAssumption DEF WatchTerminal, TypeOK, TerminalsTypeOK
  <2>2. CASE terminal_watch' = terminal_hash /\ step' = "read_terminal"
    BY <1>8, <2>2 DEF WatchTerminal
  <2>3. CASE terminal_watch' = None /\ step' = "switch"
    BY <1>8, <2>1, <2>3 DEF WatchTerminal
  <2> QED
    BY <1>8, <2>2, <2>3 DEF WatchTerminal
<1>9. CASE ReadTerminal
  <2>1. CASE terminal_file[terminal_hash] \in Dirs
    BY <1>9, <2>1 DEF ReadTerminal
  <2>2. CASE terminal_file[terminal_hash] \notin Dirs
    BY <1>9, <2>2 DEF ReadTerminal, TypeOK, DashboardTypeOK
  <2> QED
    BY <2>1, <2>2
<1>10. CASE Switch
  BY <1>10 DEF Switch
<1>11. CASE Draw
  BY <1>11 DEF Draw
<1>12. CASE DrawFails
  BY <1>12 DEF DrawFails
<1>13. CASE Cleanup
  BY <1>13 DEF Cleanup
<1>14. CASE StartUp
  <2>1. session_watch' = None
    BY <1>14 DEF StartUp
  <2>2. step' \in {"start", "loop"} /\ ~Quiet'
    BY <1>14, <2>1 DEF StartUp
  <2> QED
    BY <2>1, <2>2
<1>15. CASE StartFails
  BY <1>15 DEF StartFails
<1> QED
  BY <1>1, <1>2, <1>3, <1>4, <1>5, <1>6, <1>7, <1>8, <1>9, <1>10, <1>11,
     <1>12, <1>13, <1>14, <1>15 DEF DashboardStep, Progress

LEMMA InitReadInvariant == Init => ReadInvariant
  BY DEF Init, TerminalsInit, ReadInvariant, Unwatched, NotYet, HashKnown, HashRead,
         DirRead, ScreenRead, Quiet, Watching

LEMMA DashboardReads == Spec => []ReadInvariant
<1>1. Init => ReadInvariant
  BY InitReadInvariant
<1>2. TypeOK /\ ReadInvariant /\ [Next]_vars => ReadInvariant'
  <2> SUFFICES ASSUME TypeOK, ReadInvariant, [Next]_vars
               PROVE  ReadInvariant'
    OBVIOUS
  <2>1. CASE DashboardStep
    BY <2>1, DashboardStepReadInvariant
  <2>2. CASE interrupt_handler
    BY <2>2 DEF interrupt_handler, ReadInvariant, Unwatched, NotYet, HashKnown, HashRead,
                DirRead, ScreenRead, Agrees, Quiet, Watching, Watched,
                terminal_vars, shell_vars, session_vars, kernel_vars,
                attach_vars, view_vars
  <2>3. ASSUME NEW t \in Terminals, ShellStep(t) PROVE ReadInvariant'
    BY <2>3, ShellReadInvariant
  <2>4. CASE UNCHANGED vars
    BY <2>4 DEF vars, terminal_vars, shell_vars, session_vars, kernel_vars,
                dashboard_vars, attach_vars, view_vars, ReadInvariant,
                Unwatched, NotYet, HashKnown, HashRead, DirRead, ScreenRead,
                Agrees,
                Quiet, Watching, Watched
  <2> QED
    BY <2>1, <2>2, <2>3, <2>4 DEF Next
<1> QED
  BY <1>1, <1>2, DashboardTypeCorrect, PTL DEF Spec

(* The dashboard never sleeps on a missed change: whatever the shells do,  *)
(* and in whatever order, between the system calls of a round.             *)
THEOREM DashboardNoLostUpdate == Spec => []NoLostUpdate
<1>1. ReadInvariant => NoLostUpdate
  BY DEF ReadInvariant, ScreenRead, NoLostUpdate, Agrees, Quiet, Watched
<1> QED
  BY <1>1, DashboardReads, PTL

-----------------------------------------------------------------------------

\* While the dashboard runs, repo is the repository of cwd if cwd is under
\* the root, and an attached directory about to be drawn is cwd.
RepoInvariant ==
  /\ step \notin {"cleanup", "exited"} /\ cwd \in InRoot => repo = RepoOf[cwd]
  /\ step = "draw" /\ is_attached => cwd = new_pwd
  /\ ScreenConsistent

LEMMA DashboardStepRepoInvariant ==
  ASSUME TypeOK, RepoInvariant, DashboardStep
  PROVE  RepoInvariant'
<1> USE DEF RepoInvariant, ScreenConsistent, Fail, view_vars, repo_vars
<1>1. CASE Loop
  BY <1>1 DEF Loop
<1>2. CASE Wait
  BY <1>2 DEF Wait
<1>3. CASE WaitFails
  BY <1>3 DEF WaitFails
<1>4. CASE StatSession
  BY <1>4 DEF StatSession
<1>5. CASE WatchSession
  BY <1>5 DEF WatchSession
<1>6. CASE ReadSession
  BY <1>6 DEF ReadSession
<1>7. CASE StatTerminal
  BY <1>7 DEF StatTerminal
<1>8. CASE WatchTerminal
  BY <1>8 DEF WatchTerminal
<1>9. CASE ReadTerminal
  BY <1>9 DEF ReadTerminal
<1>10. CASE Switch
  BY <1>10 DEF Switch
<1>11. CASE Draw
  BY <1>11 DEF Draw
<1>12. CASE DrawFails
  BY <1>12 DEF DrawFails
<1>13. CASE Cleanup
  BY <1>13 DEF Cleanup
<1>14. CASE StartUp
  BY <1>14 DEF StartUp
<1>15. CASE StartFails
  BY <1>15 DEF StartFails
<1> QED
  BY <1>1, <1>2, <1>3, <1>4, <1>5, <1>6, <1>7, <1>8, <1>9, <1>10, <1>11,
     <1>12, <1>13, <1>14, <1>15 DEF DashboardStep, Progress

(* The screen shows the repository of the directory it is attached to.     *)
THEOREM DashboardScreenConsistent == Spec => []ScreenConsistent
<1>1. Init => RepoInvariant
  BY DEF Init, RepoInvariant, ScreenConsistent
<1>2. TypeOK /\ RepoInvariant /\ [Next]_vars => RepoInvariant'
  <2> SUFFICES ASSUME TypeOK, RepoInvariant, [Next]_vars
               PROVE  RepoInvariant'
    OBVIOUS
  <2>1. CASE DashboardStep
    BY <2>1, DashboardStepRepoInvariant
  <2>2. CASE interrupt_handler
    BY <2>2 DEF interrupt_handler, RepoInvariant, ScreenConsistent, view_vars,
                repo_vars
  <2>3. ASSUME NEW t \in Terminals, ShellStep(t) PROVE RepoInvariant'
    BY <2>3 DEF ShellStep, RepoInvariant, ScreenConsistent, dashboard_vars,
                view_vars, repo_vars
  <2>4. CASE UNCHANGED vars
    BY <2>4 DEF vars, dashboard_vars, RepoInvariant, ScreenConsistent,
                view_vars, repo_vars
  <2> QED
    BY <2>1, <2>2, <2>3, <2>4 DEF Next
<1>3. RepoInvariant => ScreenConsistent
  BY DEF RepoInvariant
<1> QED
  BY <1>1, <1>2, <1>3, DashboardTypeCorrect, PTL DEF Spec

-----------------------------------------------------------------------------

(* The round only starts once everything was acquired, and whatever frees  *)
(* the repository without replacing it leaves the round.                   *)
THEOREM DashboardNoUseAfterFree == Spec => []NoUseAfterFree
<1>1. Init => NoUseAfterFree
  BY DEF Init, NoUseAfterFree
<1>2. NoUseAfterFree /\ [Next]_vars => NoUseAfterFree'
  <2> SUFFICES ASSUME NoUseAfterFree, [Next]_vars PROVE NoUseAfterFree'
    OBVIOUS
  <2> USE DEF NoUseAfterFree, end_vars, Fail
  <2>1. CASE StartUp
    BY <2>1 DEF StartUp
  <2>2. CASE StartFails \/ WaitFails \/ DrawFails
    BY <2>2 DEF StartFails, WaitFails, DrawFails
  <2>3. CASE Switch
    BY <2>3 DEF Switch
  <2>4. CASE Loop \/ Wait \/ StatSession \/ WatchSession \/ ReadSession
    BY <2>4 DEF Loop, Wait, StatSession, WatchSession, ReadSession
  <2>5. CASE StatTerminal \/ WatchTerminal \/ ReadTerminal \/ Draw
    BY <2>5 DEF StatTerminal, WatchTerminal, ReadTerminal, Draw
  <2>6. CASE Cleanup
    BY <2>6 DEF Cleanup
  <2>7. CASE interrupt_handler
    BY <2>7 DEF interrupt_handler
  <2>8. ASSUME NEW t \in Terminals, ShellStep(t) PROVE NoUseAfterFree'
    BY <2>8 DEF ShellStep, dashboard_vars
  <2>9. CASE UNCHANGED vars
    BY <2>9 DEF vars, dashboard_vars
  <2> QED
    BY <2>1, <2>2, <2>3, <2>4, <2>5, <2>6, <2>7, <2>8, <2>9
       DEF Next, DashboardStep, Progress
<1> QED
  BY <1>1, <1>2, PTL DEF Spec

-----------------------------------------------------------------------------

\* The steps of the dashboard, from the wait on.
Position ==
  [start |-> 0, poll |-> 1, stat_session |-> 2, watch_session |-> 3,
   read_session |-> 4, stat_terminal |-> 5, watch_terminal |-> 6,
   read_terminal |-> 7, switch |-> 8, draw |-> 9, loop |-> 10,
   cleanup |-> 11, exited |-> 12]

\* The dashboard goes forward: a step of the round further, or a resource
\* further at the start.
Forward ==
  \/ Position[step] < Position[step']
  \/ step = "start" /\ step' = "start" /\ held \subseteq held' /\ held # held'

\* After an interrupt the dashboard's own steps all go forward, and no other
\* step moves it back.
OnlyForward ==
  ~keep_running =>
    /\ ~keep_running'
    /\ DashboardStep => Forward
    /\ ~DashboardStep => UNCHANGED <<step, held>>

LEMMA StartUpForward ==
  ASSUME StartUp
  PROVE  Forward
<1>1. CASE held = Resources
  BY <1>1 DEF StartUp, Forward, Position
<1>2. CASE held # Resources
  <2>1. PICK r \in Resources \ held : held' = held \cup {r}
    BY <1>2 DEF StartUp
  <2>2. step = "start" /\ step' = "start"
    BY <1>2 DEF StartUp
  <2> QED
    BY <2>1, <2>2 DEF Forward
<1> QED
  BY <1>1, <1>2

LEMMA StepForward ==
  ASSUME ~keep_running, DashboardStep
  PROVE  Forward
<1> USE DEF Forward, Position, Fail, end_vars
<1>1. CASE StartUp
  BY <1>1, StartUpForward
<1>2. CASE StartFails \/ WaitFails \/ DrawFails
  BY <1>2 DEF StartFails, WaitFails, DrawFails
<1>3. CASE Loop \/ Wait
  BY <1>3 DEF Loop, Wait
<1>4. CASE StatSession \/ WatchSession \/ ReadSession
  BY <1>4 DEF StatSession, WatchSession, ReadSession
<1>5. CASE StatTerminal \/ WatchTerminal \/ ReadTerminal
  BY <1>5 DEF StatTerminal, WatchTerminal, ReadTerminal
<1>6. CASE Switch \/ Draw \/ Cleanup
  BY <1>6 DEF Switch, Draw, Cleanup
<1> QED
  BY <1>1, <1>2, <1>3, <1>4, <1>5, <1>6 DEF DashboardStep, Progress

(* An interrupt ends the dashboard wherever it arrives: from then on there *)
(* are only the steps left to the end of the round, and no other round.    *)
(* That these steps are taken, once the drawing ends, is InterruptStops.   *)
THEOREM DashboardInterruptOnlyForward == Spec => [][OnlyForward]_vars
<1>1. TypeOK /\ Next => OnlyForward
  <2> SUFFICES ASSUME TypeOK, Next, ~keep_running PROVE OnlyForward
    BY DEF OnlyForward
  <2>1. CASE DashboardStep
    <3>1. ~keep_running'
      BY <2>1 DEF DashboardStep, Progress, StartUp, StartFails, WaitFails,
           DrawFails, Loop, Wait, StatSession, WatchSession, ReadSession,
           StatTerminal, WatchTerminal, ReadTerminal, Switch, Draw, Cleanup
    <3> QED
      BY <2>1, <3>1, StepForward DEF OnlyForward
  <2>2. CASE \E t \in Terminals : ShellStep(t)
    <3>1. UNCHANGED <<step, held, keep_running>>
      BY <2>2 DEF ShellStep, dashboard_vars, end_vars
    <3>2. ~DashboardStep
      <4> SUFFICES ASSUME DashboardStep PROVE FALSE
        OBVIOUS
      <4>1. Position[step] \in Int
        BY DEF TypeOK, DashboardTypeOK, Steps, Position
      <4> QED
        BY <3>1, <4>1, StepForward DEF Forward
    <3> QED
      BY <3>1, <3>2 DEF OnlyForward
  <2>3. CASE interrupt_handler
    BY <2>3 DEF interrupt_handler
  <2> QED
    BY <2>1, <2>2, <2>3 DEF Next
<1> QED
  BY <1>1, DashboardTypeCorrect, PTL DEF Spec

-----------------------------------------------------------------------------
(***************************************************************************)
(* A terminal that settles is shown, and stays so: what FollowsTerminal    *)
(* rests on besides fairness.  No event has to arrive for it.              *)
(***************************************************************************)

\* The hook told the dashboard where the shell is, whenever that is at a
\* prompt or attaches.
HookTold ==
  \A t \in Terminals \ Elsewhere :
    pc[t] \in {"idle", "attach"} => terminal_file[t] = pwd[t]

Running == step \notin {"start", "cleanup", "exited"}

\* The round began to look at something else before t settled.
Stale(t) ==
  \/ /\ step \in {"read_session", "stat_terminal", "watch_terminal", "read_terminal"}
     /\ ~prev_session
  \/ /\ step \in {"stat_terminal", "watch_terminal", "read_terminal"}
     /\ terminal_hash # t
  \/ /\ step \in {"watch_terminal", "read_terminal"}
     /\ prev_terminal # t

\* A watch that can still be refused.
SessionDue == ~prev_session \/ step = "watch_session"
TerminalDue(t) == prev_terminal # t \/ step = "watch_terminal" \/ Stale(t)

\* What the round has read of directory d.
Read(t, d) ==
  step \in {"switch", "draw"} => is_attached /\ new_pwd = d

\* The screen shows directory d of terminal t, and no round takes it away.
Following(t, d) ==
  /\ Running
  /\ shown.attached /\ shown.pwd = d
  /\ ~SessionDue /\ ~TerminalDue(t)
  /\ Read(t, d)

\* It takes another round at least.
Missed(t, d) ==
  \/ step \in {"switch", "draw"} /\ ~(Read(t, d) /\ ~SessionDue /\ ~TerminalDue(t))
  \/ step \in {"loop", "poll"} /\ ~Following(t, d)

Weight(b) == IF b THEN 1 ELSE 0

\* The steps of a round that are left.
Left ==
  [stat_session |-> 9, watch_session |-> 8, read_session |-> 7,
   stat_terminal |-> 6, watch_terminal |-> 5, read_terminal |-> 4,
   switch |-> 3, draw |-> 2, loop |-> 1, poll |-> 0]

\* A bound on the steps until the dashboard follows t: each watch that is
\* refused costs a round, and so does the round that was under way.
Distance(t, d) ==
  20 * (Weight(Stale(t)) + Weight(SessionDue) + Weight(TerminalDue(t)))
    + 10 * Weight(Missed(t, d)) + Left[step]

Nearer(t, d) ==
  Settled(t, d) /\ Settled(t, d)' /\ Running /\ Running' =>
    /\ Distance(t, d) \in Nat
    /\ Following(t, d) => Following(t, d)'
    /\ DashboardStep /\ ~Following(t, d) =>
         Following(t, d)' \/ Distance(t, d)' < Distance(t, d)
    /\ ~DashboardStep => UNCHANGED Distance(t, d)

LEMMA HookInvariant == Spec => []HookTold
<1>1. Init => HookTold
  BY DEF Init, TerminalsInit, HookTold
<1>2. TypeOK /\ HookTold /\ [Next]_vars => HookTold'
  <2> SUFFICES ASSUME TypeOK, HookTold, [Next]_vars PROVE HookTold'
    OBVIOUS
  <2>1. CASE UNCHANGED <<pc, pwd, terminal_file>>
    BY <2>1 DEF HookTold
  <2>2. ASSUME NEW t \in Terminals, TerminalStep(t) PROVE HookTold'
    <3> USE DEF HookTold, TypeOK, TerminalsTypeOK
    <3>1. ASSUME NEW d \in Dirs, RunCommand(t, d) PROVE HookTold'
      BY <3>1 DEF RunCommand
    <3>2. CASE PromptTruncate(t) \/ PromptWrite(t) \/ PromptElsewhere(t)
      BY <3>2 DEF PromptTruncate, PromptWrite, PromptElsewhere
    <3>3. CASE AttachOpen(t) \/ AttachRefused(t) \/ AttachWrite(t)
               \/ AttachWriteFails(t)
      BY <3>3 DEF AttachOpen, AttachRefused, AttachWrite, AttachWriteFails
    <3>4. CASE Detach(t) \/ DetachUnattached(t)
      BY <3>4 DEF Detach, DetachUnattached
    <3> QED
      BY <2>2, <3>1, <3>2, <3>3, <3>4 DEF TerminalStep
  <2>3. DashboardStep \/ interrupt_handler \/ UNCHANGED vars
          => UNCHANGED <<pc, pwd, terminal_file>>
    BY DEF DashboardStep, Progress, StartUp, StartFails, WaitFails, DrawFails,
           Loop, Wait, StatSession, WatchSession, ReadSession, StatTerminal,
           WatchTerminal, ReadTerminal, Switch, Draw, Cleanup,
           interrupt_handler, terminal_vars, shell_vars, vars
  <2> QED
    BY <2>1, <2>2, <2>3 DEF Next, ShellStep
<1> QED
  BY <1>1, <1>2, DashboardTypeCorrect, PTL DEF Spec

(* What the dashboard finds in the files of a settled terminal.            *)
LEMMA SettledFiles ==
  ASSUME TypeOK, HookTold, NEW t \in Terminals \ Elsewhere, NEW d \in Dirs,
         Settled(t, d)
  PROVE  /\ session_inode # None /\ session_data[session_inode] = t
         /\ t # Empty /\ terminal_file[t] = d /\ d # Absent
  BY SentinelAssumption DEF Settled, HookTold

LEMMA StepNearer ==
  ASSUME TypeOK, Unwatched, HookTold, DashboardStep,
         NEW t \in Terminals \ Elsewhere, NEW d \in Dirs,
         Settled(t, d), Running, Running'
  PROVE  IF Following(t, d) THEN Following(t, d)'
         ELSE Following(t, d)' \/ Distance(t, d)' < Distance(t, d)
<1> DEFINE Goal == IF Following(t, d) THEN Following(t, d)'
                   ELSE Following(t, d)' \/ Distance(t, d)' < Distance(t, d)
<1> USE DEF Running, Stale, SessionDue, TerminalDue, Read, Following, Missed,
            Weight, Left, Distance, Fail, attach_vars, view_vars, repo_vars,
            end_vars
<1>1. CASE StartUp \/ StartFails \/ WaitFails \/ DrawFails \/ Cleanup
  BY <1>1 DEF StartUp, StartFails, WaitFails, DrawFails, Cleanup
<1>2. CASE Loop
  BY <1>2 DEF Loop
<1>3. CASE Wait
  BY <1>3 DEF Wait
<1>4. CASE StatSession
  BY <1>4, SettledFiles DEF StatSession
<1>5. CASE WatchSession
  BY <1>5, SettledFiles DEF WatchSession, Unwatched
<1>6. CASE ReadSession
  BY <1>6, SettledFiles DEF ReadSession
<1>7. CASE StatTerminal
  BY <1>7, SettledFiles DEF StatTerminal
<1>8. CASE WatchTerminal
  BY <1>8 DEF WatchTerminal
<1>9. CASE ReadTerminal
  BY <1>9, SettledFiles DEF ReadTerminal
<1>10. CASE Switch
  BY <1>10 DEF Switch
<1>11. CASE Draw
  BY <1>11 DEF Draw
<1> QED
  BY <1>1, <1>2, <1>3, <1>4, <1>5, <1>6, <1>7, <1>8, <1>9, <1>10, <1>11
     DEF DashboardStep, Progress

(* As long as a terminal stays attached, at a prompt and in one directory, *)
(* a dashboard that shows that directory goes on showing it, and one that  *)
(* does not comes nearer to it with every step it takes, whatever watches  *)
(* are refused and whatever the round under way had read; nothing the      *)
(* shells do sets it back (get_attached_workdir, run_dashboard).           *)
THEOREM DashboardHomesIn ==
  ASSUME NEW t \in Terminals \ Elsewhere, NEW d \in Dirs
  PROVE  Spec => [][Nearer(t, d)]_vars
<1>1. TypeOK /\ ReadInvariant /\ HookTold /\ Next => Nearer(t, d)
  <2> SUFFICES ASSUME TypeOK, ReadInvariant, HookTold, Next,
                      Settled(t, d), Settled(t, d)', Running, Running'
               PROVE  Nearer(t, d)
    BY DEF Nearer
  <2>1. Distance(t, d) \in Nat
    BY DEF Distance, Weight, Left, Running, TypeOK, DashboardTypeOK, Steps
  <2>2. CASE DashboardStep
    BY <2>1, <2>2, StepNearer DEF Nearer, ReadInvariant
  <2>3. CASE ~DashboardStep
    <3>1. UNCHANGED <<step, attach_vars, view_vars, shown>>
      BY <2>3 DEF Next, interrupt_handler, ShellStep, dashboard_vars
    <3>2. UNCHANGED <<Following(t, d), Distance(t, d)>>
      BY <3>1 DEF attach_vars, view_vars, Running, Stale, SessionDue,
           TerminalDue, Read, Following, Missed, Distance
    <3> QED
      BY <2>1, <2>3, <3>2 DEF Nearer
  <2> QED
    BY <2>2, <2>3
<1> QED
  BY <1>1, DashboardTypeCorrect, DashboardReads, HookInvariant, PTL DEF Spec

-----------------------------------------------------------------------------
(* The same for a session that is gone: FollowsDetach.                     *)

\* The round has read nothing that would attach the dashboard.
Unread ==
  /\ step \notin {"stat_terminal", "watch_terminal", "read_terminal"}
  /\ step \in {"switch", "draw"} => ~is_attached

\* The screen shows nobody's directory, and no round brings one back.
LetGo == Running /\ ~shown.attached /\ Unread

DistanceToLetGo ==
  20 * Weight(step \in {"stat_terminal", "watch_terminal", "read_terminal"})
    + 10 * Weight(\/ step \in {"switch", "draw"} /\ is_attached
                  \/ step \in {"loop", "poll"} /\ shown.attached)
    + Left[step]

NearerToLetGo ==
  session_inode = None /\ session_inode' = None /\ Running /\ Running' =>
    /\ DistanceToLetGo \in Nat
    /\ LetGo => LetGo'
    /\ DashboardStep /\ ~LetGo => LetGo' \/ DistanceToLetGo' < DistanceToLetGo
    /\ ~DashboardStep => UNCHANGED DistanceToLetGo

LEMMA StepNearerToLetGo ==
  ASSUME TypeOK, NotYet, DashboardStep, session_inode = None, Running, Running'
  PROVE  IF LetGo THEN LetGo' ELSE LetGo' \/ DistanceToLetGo' < DistanceToLetGo
<1> USE DEF Running, NotYet, Unread, LetGo, DistanceToLetGo, Weight, Left, Fail,
            attach_vars, view_vars, repo_vars, end_vars
<1>1. CASE StartUp \/ StartFails \/ WaitFails \/ DrawFails \/ Cleanup
  BY <1>1 DEF StartUp, StartFails, WaitFails, DrawFails, Cleanup
<1>2. CASE Loop
  BY <1>2 DEF Loop
<1>3. CASE Wait
  BY <1>3 DEF Wait
<1>4. CASE StatSession
  BY <1>4 DEF StatSession
<1>5. CASE WatchSession
  BY <1>5 DEF WatchSession
<1>6. CASE ReadSession
  BY <1>6 DEF ReadSession
<1>7. CASE StatTerminal
  BY <1>7 DEF StatTerminal
<1>8. CASE WatchTerminal
  BY <1>8 DEF WatchTerminal
<1>9. CASE ReadTerminal
  BY <1>9 DEF ReadTerminal
<1>10. CASE Switch
  BY <1>10 DEF Switch
<1>11. CASE Draw
  BY <1>11 DEF Draw
<1> QED
  BY <1>1, <1>2, <1>3, <1>4, <1>5, <1>6, <1>7, <1>8, <1>9, <1>10, <1>11
     DEF DashboardStep, Progress

(* As long as nobody is attached, a dashboard whose screen shows no        *)
(* attached directory stays so, and one whose screen still shows one comes *)
(* nearer to letting go of it with every step it takes.                    *)
THEOREM DashboardLetsGo == Spec => [][NearerToLetGo]_vars
<1>1. TypeOK /\ ReadInvariant /\ Next => NearerToLetGo
  <2> SUFFICES ASSUME TypeOK, ReadInvariant, Next, session_inode = None,
                      session_inode' = None, Running, Running'
               PROVE  NearerToLetGo
    BY DEF NearerToLetGo
  <2>1. DistanceToLetGo \in Nat
    BY DEF DistanceToLetGo, Weight, Left, Running, TypeOK, DashboardTypeOK, Steps
  <2>2. CASE DashboardStep
    BY <2>1, <2>2, StepNearerToLetGo DEF NearerToLetGo, ReadInvariant
  <2>3. CASE ~DashboardStep
    <3>1. UNCHANGED <<step, view_vars, shown>>
      BY <2>3 DEF Next, interrupt_handler, ShellStep, dashboard_vars
    <3>2. UNCHANGED <<LetGo, DistanceToLetGo>>
      BY <3>1 DEF view_vars, Running, Unread, LetGo, DistanceToLetGo
    <3> QED
      BY <2>1, <2>3, <3>2 DEF NearerToLetGo
  <2> QED
    BY <2>2, <2>3
<1> QED
  BY <1>1, DashboardTypeCorrect, DashboardReads, PTL DEF Spec

-----------------------------------------------------------------------------
(***************************************************************************)
(* The dashboard implements the safety part of LiveView.                   *)
(*                                                                         *)
(* The step that takes a glance is the one that reads the file; the stats  *)
(* and watches around it are invisible.  That the reads of this round, and *)
(* not those of an earlier one, reach the screen rests on NotYet: until    *)
(* the terminal's file was read, is_attached is FALSE.                     *)
(***************************************************************************)

ViewVars == <<session, place, mind, IF shown.attached THEN shown.pwd ELSE None,
              step \notin {"cleanup", "exited"}>>

LEMMA InitView == Init => View!Init
  BY SentinelAssumption
     DEF Init, TerminalsInit, View!Init, View!Blank, session, place, mind

\* Steps of the dashboard change neither who is attached nor where.
LEMMA SameFilesSameView ==
  ASSUME UNCHANGED <<session_inode, session_data, terminal_file>>
  PROVE  UNCHANGED <<session, place>>
  BY DEF session, place

LEMMA ShellView ==
  ASSUME TypeOK, TypeOK', NEW t \in Terminals, TerminalStep(t),
         UNCHANGED dashboard_vars
  PROVE  View!Attach \/ View!Move(t) \/ UNCHANGED ViewVars
<1> USE DEF TypeOK, TerminalsTypeOK, ViewVars
<1>1. UNCHANGED <<mind, shown, step>>
  BY DEF dashboard_vars, attach_vars, view_vars, mind
<1>2. session' \in Terminals \cup {None}
  BY DEF session
<1>3. CASE UNCHANGED terminal_file
  <2>1. UNCHANGED place
    BY <1>3 DEF place
  <2> QED
    BY <1>1, <1>2, <2>1 DEF View!Attach, View!viewer
<1>4. CASE PromptTruncate(t) \/ PromptWrite(t)
  <2>1. UNCHANGED session
    BY <1>4 DEF PromptTruncate, PromptWrite, session_vars, session
  <2>2. \E c \in Dirs \cup {Empty} : terminal_file' = [terminal_file EXCEPT ![t] = c]
    BY <1>4 DEF PromptTruncate, PromptWrite
  <2>3. PICK c \in Dirs \cup {Empty} :
          terminal_file' = [terminal_file EXCEPT ![t] = c]
    BY <2>2
  <2>4. place' = [place EXCEPT ![t] = IF c \in Dirs THEN c ELSE None]
    BY <2>3 DEF place
  <2> QED
    BY <1>1, <2>1, <2>4 DEF View!Move, View!viewer
<1> QED
  BY <1>3, <1>4
     DEF TerminalStep, RunCommand, PromptTruncate, PromptWrite,
         PromptElsewhere, AttachOpen, AttachRefused, AttachWrite,
         AttachWriteFails, Detach, DetachUnattached, session_vars

LEMMA DashboardView ==
  ASSUME TypeOK, NotYet, HashKnown, DashboardStep
  PROVE  View!Look \/ View!Read \/ View!Refuse \/ View!Show \/ View!Quit
           \/ UNCHANGED ViewVars
<1> DEFINE Goal == View!Look \/ View!Read \/ View!Refuse \/ View!Show
                     \/ View!Quit \/ UNCHANGED ViewVars
<1> USE DEF TypeOK, TerminalsTypeOK, DashboardTypeOK, terminal_vars,
            shell_vars, session_vars, attach_vars, view_vars, repo_vars, ViewVars
<1>1. UNCHANGED <<session, place>>
  <2>1. UNCHANGED <<session_inode, session_data, terminal_file>>
    BY DEF DashboardStep, Progress, StartUp, StartFails, Loop, Wait, WaitFails,
           StatSession, WatchSession, ReadSession, StatTerminal,
           WatchTerminal, ReadTerminal, Switch, Draw, DrawFails, Cleanup
  <2> QED
    BY <2>1, SameFilesSameView
<1>2. CASE StartUp \/ Wait \/ StatSession
  BY <1>1, <1>2 DEF StartUp, Wait, StatSession, mind
<1>3. CASE StartFails \/ WaitFails \/ DrawFails
  BY <1>1, <1>3
     DEF StartFails, WaitFails, DrawFails, Fail, mind, View!Quit,
         View!Blank, View!terminals
<1>4. CASE WatchSession
  <2>1. CASE step' = "read_session"
    BY <1>1, <1>4, <2>1 DEF WatchSession, mind
  <2>2. CASE step' = "switch" /\ session_inode = None
    BY <1>1, <1>4, <2>2
       DEF WatchSession, NotYet, mind, session, View!Look, View!Where,
           View!terminals
  <2>3. CASE step' = "switch" /\ MayRefuse
    BY <1>1, <1>4, <2>3
       DEF WatchSession, NotYet, mind, View!Refuse, View!Where,
           View!terminals
  <2> QED
    BY <1>4, <2>1, <2>2, <2>3 DEF WatchSession
<1>5. CASE ReadSession
  <2>1. CASE session_inode = None \/ session_data[session_inode] = Empty
    BY <1>1, <1>5, <2>1
       DEF ReadSession, NotYet, mind, session, View!Look, View!Where,
           View!terminals
  <2>2. CASE ~(session_inode = None \/ session_data[session_inode] = Empty)
    <3>1. session = session_data[session_inode] /\ session # None
      BY <2>2, SentinelAssumption DEF session
    <3> QED
      BY <1>1, <1>5, <2>2, <3>1
         DEF ReadSession, mind, View!Look, View!Who, View!terminals
  <2> QED
    BY <2>1, <2>2
<1>6. CASE StatTerminal
  BY <1>1, <1>6 DEF StatTerminal, mind
<1>7. CASE WatchTerminal
  <2>1. CASE step' = "read_terminal"
    BY <1>1, <1>7, <2>1 DEF WatchTerminal, mind
  <2>2. CASE step' = "switch" /\ MayRefuse
    BY <1>1, <1>7, <2>2
       DEF WatchTerminal, NotYet, mind, View!Refuse, View!Where,
           View!terminals
  <2> QED
    BY <1>7, <2>1, <2>2 DEF WatchTerminal
<1>8. CASE ReadTerminal
  <2>1. /\ mind = [stage |-> "who", what |-> terminal_hash]
        /\ place[terminal_hash] = IF terminal_file[terminal_hash] \in Dirs
                                  THEN terminal_file[terminal_hash]
                                  ELSE None
    BY <1>8 DEF ReadTerminal, HashKnown, mind, place
  <2>2. mind' = View!Where(place[terminal_hash])
    BY <1>8, <2>1 DEF ReadTerminal, NotYet, mind, View!Where
  <2> QED
    BY <1>1, <1>8, <2>1, <2>2 DEF ReadTerminal, View!Read, View!terminals
<1>9. CASE Switch
  BY <1>1, <1>9
     DEF Switch, Fail, mind, View!Quit, View!Blank, View!terminals
<1>10. CASE Draw
  BY <1>1, <1>10
     DEF Draw, Views, mind, View!Show, View!Blank, View!terminals
<1>11. CASE Cleanup
  BY <1>1, <1>11 DEF Cleanup, mind
<1>12. CASE Loop
  BY <1>1, <1>12 DEF Loop, mind, View!Quit, View!Blank, View!terminals
<1> QED
  BY <1>2, <1>3, <1>4, <1>5, <1>6, <1>7, <1>8, <1>9, <1>10, <1>11, <1>12
     DEF DashboardStep, Progress

(* Whatever the shells do between the dashboard's system calls, the screen *)
(* shows what two glances of one round saw, the second after the first.    *)
THEOREM DashboardShowsWhatWasSeen == Spec => ShowsWhatWasSeen
<1>1. Init => View!Init
  BY InitView
<1>2. ASSUME TypeOK, TypeOK', NotYet, HashKnown, [Next]_vars
      PROVE  [View!Next]_View!vars
  <2>1. View!Next \/ UNCHANGED ViewVars
    <3>1. CASE DashboardStep
      BY <1>2, <3>1, DashboardView DEF View!Next
    <3>2. CASE interrupt_handler \/ UNCHANGED vars
      BY <3>2
         DEF interrupt_handler, vars, dashboard_vars, terminal_vars,
             shell_vars, session_vars, attach_vars, view_vars, ViewVars,
             session, place, mind
    <3>3. ASSUME NEW t \in Terminals, ShellStep(t)
          PROVE  View!Next \/ UNCHANGED ViewVars
      BY <1>2, <3>3, ShellView DEF ShellStep, View!Next
    <3> QED
      BY <1>2, <3>1, <3>2, <3>3 DEF Next
  <2>2. UNCHANGED ViewVars => UNCHANGED View!vars
    BY DEF ViewVars, View!vars, View!terminals, View!viewer
  <2> QED
    BY <2>1, <2>2
<1>3. TypeOK /\ TypeOK' /\ ReadInvariant /\ [Next]_vars
        => [View!Next]_View!vars
  BY <1>2 DEF ReadInvariant
<1> QED
  BY <1>1, <1>3, DashboardTypeCorrect, DashboardReads, PTL
     DEF Spec, ShowsWhatWasSeen, View!Safe

=============================================================================
