----------------------------- MODULE Terminals -----------------------------
(***************************************************************************)
(* The shells a dashboard can be attached to, and the files and inotify    *)
(* watches through which the dashboard hears of them.                      *)
(*                                                                         *)
(* Before each prompt, the hook installed by package_files/git-live.sh     *)
(* writes the shell's directory to the terminal's file.  "git live attach" *)
(* writes the terminal's id to the session file, "git live detach" removes *)
(* that file.  A session file that is created again is a new inode, and an *)
(* inode without name and without open descriptor is gone, with its watch. *)
(***************************************************************************)
EXTENDS FiniteSets, Integers

CONSTANTS
  Terminals,   \* the shells, named by their GIT_LIVE_TERMINAL_ID
  Elsewhere,   \* shells with another GIT_LIVE_DIR than ~/.cache/git-live
  Inodes,      \* inodes for the session file of one session id
  Dirs,        \* directories a shell can be in
  None,        \* no inode, no terminal
  Empty,       \* the contents of a file that was created or truncated
  Absent       \* a terminal file that was never created

ASSUME ElsewhereAssumption == Elsewhere \subseteq Terminals
ASSUME SentinelAssumption ==
  /\ None \notin Terminals \cup Inodes
  /\ {Empty, Absent} \cap (Terminals \cup Dirs) = {}
  /\ Empty # Absent

VARIABLES
  pc,              \* what each shell is doing
  pwd,             \* its $PWD
  terminal_file,   \* contents of each terminal's file
  session_inode,   \* the inode the session file's name refers to, or None
  session_data,    \* contents of each session inode
  attach_fd,       \* the session inode an attach command has open
  session_watch,   \* kernel: the session inode a live watch is on
  terminal_watch,  \* kernel: the terminal whose file a live watch is on
  events,          \* kernel: the inotify queue is not empty
  last_command     \* history: did the last attach or detach fail an ASSERT,
                   \* and what did it return; forgotten at the next prompt

session_vars == <<session_inode, session_data, attach_fd>>
kernel_vars == <<session_watch, terminal_watch, events>>
shell_vars == <<pc, pwd, terminal_file, session_vars, last_command>>
terminal_vars == <<shell_vars, kernel_vars>>

TerminalsTypeOK ==
  /\ pc \in [Terminals -> {"prompt", "truncated", "idle", "attach"}]
  /\ pwd \in [Terminals -> Dirs]
  /\ terminal_file \in [Terminals -> Dirs \cup {Empty, Absent}]
  /\ session_inode \in Inodes \cup {None}
  /\ session_data \in [Inodes -> Terminals \cup {Empty}]
  /\ attach_fd \in [Terminals -> Inodes \cup {None}]
  /\ session_watch \in Inodes \cup {None}
  /\ terminal_watch \in Terminals \cup {None}
  /\ events \in BOOLEAN
  /\ last_command \in [asserted : BOOLEAN, code : {0, 1}]

-----------------------------------------------------------------------------

NoCommand == [asserted |-> FALSE, code |-> 0]

\* RETHROW_PRINT assigns the result of the call to err, whatever err was.
RETHROW_PRINT(err, result) == result

\* attach and detach leave through `RETHROW_PRINT(safe_close_fd(&fd))`, and
\* closing a descriptor, or none, succeeds.
Return(err) ==
  last_command' = [asserted |-> err # 0, code |-> RETHROW_PRINT(err, 0)]

Unused(i) == i # session_inode /\ \A t \in Terminals : attach_fd[t] # i

\* A change of the watched session file, or terminal file, queues an event.
SessionModified(i) == events' = (events \/ session_watch = i)
TerminalModified(t) == events' = (events \/ terminal_watch = t)

\* A watched inode that is gone takes the watch along, with IN_IGNORED.
SessionGone(i) ==
  /\ session_watch' = IF session_watch = i THEN None ELSE session_watch
  /\ events' = (events \/ session_watch = i)

TerminalsInit ==
  /\ pc = [t \in Terminals |-> "prompt"]
  /\ pwd \in [Terminals -> Dirs]
  /\ terminal_file = [t \in Terminals |-> Absent]
  /\ session_inode = None
  /\ session_data = [i \in Inodes |-> Empty]
  /\ attach_fd = [t \in Terminals |-> None]
  /\ session_watch = None
  /\ terminal_watch = None
  /\ events = FALSE
  /\ last_command = NoCommand

-----------------------------------------------------------------------------

\* The user runs a command, which leaves the shell in directory d.
RunCommand(t, d) ==
  /\ pc[t] = "idle"
  /\ pc' = [pc EXCEPT ![t] = "prompt"]
  /\ pwd' = [pwd EXCEPT ![t] = d]
  /\ UNCHANGED <<terminal_file, session_vars, kernel_vars, last_command>>

\* The hook's redirection creates or truncates the terminal's file.
PromptTruncate(t) ==
  /\ pc[t] = "prompt"
  /\ t \notin Elsewhere
  /\ pc' = [pc EXCEPT ![t] = "truncated"]
  /\ terminal_file' = [terminal_file EXCEPT ![t] = Empty]
  /\ TerminalModified(t)
  /\ last_command' = NoCommand
  /\ UNCHANGED <<pwd, session_vars, session_watch, terminal_watch>>

\* The hook's echo writes the directory.
PromptWrite(t) ==
  /\ pc[t] = "truncated"
  /\ pc' = [pc EXCEPT ![t] = "idle"]
  /\ terminal_file' = [terminal_file EXCEPT ![t] = pwd[t]]
  /\ TerminalModified(t)
  /\ UNCHANGED <<pwd, session_vars, session_watch, terminal_watch,
                 last_command>>

\* The hook of a shell with another GIT_LIVE_DIR writes a file that
\* get_terminals_dir never names.
PromptElsewhere(t) ==
  /\ pc[t] = "prompt"
  /\ t \in Elsewhere
  /\ pc' = [pc EXCEPT ![t] = "idle"]
  /\ last_command' = NoCommand
  /\ UNCHANGED <<pwd, terminal_file, session_vars, kernel_vars>>

-----------------------------------------------------------------------------

\* "git live attach": open with O_CREAT and without O_TRUNC.
AttachOpen(t) ==
  /\ pc[t] = "idle"
  /\ pc' = [pc EXCEPT ![t] = "attach"]
  /\ \/ /\ session_inode # None
        /\ attach_fd' = [attach_fd EXCEPT ![t] = session_inode]
        /\ UNCHANGED <<session_inode, session_data>>
     \/ /\ session_inode = None
        /\ \E i \in Inodes :
             /\ Unused(i)
             /\ session_inode' = i
             /\ session_data' = [session_data EXCEPT ![i] = Empty]
             /\ attach_fd' = [attach_fd EXCEPT ![t] = i]
  /\ UNCHANGED <<pwd, terminal_file, kernel_vars, last_command>>

\* An assertion before the descriptor is open fails: no
\* GIT_LIVE_TERMINAL_ID, or no permission to open the file.
AttachRefused(t) ==
  /\ pc[t] = "idle"
  /\ pc' = [pc EXCEPT ![t] = "prompt"]
  /\ Return(1)
  /\ UNCHANGED <<pwd, terminal_file, session_vars, kernel_vars>>

\* Closing t's descriptor ends the inode if its name was removed meanwhile
\* and no other attach has it open.
EndsInode(t) ==
  /\ attach_fd[t] # session_inode
  /\ \A u \in Terminals \ {t} : attach_fd[u] # attach_fd[t]

\* The rest of attach: write the terminal's id over the old one, close.
AttachWrite(t) ==
  /\ pc[t] = "attach"
  /\ pc' = [pc EXCEPT ![t] = "prompt"]
  /\ session_data' = [session_data EXCEPT ![attach_fd[t]] = t]
  /\ attach_fd' = [attach_fd EXCEPT ![t] = None]
  /\ IF EndsInode(t)
     THEN SessionGone(attach_fd[t])
     ELSE SessionModified(attach_fd[t]) /\ UNCHANGED session_watch
  /\ Return(0)
  /\ UNCHANGED <<pwd, terminal_file, session_inode, terminal_watch>>

\* The write fails, for instance for want of space.
AttachWriteFails(t) ==
  /\ pc[t] = "attach"
  /\ pc' = [pc EXCEPT ![t] = "prompt"]
  /\ attach_fd' = [attach_fd EXCEPT ![t] = None]
  /\ IF EndsInode(t)
     THEN SessionGone(attach_fd[t])
     ELSE UNCHANGED <<session_watch, events>>
  /\ Return(1)
  /\ UNCHANGED <<pwd, terminal_file, session_inode, session_data,
                 terminal_watch>>

\* "git live detach", from any shell: unlink the session file.
Detach(t) ==
  /\ pc[t] = "idle"
  /\ session_inode # None
  /\ pc' = [pc EXCEPT ![t] = "prompt"]
  /\ session_inode' = None
  /\ IF \A u \in Terminals : attach_fd[u] # session_inode
     THEN SessionGone(session_inode)
     ELSE UNCHANGED <<session_watch, events>>
  /\ Return(0)
  /\ UNCHANGED <<pwd, terminal_file, session_data, attach_fd,
                 terminal_watch>>

\* detach of a session that is not attached: the assertion on unlink fails.
DetachUnattached(t) ==
  /\ pc[t] = "idle"
  /\ session_inode = None
  /\ pc' = [pc EXCEPT ![t] = "prompt"]
  /\ Return(1)
  /\ UNCHANGED <<pwd, terminal_file, session_vars, kernel_vars>>

TerminalStep(t) ==
  \/ \E d \in Dirs : RunCommand(t, d)
  \/ PromptTruncate(t) \/ PromptWrite(t) \/ PromptElsewhere(t)
  \/ AttachOpen(t) \/ AttachRefused(t)
  \/ AttachWrite(t) \/ AttachWriteFails(t)
  \/ Detach(t) \/ DetachUnattached(t)

=============================================================================
