--------------------------- MODULE DashboardView ---------------------------
(* How the dashboard implements the promise of LiveView.                   *)
EXTENDS Dashboard

\* An existing session file that nothing was written to attaches no one.
session ==
  IF session_inode = None \/ session_data[session_inode] = Empty
  THEN None
  ELSE session_data[session_inode]

place ==
  [t \in Terminals |->
     IF terminal_file[t] \in Dirs THEN terminal_file[t] ELSE None]

\* What the locals of get_attached_workdir and run_dashboard hold.
mind ==
  IF step \in {"stat_terminal", "watch_terminal", "read_terminal"}
  THEN [stage |-> "who", what |-> terminal_hash]
  ELSE IF step \in {"switch", "draw"}
       THEN [stage |-> "where", what |-> IF is_attached THEN new_pwd ELSE None]
       ELSE [stage |-> "blank", what |-> None]

View == INSTANCE LiveView WITH
  shown <- IF shown.attached THEN shown.pwd ELSE None,
  alive <- step \notin {"cleanup", "exited"}

(* Whatever the shells do between its system calls, and whichever watch is *)
(* refused, the dashboard shows nothing but what two glances of the same   *)
(* round saw.                                                              *)
ShowsWhatWasSeen == View!Safe

(* The dashboard implements LiveView: what its many steps between system   *)
(* calls put on the screen is what two glances in the same round saw, for  *)
(* any interleaving with the shells, refused watches and early returns     *)
(* included; and while it runs, and no drawing hangs, it keeps looking and *)
(* showing.                                                                *)
ImplementsLiveView == View!Safe /\ (DrawingEnds => View!Fairness)

=============================================================================
