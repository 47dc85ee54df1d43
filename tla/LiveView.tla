------------------------------ MODULE LiveView ------------------------------
(***************************************************************************)
(* What a dashboard promises, without files, inodes, watches and system    *)
(* calls: someone who glances at who is attached, then at where that       *)
(* terminal is, then shows what was seen, again and again, while the       *)
(* terminals attach, detach and move at any time.                          *)
(*                                                                         *)
(* The two glances are not one: what is shown need never have been true at *)
(* a single moment.  But nothing older than the round is ever shown, and   *)
(* "not attached" only if one of the glances found nothing.                *)
(***************************************************************************)
CONSTANTS
  Terminals, Dirs,
  None,        \* neither a terminal nor a directory
  MayRefuse    \* may a glance be refused?

VARIABLES
  session,   \* the terminal attached, or None
  place,     \* where each terminal says it is, or None while it says nothing
  mind,      \* what was learned in this round
  shown,     \* the directory on the screen, or None if not attached
  alive

terminals == <<session, place>>
viewer == <<mind, shown, alive>>
vars == <<terminals, viewer>>

Blank == [stage |-> "blank", what |-> None]
Who(t) == [stage |-> "who", what |-> t]
Where(d) == [stage |-> "where", what |-> d]

Init ==
  /\ session = None
  /\ place = [t \in Terminals |-> None]
  /\ mind = Blank
  /\ shown = None
  /\ alive = TRUE

\* A terminal attaches, or the attached one detaches.
Attach ==
  /\ session' \in Terminals \cup {None}
  /\ UNCHANGED <<place, viewer>>

\* A terminal is at a prompt in another directory, or on its way to one.
Move(t) ==
  /\ \E d \in Dirs \cup {None} : place' = [place EXCEPT ![t] = d]
  /\ UNCHANGED <<session, viewer>>

\* The first glance: who is attached?
Look ==
  /\ alive
  /\ mind.stage = "blank"
  /\ mind' = IF session = None THEN Where(None) ELSE Who(session)
  /\ UNCHANGED <<terminals, shown, alive>>

\* The second glance: where is it?
Read ==
  /\ alive
  /\ mind.stage = "who"
  /\ mind' = Where(place[mind.what])
  /\ UNCHANGED <<terminals, shown, alive>>

\* A glance is refused.
Refuse ==
  /\ MayRefuse
  /\ alive
  /\ mind.stage # "where"
  /\ mind' = Where(None)
  /\ UNCHANGED <<terminals, shown, alive>>

Show ==
  /\ alive
  /\ mind.stage = "where"
  /\ shown' = mind.what
  /\ mind' = Blank
  /\ UNCHANGED <<terminals, alive>>

Quit ==
  /\ alive
  /\ alive' = FALSE
  /\ mind' = Blank
  /\ UNCHANGED <<terminals, shown>>

Next ==
  \/ Attach
  \/ \E t \in Terminals : Move(t)
  \/ Look \/ Read \/ Refuse \/ Show \/ Quit

\* The safety part.
Safe == Init /\ [][Next]_vars

\* While alive, the viewer goes on looking and showing.
Fairness == WF_vars(Look \/ Read \/ Show)

=============================================================================
