------------------------------- MODULE Timer -------------------------------
(***************************************************************************)
(* The wake-up timer of src/timing.c.  Between two waits the dashboard     *)
(* refreshes its screen; timing_wait charges the time since the last       *)
(* wake-up to cpu_time_used, computes how long to sleep so that the        *)
(* charged share falls to the configured percentage, and polls the inotify *)
(* descriptor for at most that long.                                       *)
(*                                                                         *)
(* All times are milliseconds relative to the clock reading of init_timer. *)
(***************************************************************************)
EXTENDS Integers

CONSTANTS
  IdleTarget,   \* config.idle_cpu_percent_target
  MinTimeout,   \* config.min_timeout
  IntMax,       \* INT_MAX, the largest argument of poll
  MaxWork,      \* bound: the longest single refresh
  MaxLate,      \* bound: how late the scheduler resumes an expired poll
  MaxTime       \* bound: no wait starts after this time

ASSUME TargetAssumption == IdleTarget \in 1..99
ASSUME TimeoutAssumption == MinTimeout \in Nat /\ IntMax \in Nat
ASSUME BoundAssumption == MaxWork \in Nat /\ MaxLate \in Nat /\ MaxTime \in Nat

VARIABLES
  now,                \* the monotonic clock
  cpu_time_used,
  total_time_used,
  last_wakeup_time,
  tm_before_poll,
  timeout,            \* the argument of the poll in progress, or the last one
  phase,              \* "refresh", "poll" or "failed"
  woke                \* history: how the last poll ended, "never" before the first

vars == <<now, cpu_time_used, total_time_used, last_wakeup_time,
          tm_before_poll, timeout, phase, woke>>

TypeOK ==
  /\ {now, cpu_time_used, total_time_used, last_wakeup_time,
      tm_before_poll, timeout} \subseteq Nat
  /\ phase \in {"refresh", "poll", "failed"}
  /\ woke \in {"never", "event", "timeout"}

-----------------------------------------------------------------------------

AtLeast(a, b) == IF a > b THEN a ELSE b

SubtractOrZero(a, b) == IF a > b THEN a - b ELSE 0

(* Plausible bugs of the computation: the time already slept is not        *)
(* subtracted; the minimum caps the sleep instead of bounding it below;    *)
(* both bounds are missing.                                                *)
TimeoutUnsubtracted(cpu, total) ==
  AtLeast((cpu * 100) \div IdleTarget, MinTimeout)

TimeoutCapped(cpu, total) ==
  LET debt == SubtractOrZero((cpu * 100) \div IdleTarget, total)
  IN  IF debt < MinTimeout THEN debt ELSE MinTimeout

TimeoutSigned(cpu, total) == (cpu * 100) \div IdleTarget - total

\* The sleep after which `cpu` is IdleTarget percent of the total time.
timing_calculate_timeout(cpu, total) ==
  AtLeast(SubtractOrZero((cpu * 100) \div IdleTarget, total), MinTimeout)

-----------------------------------------------------------------------------

Init ==
  /\ now = 0
  /\ cpu_time_used = 0
  /\ total_time_used = 0
  /\ last_wakeup_time = 0
  /\ tm_before_poll = 0
  /\ timeout = 0
  /\ phase = "refresh"
  /\ woke = "never"

\* The caller works, or is stopped, for d milliseconds outside timing_wait.
Refresh(d) ==
  /\ phase = "refresh"
  /\ now + d <= last_wakeup_time + MaxWork
  /\ now' = now + d
  /\ UNCHANGED <<cpu_time_used, total_time_used, last_wakeup_time,
                 tm_before_poll, timeout, phase, woke>>

\* timing_wait up to the call of poll: charge the refresh, then compute the
\* timeout from the charged totals.  A timeout poll cannot take is an error,
\* which leaves the charges in place and ends the program.
EnterWait ==
  /\ phase = "refresh"
  /\ now <= MaxTime
  /\ LET used == now - last_wakeup_time
     IN  /\ cpu_time_used' = cpu_time_used + used
         /\ total_time_used' = total_time_used + used
  /\ tm_before_poll' = now
  /\ LET wait == timing_calculate_timeout(cpu_time_used', total_time_used')
     IN  \/ /\ wait < IntMax
            /\ phase' = "poll"
            /\ timeout' = wait
         \/ /\ wait >= IntMax
            /\ phase' = "failed"
            /\ UNCHANGED timeout
  /\ UNCHANGED <<now, last_wakeup_time, woke>>

(* Plausible bug: the sleep is measured from the last wake-up.             *)
LeavePollFromWakeup(t, cause) ==
  /\ phase = "poll"
  /\ now' = t
  /\ total_time_used' = total_time_used + (t - last_wakeup_time)
  /\ last_wakeup_time' = t
  /\ phase' = "refresh"
  /\ woke' = cause
  /\ UNCHANGED <<cpu_time_used, tm_before_poll, timeout>>

\* timing_wait after poll returned at time t: the sleep counts as total time
\* only.
LeavePoll(t, cause) ==
  /\ phase = "poll"
  /\ now' = t
  /\ total_time_used' = total_time_used + (t - tm_before_poll)
  /\ last_wakeup_time' = t
  /\ phase' = "refresh"
  /\ woke' = cause
  /\ UNCHANGED <<cpu_time_used, tm_before_poll, timeout>>

\* poll returns early: an inotify event, or a signal.
WakeByEvent == \E d \in 0..timeout : LeavePoll(tm_before_poll + d, "event")

\* poll sleeps for its whole timeout, and the process may be resumed late.
WakeByTimeout ==
  \E late \in 0..MaxLate : LeavePoll(tm_before_poll + timeout + late, "timeout")

Next ==
  \/ \E d \in 1..MaxWork : Refresh(d)
  \/ EnterWait
  \/ WakeByEvent
  \/ WakeByTimeout

Spec == Init /\ [][Next]_vars

-----------------------------------------------------------------------------

(* Every millisecond since init_timer is in total_time_used exactly once,  *)
(* whichever way the waits ended: timing_wait adds the refresh and the     *)
(* sleep from three clock readings, and no reading is dropped or doubled.  *)
TimeAccounted ==
  /\ phase = "refresh" => total_time_used = last_wakeup_time
  /\ phase # "refresh" => total_time_used = tm_before_poll /\ now = tm_before_poll
  /\ cpu_time_used <= total_time_used
  /\ last_wakeup_time <= now

(* "periodic updates are timed to reach a certain cpu usage percent when   *)
(* idle": unless an event cut the last wait short, the charged time is at  *)
(* most IdleTarget percent of the total, up to the last millisecond of the *)
(* integer division, however many events had run the debt up before.       *)
IdleBudget ==
  phase = "refresh" /\ woke # "event" =>
    cpu_time_used * 100 < IdleTarget * (total_time_used + 1)

(* A wait that ran to its timeout leaves no debt: the next wait is as long *)
(* as the refresh between them alone calls for, or the minimum.            *)
QuietWaitBounded ==
  phase = "poll" /\ woke # "event" =>
    LET work == tm_before_poll - last_wakeup_time
    IN  timeout <= AtLeast(MinTimeout, (work * 100) \div IdleTarget - work + 1)

=============================================================================
