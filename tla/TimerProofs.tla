---------------------------- MODULE TimerProofs ----------------------------
(***************************************************************************)
(* Proofs about the timer for every target, minimum and refresh length.    *)
(* The inductive invariant adds Paid to the checked properties: while the  *)
(* poll is in progress, sleeping it out will bring the charged time back   *)
(* under the target.  That is what an expired poll needs for IdleBudget.   *)
(***************************************************************************)
EXTENDS Timer, TLAPS

Paid ==
  phase = "poll" =>
    cpu_time_used * 100 < IdleTarget * (total_time_used + timeout + 1)

IInv == TypeOK /\ TimeAccounted /\ IdleBudget /\ QuietWaitBounded /\ Paid

-----------------------------------------------------------------------------

(* C's unsigned division by the target, bounded from both sides.           *)
LEMMA DivBounds ==
  ASSUME NEW a \in Nat, NEW p \in 1..99
  PROVE  /\ a \div p \in Nat
         /\ p * (a \div p) <= a
         /\ a < p * (a \div p) + p
  BY Z3

(* Multiplication by the target preserves the order.                       *)
LEMMA TimesMonotone ==
  ASSUME NEW a \in Int, NEW b \in Int, NEW p \in 1..99, a <= b
  PROVE  p * a <= p * b
  BY Z3

(* and reflects it.                                                        *)
LEMMA TimesCancel ==
  ASSUME NEW a \in Int, NEW b \in Int, NEW p \in 1..99, p * a < p * b
  PROVE  a < b
  BY TimesMonotone, Z3

(* Sleeping the computed timeout out brings `cpu` under the target.        *)
LEMMA TimeoutPays ==
  ASSUME NEW cpu \in Nat, NEW total \in Nat
  PROVE  LET wait == timing_calculate_timeout(cpu, total)
         IN  /\ wait \in Nat
             /\ cpu * 100 < IdleTarget * (total + wait + 1)
<1> DEFINE quot == (cpu * 100) \div IdleTarget
           wait == timing_calculate_timeout(cpu, total)
<1>1. /\ quot \in Nat
      /\ cpu * 100 < IdleTarget * quot + IdleTarget
  BY DivBounds, TargetAssumption
<1> HIDE DEF quot
<1>2. wait \in Nat /\ quot + 1 <= total + wait + 1
  BY <1>1, TimeoutAssumption
     DEF timing_calculate_timeout, AtLeast, SubtractOrZero, quot
<1> HIDE DEF wait
<1>3. IdleTarget * (quot + 1) <= IdleTarget * (total + wait + 1)
  BY <1>1, <1>2, TimesMonotone, TargetAssumption
<1>4. IdleTarget * (quot + 1) = IdleTarget * quot + IdleTarget
  BY <1>1, TargetAssumption
<1>5. cpu * 100 < IdleTarget * (total + wait + 1)
  BY <1>1, <1>2, <1>3, <1>4, TargetAssumption
<1> QED
  BY <1>2, <1>5 DEF wait

(* When `cpu` was under the target before a refresh of `work`              *)
(* milliseconds, the timeout after it depends on `work` alone.             *)
LEMMA TimeoutAfterQuiet ==
  ASSUME NEW cpu \in Nat, NEW total \in Nat, NEW work \in Nat,
         cpu * 100 < IdleTarget * (total + 1)
  PROVE  timing_calculate_timeout(cpu + work, total + work)
           <= AtLeast(MinTimeout, (work * 100) \div IdleTarget - work + 1)
<1> DEFINE quot == ((cpu + work) * 100) \div IdleTarget
           own == (work * 100) \div IdleTarget
<1>1. quot \in Nat /\ IdleTarget * quot <= (cpu + work) * 100
  BY DivBounds, TargetAssumption
<1>2. own \in Nat /\ work * 100 < IdleTarget * own + IdleTarget
  BY DivBounds, TargetAssumption
<1> HIDE DEF quot, own
<1>3. IdleTarget * (total + own + 2)
        = IdleTarget * (total + 1) + (IdleTarget * own + IdleTarget)
  BY <1>2, TargetAssumption
<1>4. IdleTarget * quot < IdleTarget * (total + own + 2)
  BY <1>1, <1>2, <1>3, TargetAssumption
<1>5. quot < total + own + 2
  BY <1>1, <1>2, <1>4, TimesCancel, TargetAssumption
<1>6. SubtractOrZero(quot, total + work) <= AtLeast(0, own - work + 1)
  BY <1>1, <1>2, <1>5 DEF SubtractOrZero, AtLeast
<1> QED
  BY <1>1, <1>2, <1>6, TimeoutAssumption
     DEF timing_calculate_timeout, AtLeast, SubtractOrZero, quot, own

-----------------------------------------------------------------------------

LEMMA InitInvariant == Init => IInv
  BY TargetAssumption
     DEF Init, IInv, TypeOK, TimeAccounted, IdleBudget, QuietWaitBounded, Paid

LEMMA RefreshInvariant ==
  ASSUME IInv, NEW d \in 1..MaxWork, Refresh(d)
  PROVE  IInv'
  BY BoundAssumption
     DEF Refresh, IInv, TypeOK, TimeAccounted, IdleBudget, QuietWaitBounded, Paid

LEMMA EnterWaitInvariant ==
  ASSUME IInv, EnterWait
  PROVE  IInv'
<1> DEFINE work == now - last_wakeup_time
           wait == timing_calculate_timeout(cpu_time_used', total_time_used')
<1>1. /\ work \in Nat
      /\ cpu_time_used' = cpu_time_used + work /\ cpu_time_used' \in Nat
      /\ total_time_used' = total_time_used + work /\ total_time_used' \in Nat
  BY DEF EnterWait, IInv, TypeOK, TimeAccounted
<1>2. wait \in Nat /\ cpu_time_used' * 100 < IdleTarget * (total_time_used' + wait + 1)
  BY <1>1, TimeoutPays
<1>3. woke # "event" =>
        wait <= AtLeast(MinTimeout, (work * 100) \div IdleTarget - work + 1)
  BY <1>1, TimeoutAfterQuiet DEF EnterWait, IInv, IdleBudget, TypeOK
<1> HIDE DEF wait
<1>4. TypeOK'
  BY <1>1, <1>2 DEF EnterWait, IInv, TypeOK, wait
<1>5. TimeAccounted'
  BY <1>1 DEF EnterWait, IInv, TypeOK, TimeAccounted
<1>6. IdleBudget'
  BY DEF EnterWait, IdleBudget
<1>7. QuietWaitBounded'
  BY <1>3 DEF EnterWait, QuietWaitBounded, wait
<1>8. Paid'
  BY <1>2 DEF EnterWait, Paid, wait
<1> QED
  BY <1>4, <1>5, <1>6, <1>7, <1>8 DEF IInv

LEMMA LeavePollInvariant ==
  ASSUME IInv, NEW t \in Nat, t >= tm_before_poll,
         NEW cause \in {"event", "timeout"},
         cause = "timeout" => t >= tm_before_poll + timeout,
         LeavePoll(t, cause)
  PROVE  IInv'
<1> USE DEF LeavePoll
<1>1. TypeOK' /\ TimeAccounted'
  BY DEF IInv, TypeOK, TimeAccounted
<1>2. IdleBudget'
  <2> SUFFICES ASSUME cause = "timeout"
               PROVE  cpu_time_used' * 100 < IdleTarget * (total_time_used' + 1)
    BY DEF IdleBudget
  <2>1. total_time_used + timeout + 1 <= total_time_used' + 1
    BY DEF IInv, TypeOK
  <2>2. IdleTarget * (total_time_used + timeout + 1)
          <= IdleTarget * (total_time_used' + 1)
    BY <1>1, <2>1, TimesMonotone, TargetAssumption DEF IInv, TypeOK
  <2>3. cpu_time_used * 100 < IdleTarget * (total_time_used + timeout + 1)
    BY DEF IInv, Paid
  <2> QED
    BY <1>1, <2>2, <2>3, TargetAssumption DEF IInv, TypeOK
<1>3. QuietWaitBounded' /\ Paid'
  BY DEF QuietWaitBounded, Paid
<1> QED
  BY <1>1, <1>2, <1>3 DEF IInv

(* The invariant holds in every state of the timer.                        *)
THEOREM TimerInvariant == Spec => []IInv
<1>1. Init => IInv
  BY InitInvariant
<1>2. IInv /\ [Next]_vars => IInv'
  <2> SUFFICES ASSUME IInv, [Next]_vars PROVE IInv'
    OBVIOUS
  <2>1. ASSUME NEW d \in 1..MaxWork, Refresh(d) PROVE IInv'
    BY <2>1, RefreshInvariant
  <2>2. CASE EnterWait
    BY <2>2, EnterWaitInvariant
  <2>3. CASE WakeByEvent
    <3>1. PICK d \in 0..timeout : LeavePoll(tm_before_poll + d, "event")
      BY <2>3 DEF WakeByEvent
    <3>2. tm_before_poll + d \in Nat /\ tm_before_poll + d >= tm_before_poll
      BY DEF IInv, TypeOK
    <3> QED
      BY <3>1, <3>2, LeavePollInvariant
  <2>4. CASE WakeByTimeout
    <3>1. PICK late \in 0..MaxLate :
             LeavePoll(tm_before_poll + timeout + late, "timeout")
      BY <2>4 DEF WakeByTimeout
    <3>2. /\ tm_before_poll + timeout + late \in Nat
          /\ tm_before_poll + timeout + late >= tm_before_poll
          /\ tm_before_poll + timeout + late >= tm_before_poll + timeout
      BY BoundAssumption DEF IInv, TypeOK
    <3> QED
      BY <3>1, <3>2, LeavePollInvariant
  <2>5. CASE UNCHANGED vars
    BY <2>5 DEF vars, IInv, TypeOK, TimeAccounted, IdleBudget, QuietWaitBounded, Paid
  <2> QED
    BY <2>1, <2>2, <2>3, <2>4, <2>5 DEF Next
<1> QED
  BY <1>1, <1>2, PTL DEF Spec

(* Type correctness of the timer.                                          *)
THEOREM TimerTypeOK == Spec => []TypeOK
<1>1. IInv => TypeOK
  BY DEF IInv
<1> QED
  BY <1>1, TimerInvariant, PTL

(* total_time_used is the time since init_timer, for every schedule.       *)
THEOREM TimerAccounting == Spec => []TimeAccounted
<1>1. IInv => TimeAccounted
  BY DEF IInv
<1> QED
  BY <1>1, TimerInvariant, PTL

(* An uninterrupted wait ends with the charged time under the target.      *)
THEOREM TimerIdleBudget == Spec => []IdleBudget
<1>1. IInv => IdleBudget
  BY DEF IInv
<1> QED
  BY <1>1, TimerInvariant, PTL

(* No debt outlives an uninterrupted wait.                                 *)
THEOREM TimerQuietWait == Spec => []QuietWaitBounded
<1>1. IInv => QuietWaitBounded
  BY DEF IInv
<1> QED
  BY <1>1, TimerInvariant, PTL

=============================================================================
