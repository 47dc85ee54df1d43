----------------------------- MODULE RefsProofs -----------------------------
(***************************************************************************)
(* The list of branches is that of the latest visits, for any branches,    *)
(* any reflog, and any limit.                                              *)
(*                                                                         *)
(* LatestFirst is not inductive: that an entry whose branch is not in the  *)
(* list is the latest visit of it needs that every visit that was read is  *)
(* in the list (Covered), and that a list found full at the end became so  *)
(* with its last entry, that there was room until then (Room).             *)
(*                                                                         *)
(* CommandChecksOut is about the lines of the last round, after its list   *)
(* was cleared.  It needs what the lines were made of (Shown), and that    *)
(* each checkout in the reflog leaves the branch that the one before it    *)
(* entered (Chained), which commits in between do not change.              *)
(***************************************************************************)
EXTENDS Refs, SequenceTheorems, FiniteSetTheorems, Induction, TLAPS

Types ==
  /\ head \in Branches
  /\ reflog \in Seq(Entry)
  /\ entries \in Seq(Entry)
  /\ index \in 0..Len(entries)
  /\ refs \in Seq(Ref)
  /\ phase \in {"idle", "collect", "print"}

Room ==
  /\ phase = "idle" => refs = <<>>
  /\ phase = "collect" /\ Max > 0 => Len(refs) < Max

Covered ==
  phase = "collect" =>
    \A j \in 0..index - 1 : At(j).checkout => At(j).to \in Names(refs)

\* What LatestFirst says of a list of the first n entries.
Collected(list, n) ==
  /\ \A i \in 1..Len(list) - 1 : list[i].index < list[i + 1].index
  /\ {list[i].index : i \in 1..Len(list)} = LatestVisits(n)
  /\ \A i \in 1..Len(list) : list[i].name = At(list[i].index).to

IInv == Types /\ Room /\ Covered /\ LatestFirst

-----------------------------------------------------------------------------

\* In the loop everything before the entry it is at was read.
LEMMA CollectedSoFar ==
  ASSUME IInv, phase = "collect"
  PROVE  Collected(refs, index) /\ (Max > 0 => Len(refs) <= Max)
  BY DEF IInv, LatestFirst, Collected

(* One more entry adds itself to the latest visits, or nothing.            *)
LEMMA NextVisit ==
  ASSUME NEW n \in Nat
  PROVE  LatestVisits(n + 1) =
           LatestVisits(n) \cup
             (IF /\ At(n).checkout
                 /\ \A j \in 0..n - 1 : At(j).checkout => At(j).to # At(n).to
              THEN {n} ELSE {})
<1>1. 0..(n + 1) - 1 = (0..n - 1) \cup {n}
  OBVIOUS
<1> QED
  BY <1>1 DEF LatestVisits

\* A branch in the list was visited, before the entry the loop is at.
LEMMA ListedVisited ==
  ASSUME IInv, phase = "collect", NEW b \in Names(refs)
  PROVE  \E j \in 0..index - 1 : At(j).checkout /\ At(j).to = b
<1>1. PICK i \in 1..Len(refs) : refs[i].name = b
  BY DEF Names
<1>2. refs[i].index \in LatestVisits(index) /\ At(refs[i].index).to = b
  BY <1>1, CollectedSoFar DEF Collected
<1> QED
  BY <1>2 DEF LatestVisits

-----------------------------------------------------------------------------

LEMMA InitInvariant == Init => IInv
<1> SUFFICES ASSUME Init PROVE IInv
  OBVIOUS
<1>1. Other \in Entry
  BY DEF Init, Other, Entry
<1>2. reflog \in Seq(Entry)
  BY <1>1 DEF Init
<1> QED
  BY <1>2 DEF Init, IInv, Types, Room, Covered, LatestFirst

\* The user's commands leave the dashboard's copy of the reflog alone.
LEMMA UserInvariant ==
  ASSUME IInv, Commit \/ \E b \in Branches : Checkout(b)
  PROVE  IInv'
<1>1. UNCHANGED <<entries, index, refs, phase>>
  BY DEF Commit, Checkout
<1>2. head' \in Branches /\ reflog' \in Seq(Entry)
  <2>1. CASE Commit
    <3>1. Other \in Entry
      BY DEF IInv, Types, Other, Entry
    <3> QED
      BY <2>1, <3>1 DEF IInv, Types, Commit
  <2>2. ASSUME NEW b \in Branches, Checkout(b)
        PROVE  head' \in Branches /\ reflog' \in Seq(Entry)
    <3>1. [checkout |-> TRUE, from |-> head, to |-> b] \in Entry
      BY DEF IInv, Types, Entry
    <3> QED
      BY <2>2, <3>1 DEF IInv, Types, Checkout
  <2> QED
    BY <2>1, <2>2
<1>3. Types' /\ Room' /\ Covered'
  BY <1>1, <1>2 DEF IInv, Types, Room, Covered, At, Names
<1>4. LatestFirst'
  BY <1>1 DEF IInv, LatestFirst, LatestVisits, At
<1> QED
  BY <1>3, <1>4 DEF IInv

LEMMA BeginInvariant ==
  ASSUME IInv, get_latest_refs
  PROVE  IInv'
<1>1. refs' = <<>> /\ index' = 0 /\ phase' = "collect"
  BY DEF get_latest_refs, IInv, Room
<1>2. Types'
  BY <1>1 DEF get_latest_refs, user_vars, IInv, Types
<1>3. Room' /\ Covered'
  BY <1>1, RefsAssumption DEF Room, Covered
<1>4. LatestFirst'
  <2>1. LatestVisits(0)' = {}
    BY DEF LatestVisits
  <2> QED
    BY <1>1, <2>1, RefsAssumption DEF LatestFirst
<1> QED
  BY <1>2, <1>3, <1>4 DEF IInv

LEMMA SkipInvariant ==
  ASSUME IInv, SkipEntry
  PROVE  IInv'
<1>1. /\ phase = "collect" /\ phase' = "collect"
      /\ index' = index + 1 /\ index < Len(entries)
      /\ UNCHANGED <<user_vars, entries, refs, shown>>
      /\ At(index).checkout => At(index).to \in Names(refs)
  BY DEF SkipEntry, is_checkout_reflog
<1>2. index \in Nat /\ Len(entries) \in Nat /\ Len(refs) \in Nat
  BY DEF IInv, Types
<1>3. Types'
  BY <1>1, <1>2 DEF IInv, Types, user_vars
<1>4. Room'
  BY <1>1 DEF IInv, Room
<1>5. Covered'
  BY <1>1, <1>2 DEF IInv, Covered, At, Names
<1>6. LatestVisits(index + 1) = LatestVisits(index)
  BY <1>1, <1>2, NextVisit, ListedVisited
<1>7. Collected(refs, index + 1)
  BY <1>1, <1>6, CollectedSoFar DEF Collected
<1>8. LatestFirst'
  BY <1>1, <1>7, CollectedSoFar DEF LatestFirst, Collected, LatestVisits, At
<1> QED
  BY <1>3, <1>4, <1>5, <1>8 DEF IInv

LEMMA AppendInvariant ==
  ASSUME IInv, AppendRef
  PROVE  IInv'
<1> DEFINE new == [name |-> At(index).to, index |-> index]
<1>1. /\ phase = "collect" /\ index < Len(entries)
      /\ At(index).checkout /\ At(index).to \notin Names(refs)
      /\ refs' = Append(refs, new)
      /\ UNCHANGED <<user_vars, entries, shown>>
      /\ IF Len(refs') = Max THEN phase' = "print" /\ index' = index
                             ELSE phase' = "collect" /\ index' = index + 1
  BY DEF AppendRef, is_checkout_reflog
<1>2. index \in Nat /\ Len(entries) \in Nat /\ Len(refs) \in Nat /\ Max \in Nat
  BY RefsAssumption DEF IInv, Types
<1>3. new \in Ref /\ new.name = At(index).to /\ new.index = index
  <2>1. index + 1 \in 1..Len(entries)
    BY <1>1, <1>2
  <2>2. At(index) \in Entry
    BY <2>1 DEF IInv, Types, At
  <2> QED
    BY <1>2, <2>2 DEF Entry, Ref
<1> HIDE DEF new
<1>4. /\ refs' \in Seq(Ref)
      /\ Len(refs') = Len(refs) + 1
      /\ \A i \in 1..Len(refs) : refs'[i] = refs[i]
      /\ refs'[Len(refs) + 1] = new
  <2>1. refs \in Seq(Ref)
    BY DEF IInv, Types
  <2> QED
    BY <1>1, <1>3, <2>1
<1>5. Collected(refs, index) /\ (Max > 0 => Len(refs) <= Max)
  BY <1>1, CollectedSoFar
<1>6. LatestVisits(index + 1) = LatestVisits(index) \cup {index}
  <2>1. \A j \in 0..index - 1 : At(j).checkout => At(j).to # At(index).to
    BY <1>1 DEF IInv, Covered
  <2> QED
    BY <1>1, <1>2, <2>1, NextVisit
<1>7. \A i \in 1..Len(refs) : refs[i].index \in 0..index - 1
  BY <1>5 DEF Collected, LatestVisits
<1>8. Collected(refs', index + 1)
  <2>1. \A i \in 1..Len(refs') - 1 : refs'[i].index < refs'[i + 1].index
    <3> SUFFICES ASSUME NEW i \in 1..Len(refs)
                 PROVE  refs'[i].index < refs'[i + 1].index
      BY <1>2, <1>4
    <3>1. CASE i = Len(refs)
      BY <1>2, <1>3, <1>4, <1>7, <3>1
    <3>2. CASE i # Len(refs)
      <4>1. i \in 1..Len(refs) - 1 /\ i + 1 \in 1..Len(refs)
        BY <1>2, <3>2
      <4> QED
        BY <1>4, <1>5, <4>1 DEF Collected
    <3> QED
      BY <3>1, <3>2
  <2>2. {refs'[i].index : i \in 1..Len(refs')} = LatestVisits(index + 1)
    <3>1. 1..Len(refs') = (1..Len(refs)) \cup {Len(refs) + 1}
      BY <1>2, <1>4
    <3>2. {refs'[i].index : i \in 1..Len(refs')}
            = {refs[i].index : i \in 1..Len(refs)} \cup {index}
      BY <1>3, <1>4, <3>1
    <3> QED
      BY <1>5, <1>6, <3>2 DEF Collected
  <2>3. \A i \in 1..Len(refs') : refs'[i].name = At(refs'[i].index).to
    <3> SUFFICES ASSUME NEW i \in 1..Len(refs')
                 PROVE  refs'[i].name = At(refs'[i].index).to
      OBVIOUS
    <3>1. CASE i = Len(refs) + 1
      BY <1>3, <1>4, <3>1
    <3>2. CASE i # Len(refs) + 1
      <4>1. i \in 1..Len(refs)
        BY <1>2, <1>4, <3>2
      <4> QED
        BY <1>4, <1>5, <4>1 DEF Collected
    <3> QED
      BY <3>1, <3>2
  <2> QED
    BY <2>1, <2>2, <2>3 DEF Collected
<1>9. Types'
  BY <1>1, <1>2, <1>4 DEF IInv, Types, user_vars
<1>10. Room'
  BY <1>1, <1>2, <1>4 DEF IInv, Room
<1>11. Covered'
  <2> SUFFICES ASSUME phase' = "collect", NEW j \in 0..index, At(j).checkout
               PROVE  At(j).to \in Names(refs')
    BY <1>1, <1>2 DEF Covered, At, Names
  <2>1. CASE j = index
    BY <1>2, <1>3, <1>4, <2>1 DEF Names
  <2>2. CASE j # index
    <3>1. At(j).to \in Names(refs)
      BY <1>1, <1>2, <2>2 DEF IInv, Covered
    <3>2. PICK i \in 1..Len(refs) : refs[i].name = At(j).to
      BY <3>1 DEF Names
    <3>3. i \in 1..Len(refs') /\ refs'[i].name = At(j).to
      BY <1>2, <1>4, <3>2
    <3> QED
      BY <3>3 DEF Names
  <2> QED
    BY <2>1, <2>2
<1>12. LatestFirst'
  <2>1. Max > 0 => Len(refs') <= Max
    BY <1>1, <1>2, <1>4 DEF IInv, Room
  <2>2. CASE Len(refs') = Max
    <3>1. Max > 0 /\ refs'[Max].index = index
      BY <1>2, <1>3, <1>4, <2>2
    <3> QED
      BY <1>1, <1>2, <1>8, <2>1, <2>2, <3>1
      DEF Collected, LatestFirst, LatestVisits, At
  <2>3. CASE Len(refs') # Max
    BY <1>1, <1>2, <1>8, <2>1, <2>3
    DEF Collected, LatestFirst, LatestVisits, At
  <2> QED
    BY <2>2, <2>3
<1> QED
  BY <1>9, <1>10, <1>11, <1>12 DEF IInv

LEMMA EndInvariant ==
  ASSUME IInv, EndOfReflog
  PROVE  IInv'
<1>1. /\ phase = "collect" /\ phase' = "print" /\ index = Len(entries)
      /\ UNCHANGED <<user_vars, entries, index, refs, shown>>
  BY DEF EndOfReflog
<1>2. Types' /\ Room' /\ Covered'
  BY <1>1 DEF IInv, Types, Room, Covered, user_vars
<1>3. Len(refs) \in Nat /\ Max \in Nat
  BY RefsAssumption DEF IInv, Types
<1>4. Len(refs) = Max => ~(Max > 0)
  BY <1>1, <1>3 DEF IInv, Room
<1>5. Collected(refs, index) /\ (Max > 0 => Len(refs) <= Max)
  BY <1>1, CollectedSoFar
<1>6. LatestFirst'
  <2>1. CASE Len(refs) = Max
    BY <1>1, <1>4, <1>5, <2>1 DEF LatestFirst, Collected, LatestVisits, At
  <2>2. CASE Len(refs) # Max
    BY <1>1, <1>5, <2>2 DEF LatestFirst, Collected, LatestVisits, At
  <2> QED
    BY <2>1, <2>2
<1> QED
  BY <1>2, <1>6 DEF IInv

LEMMA PrintInvariant ==
  ASSUME IInv, print_refs
  PROVE  IInv'
<1>1. refs' = <<>> /\ phase' = "idle" /\ UNCHANGED <<user_vars, entries, index>>
  BY DEF print_refs
<1> QED
  BY <1>1 DEF IInv, Types, Room, Covered, LatestFirst, user_vars

LEMMA RefsStep ==
  ASSUME IInv, [Next]_vars
  PROVE  IInv'
<1>1. CASE Commit \/ \E b \in Branches : Checkout(b)
  BY <1>1, UserInvariant
<1>2. CASE get_latest_refs
  BY <1>2, BeginInvariant
<1>3. CASE SkipEntry
  BY <1>3, SkipInvariant
<1>4. CASE AppendRef
  BY <1>4, AppendInvariant
<1>5. CASE EndOfReflog
  BY <1>5, EndInvariant
<1>6. CASE print_refs
  BY <1>6, PrintInvariant
<1>7. CASE UNCHANGED vars
  BY <1>7 DEF vars, user_vars, IInv, Types, Room, Covered, LatestFirst,
              LatestVisits, Names, At
<1> QED
  BY <1>1, <1>2, <1>3, <1>4, <1>5, <1>6, <1>7 DEF Next

(* The list collected is exactly the branches visited, the latest visit of *)
(* each, latest first, as many as were asked for (get_latest_refs), while  *)
(* the user goes on checking out and committing.                           *)
THEOREM RefsLatestFirst == Spec => []LatestFirst
<1>1. Init => IInv
  BY InitInvariant
<1>2. IInv /\ [Next]_vars => IInv'
  BY RefsStep
<1>3. IInv => LatestFirst
  BY DEF IInv
<1> QED
  BY <1>1, <1>2, <1>3, PTL DEF Spec

-----------------------------------------------------------------------------

\* Each checkout starts from where the one before it went.
Chained(log) == \A i \in 1..Len(log) - 1 : log[i].from = log[i + 1].to

Logs ==
  /\ Len(reflog) >= 1 /\ reflog[1].to = head
  /\ Chained(reflog) /\ Chained(entries)

ShownLine == [name : Branches, command : Nat \ {0}]

\* A line's number is the position of a visit of its branch, not the newest.
Stands(line) ==
  /\ line.command \in 1..Len(entries) - 1
  /\ At(line.command).to = line.name

Shown ==
  /\ shown \in Seq(ShownLine)
  /\ phase = "idle" => \A i \in 1..Len(shown) : Stands(shown[i])

\* The list refers to entries that are there.
Inside == \A i \in 1..Len(refs) : refs[i].index < Len(entries)

JInv == IInv /\ Logs /\ Inside /\ Shown

\* What print_refs' loop may put out for a list.
Listed(list) == {Line(list[k]) : k \in {k \in 1..Len(list) : list[k].index # 0}}

(* The loop of print_refs puts out nothing but the lines of the list.      *)
LEMMA LinesListed ==
  ASSUME NEW list, Len(list) \in Nat
  PROVE  LinesAfter(list)[Len(list)] \in Seq(Listed(list))
<1> DEFINE N == Len(list)
           V == Seq(Listed(list))
           next(n, t) == IF list[n].index = 0 THEN t ELSE Append(t, Line(list[n]))
           step == [a \in (1..N) \X V |-> next(a[1], a[2])]
           Is(f) == f = [n \in 0..N |-> IF n = 0 THEN <<>>
                                        ELSE IF list[n].index = 0 THEN f[n - 1]
                                        ELSE Append(f[n - 1], Line(list[n]))]
<1>1. <<>> \in V
  OBVIOUS
<1>2. ASSUME NEW n \in 1..N, NEW t \in V PROVE next(n, t) \in V
  <2>1. CASE list[n].index = 0
    BY <2>1
  <2>2. CASE list[n].index # 0
    <3>1. Line(list[n]) \in Listed(list)
      BY <2>2 DEF Listed
    <3> QED
      BY <2>2, <3>1
  <2> QED
    BY <2>1, <2>2
<1> HIDE DEF V
<1>3. step \in [(1..N) \X V -> V]
  <2> SUFFICES ASSUME NEW a \in (1..N) \X V PROVE next(a[1], a[2]) \in V
    OBVIOUS
  <2>1. a[1] \in 1..N /\ a[2] \in V
    OBVIOUS
  <2> HIDE DEF next
  <2> QED
    BY <1>2, <2>1
<1>4. \A n \in 1..N, t \in V : step[<<n, t>>] = next(n, t)
  <2> HIDE DEF next
  <2> QED
    OBVIOUS
<1> HIDE DEF step
<1>5. PICK f \in [0..N -> V] : Recursion(f, N, <<>>, step)
  BY <1>1, <1>3, RecursionExists
<1>6. Is(f)
  <2>1. \A n \in 0..N : n # 0 => n \in 1..N /\ n - 1 \in 0..N
    OBVIOUS
  <2>2. \A n \in 0..N : n # 0 => step[<<n, f[n - 1]>>] = next(n, f[n - 1])
    <3> HIDE DEF next
    <3> QED
      BY <1>4, <2>1
  <2> QED
    BY <1>5, <2>2 DEF Recursion
<1>7. LinesAfter(list) = CHOOSE g : Is(g)
  BY DEF LinesAfter
<1>8. Is(LinesAfter(list))
  <2> HIDE DEF Is
  <2> QED
    BY <1>6, <1>7
<1> DEFINE g == LinesAfter(list)
<1> HIDE DEF g
<1>9. g[0] = <<>> /\ \A n \in 1..N : g[n] = next(n, g[n - 1])
  <2>1. Is(g)
    BY <1>8 DEF g
  <2>2. 0 \in 0..N /\ \A n \in 1..N : n \in 0..N /\ n # 0
    OBVIOUS
  <2> HIDE DEF N
  <2> QED
    BY <2>1, <2>2
<1> DEFINE S == {n \in 0..N : g[n] \in V}
<1>10. 0..N \subseteq S
  <2>1. 0 \in S
    BY <1>1, <1>9
  <2>2. ASSUME NEW n \in 1..N, n - 1 \in S PROVE n \in S
    <3> HIDE DEF next
    <3> QED
      BY <1>2, <1>9, <2>2
  <2> HIDE DEF S
  <2> QED
    BY <2>1, <2>2, LoopInduction
<1>11. g[N] \in V
  BY <1>10
<1> QED
  BY <1>11 DEF g, V

(* What is shown after a refresh are visits, the newest entry's excepted.  *)
LEMMA PrintedStands ==
  ASSUME IInv, Inside, print_refs
  PROVE  /\ shown' \in Seq(ShownLine)
         /\ \A i \in 1..Len(shown') : Stands(shown'[i])
<1>1. phase = "print" /\ shown' = LinesAfter(refs)[Len(refs)]
  BY DEF print_refs
<1>2. Len(refs) \in Nat /\ Len(entries) \in Nat
  BY DEF IInv, Types
<1>3. shown' \in Seq(Listed(refs))
  BY <1>1, <1>2, LinesListed
<1>4. ASSUME NEW k \in 1..Len(refs), refs[k].index # 0
      PROVE  Line(refs[k]) \in ShownLine /\ Stands(Line(refs[k]))
  <2> DEFINE line == Line(refs[k])
  <2>1. refs[k] \in Ref
    BY DEF IInv, Types
  <2>2. /\ line.name = refs[k].name /\ line.command = refs[k].index
        /\ line \in ShownLine
    BY <1>4, <2>1 DEF Line, get_co_command, Ref, ShownLine
  <2>3. refs[k].index \in 0..Len(entries) - 1 /\ refs[k].name = At(refs[k].index).to
    <3>1. refs[k].name = At(refs[k].index).to
      BY <1>1 DEF IInv, LatestFirst
    <3>2. refs[k].index \in Nat
      BY <2>1 DEF Ref
    <3> QED
      BY <1>2, <3>1, <3>2 DEF Inside
  <2> HIDE DEF line
  <2>4. line.command \in 1..Len(entries) - 1
    BY <1>2, <1>4, <2>2, <2>3
  <2> QED
    BY <2>2, <2>3, <2>4 DEF Stands, line
<1>5. Listed(refs) \subseteq {l \in ShownLine : Stands(l)}
  BY <1>4 DEF Listed
<1>6. shown' \in Seq({l \in ShownLine : Stands(l)})
  BY <1>3, <1>5
<1> QED
  BY <1>6

\* A command logged keeps the reflog a chain that ends at HEAD.
LEMMA LoggedChain ==
  ASSUME reflog \in Seq(Entry), Logs, NEW e \in Entry, e.from = head,
         reflog' = <<e>> \o reflog, head' = e.to, entries' = entries
  PROVE  Logs'
<1>1. /\ Len(reflog) \in Nat /\ Len(reflog') = Len(reflog) + 1
      /\ reflog'[1] = e
      /\ \A i \in 2..(Len(reflog) + 1) : reflog'[i] = reflog[i - 1]
  OBVIOUS
<1>2. Chained(reflog')
  <2> SUFFICES ASSUME NEW i \in 1..Len(reflog)
               PROVE  reflog'[i].from = reflog'[i + 1].to
    BY <1>1 DEF Chained
  <2>1. reflog'[i + 1] = reflog[i]
    <3>1. i + 1 \in 2..(Len(reflog) + 1) /\ (i + 1) - 1 = i
      BY <1>1
    <3> QED
      BY <1>1, <3>1
  <2>2. CASE i = 1
    BY <1>1, <2>1, <2>2 DEF Logs
  <2>3. CASE i # 1
    <3>1. i \in 2..(Len(reflog) + 1) /\ i - 1 \in 1..Len(reflog) - 1
          /\ (i - 1) + 1 = i
      BY <1>1, <2>3
    <3>2. reflog'[i] = reflog[i - 1] /\ reflog[i - 1].from = reflog[i].to
      BY <1>1, <3>1 DEF Logs, Chained
    <3> QED
      BY <2>1, <3>2
  <2> QED
    BY <2>2, <2>3
<1>3. Len(reflog') >= 1 /\ reflog'[1].to = head'
  BY <1>1
<1>4. Chained(entries')
  BY DEF Logs, Chained
<1> QED
  BY <1>2, <1>3, <1>4 DEF Logs

LEMMA CommandsInvariant == Spec => []JInv
<1>1. Init => JInv
  <2> SUFFICES ASSUME Init PROVE JInv
    OBVIOUS
  <2>1. IInv
    BY InitInvariant
  <2>2. Logs
    <3>1. Len(reflog) = 1 /\ reflog[1] = Other /\ Len(entries) = 0
      BY DEF Init
    <3>2. reflog[1].to = head
      BY <3>1 DEF Other
    <3>3. Chained(reflog) /\ Chained(entries)
      BY <3>1 DEF Chained
    <3> QED
      BY <3>1, <3>2, <3>3 DEF Logs
  <2>3. Inside /\ Shown
    BY DEF Init, Inside, Shown
  <2> QED
    BY <2>1, <2>2, <2>3 DEF JInv
<1>2. JInv /\ [Next]_vars => JInv'
  <2> SUFFICES ASSUME JInv, [Next]_vars PROVE JInv'
    OBVIOUS
  <2>1. IInv'
    BY RefsStep DEF JInv
  <2>2. /\ reflog \in Seq(Entry) /\ entries \in Seq(Entry)
        /\ head \in Branches /\ Len(refs) \in Nat /\ Len(entries) \in Nat
    BY DEF JInv, IInv, Types
  <2>3. CASE Commit \/ \E b \in Branches : Checkout(b)
    <3>1. UNCHANGED <<entries, refs, phase, shown>>
      BY <2>3 DEF Commit, Checkout
    <3>2. Logs'
      <4>1. CASE Commit
        <5>1. Other \in Entry /\ Other.from = head /\ Other.to = head
          BY <2>2 DEF Other, Entry
        <5> QED
          BY <2>2, <4>1, <5>1, LoggedChain DEF JInv, Commit
      <4>2. ASSUME NEW b \in Branches, Checkout(b) PROVE Logs'
        <5> DEFINE e == [checkout |-> TRUE, from |-> head, to |-> b]
        <5>1. e \in Entry /\ e.from = head /\ e.to = b
          BY <2>2 DEF Entry
        <5>2. reflog' = <<e>> \o reflog /\ head' = b /\ entries' = entries
          BY <4>2 DEF Checkout
        <5> HIDE DEF e
        <5> QED
          BY <2>2, <5>1, <5>2, LoggedChain DEF JInv
      <4> QED
        BY <2>3, <4>1, <4>2
    <3>3. Inside' /\ Shown'
      BY <3>1 DEF JInv, Inside, Shown, Stands, At
    <3> QED
      BY <2>1, <3>2, <3>3 DEF JInv
  <2>4. CASE get_latest_refs
    <3>1. /\ entries' = reflog /\ phase' = "collect" /\ refs' = <<>>
          /\ UNCHANGED <<head, reflog, shown>>
      BY <2>4 DEF get_latest_refs, user_vars, JInv, IInv, Room
    <3> QED
      BY <2>1, <3>1 DEF JInv, Logs, Chained, Inside, Shown
  <2>5. CASE SkipEntry \/ EndOfReflog
    <3>1. /\ phase' # "idle"
          /\ UNCHANGED <<head, reflog, entries, refs, shown>>
      BY <2>5 DEF SkipEntry, EndOfReflog, user_vars
    <3> QED
      BY <2>1, <3>1 DEF JInv, Logs, Chained, Inside, Shown
  <2>6. CASE AppendRef
    <3> DEFINE new == [name |-> At(index).to, index |-> index]
    <3>1. /\ phase' # "idle" /\ index < Len(entries)
          /\ refs' = Append(refs, new) /\ new.index = index
          /\ UNCHANGED <<head, reflog, entries, shown>>
      BY <2>6 DEF AppendRef, user_vars
    <3>2. refs \in Seq(Ref)
      BY DEF JInv, IInv, Types
    <3> HIDE DEF new
    <3>3. /\ Len(refs') = Len(refs) + 1
          /\ \A i \in 1..Len(refs) : refs'[i] = refs[i]
          /\ refs'[Len(refs) + 1] = new
      BY <3>1, <3>2
    <3>4. Inside'
      <4> SUFFICES ASSUME NEW i \in 1..Len(refs') PROVE refs'[i].index < Len(entries)
        BY <3>1 DEF Inside
      <4>1. i = Len(refs) + 1 \/ i \in 1..Len(refs)
        BY <2>2, <3>3
      <4> QED
        BY <3>1, <3>3, <4>1 DEF JInv, Inside
    <3>5. Logs' /\ Shown'
      BY <3>1 DEF JInv, Logs, Chained, Shown
    <3> QED
      BY <2>1, <3>4, <3>5 DEF JInv
  <2>7. CASE print_refs
    <3>1. refs' = <<>> /\ UNCHANGED <<head, reflog, entries>>
      BY <2>7 DEF print_refs, user_vars
    <3>2. /\ shown' \in Seq(ShownLine)
          /\ \A i \in 1..Len(shown') : Stands(shown'[i])
      BY <2>7, PrintedStands DEF JInv
    <3>3. Shown'
      BY <3>1, <3>2 DEF Shown, Stands, At
    <3>4. Logs' /\ Inside'
      BY <3>1 DEF JInv, Logs, Chained, Inside
    <3> QED
      BY <2>1, <3>3, <3>4 DEF JInv
  <2>8. CASE UNCHANGED vars
    BY <2>1, <2>8 DEF vars, user_vars, JInv, Logs, Chained, Inside, Shown,
                      Stands, At
  <2> QED
    BY <2>3, <2>4, <2>5, <2>6, <2>7, <2>8 DEF Next
<1> QED
  BY <1>1, <1>2, PTL DEF Spec

(* The list on the screen names branches, and commands with a number that  *)
(* git takes (print_refs), for any limit and any reflog.                   *)
THEOREM RefsTypeCorrect == Spec => []TypeOK
<1>1. JInv => TypeOK
  BY DEF JInv, IInv, Types, Shown, ShownLine, TypeOK
<1> QED
  BY <1>1, CommandsInvariant, PTL

(* Of a reflog of checkouts, the last entry perhaps excepted, the nth      *)
(* latest checkout is the nth entry.                                       *)
LEMMA NthCheckout ==
  ASSUME NEW log, Len(log) \in Nat, \A i \in 1..Len(log) - 1 : log[i].checkout,
         NEW n \in 1..Len(log) - 1
  PROVE  PreviousBranch(log, n) = {log[n].from}
<1> DEFINE L == Len(log)
           Checkouts(i) == {k \in 1..i : log[k].checkout}
           Nth == {k \in Checkouts(L) : Cardinality(Checkouts(k)) = n}
<1>1. ASSUME NEW k \in 1..L - 1 PROVE Cardinality(Checkouts(k)) = k
  <2>1. Checkouts(k) = 1..k
    <3>1. \A j \in 1..k : j \in 1..L - 1
      OBVIOUS
    <3> QED
      BY <3>1
  <2>2. Cardinality(1..k) = k
    <3>1. Cardinality(1..k) = IF 1 > k THEN 0 ELSE k - 1 + 1
      BY FS_Interval
    <3> QED
      BY <3>1
  <2> QED
    BY <2>1, <2>2
<1>2. Checkouts(L) = 1..L => Cardinality(Checkouts(L)) = L
  <2>1. Cardinality(1..L) = IF 1 > L THEN 0 ELSE L - 1 + 1
    BY FS_Interval
  <2>2. L \in Nat
    OBVIOUS
  <2> HIDE DEF L, Checkouts
  <2>3. Cardinality(1..L) = L
    BY <2>1, <2>2
  <2> QED
    BY <2>3
<1>3. n \in Nth
  <2>1. n \in 1..L - 1 /\ n \in 1..L
    OBVIOUS
  <2> QED
    BY <1>1, <2>1
<1>4. ASSUME NEW k \in Nth PROVE k = n
  <2>1. k \in 1..L /\ log[k].checkout /\ Cardinality(Checkouts(k)) = n
    OBVIOUS
  <2>2. CASE k \in 1..L - 1
    BY <1>1, <2>1, <2>2
  <2>3. CASE k = L
    <3>1. \A j \in 1..L : j \in 1..L - 1 \/ j = L
      OBVIOUS
    <3>2. Checkouts(L) = 1..L
      BY <2>1, <2>3, <3>1
    <3> HIDE DEF Checkouts
    <3>3. n = L
      BY <1>2, <2>1, <2>3, <3>2
    <3> QED
      BY <2>3, <3>3
  <2> QED
    BY <2>1, <2>2, <2>3
<1>5. Nth = {n}
  <2> HIDE DEF Nth
  <2> QED
    BY <1>3, <1>4
<1>6. PreviousBranch(log, n) = {log[i].from : i \in Nth}
  BY DEF PreviousBranch
<1> HIDE DEF Nth
<1> QED
  BY <1>5, <1>6

(* The command printed next to a branch checks out that branch, provided   *)
(* nothing but checkouts is logged since the repository was created        *)
(* (get_co_command, and what git takes @{-n} for).                         *)
THEOREM RefsCommandChecksOut == Spec => []CommandChecksOut
<1>1. JInv => CommandChecksOut
  <2> SUFFICES ASSUME JInv, phase = "idle",
                      \A i \in 1..Len(entries) - 1 : entries[i].checkout,
                      NEW i \in 1..Len(shown)
               PROVE  PreviousBranch(entries, shown[i].command) = {shown[i].name}
    BY DEF CommandChecksOut
  <2> DEFINE n == shown[i].command
  <2>1. n \in 1..Len(entries) - 1 /\ At(n).to = shown[i].name
    BY DEF JInv, Shown, Stands
  <2> HIDE DEF n
  <2>2. Len(entries) \in Nat
    BY DEF JInv, IInv, Types
  <2>3. entries[n].from = shown[i].name
    BY <2>1 DEF JInv, Logs, Chained, At
  <2>4. PreviousBranch(entries, n) = {entries[n].from}
    BY <2>1, <2>2, NthCheckout
  <2> QED
    BY <2>3, <2>4 DEF n
<1> QED
  BY <1>1, CommandsInvariant, PTL

=============================================================================
