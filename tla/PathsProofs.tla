---------------------------- MODULE PathsProofs ----------------------------
(***************************************************************************)
(* The printed path names the file and leaves no directory to come back    *)
(* into it, for paths of any length over any names.  The invariant says    *)
(* what each loop of is_relative_to and of relative_to has established     *)
(* about the parts it consumed, and about the part it stopped at.          *)
(*                                                                         *)
(* The root found in a git directory's path is the outermost repository's  *)
(* (RootFound), as the first place where the path agrees with the pattern  *)
(* is the end of the outermost work tree.                                  *)
(***************************************************************************)
EXTENDS Roots, SequenceTheorems, TLAPS

Parts == Names \cup {Empty}

abs_path == join_paths(git_dir, path)

Agree(p) == \A j \in 1..parts : PartAt(p, j) = attached_dir[j]

Consumed ==
  /\ parts \in 0..Len(attached_dir)
  /\ phase = "is_relative_to" => ups = 0 /\ Agree(git_dir)
  /\ phase = "common" => ups = 0 /\ Agree(abs_path)
  /\ phase = "up" =>
       /\ ups \in Nat
       /\ parts + ups <= Len(attached_dir)
       /\ Agree(abs_path)
       /\ parts < Len(attached_dir) =>
            PartAt(abs_path, parts + 1) # attached_dir[parts + 1]
  /\ phase = "done" => ups \in 0..Len(attached_dir)

Inputs == git_dir \in Absolute /\ path \in Relative /\ attached_dir \in Absolute

IInv ==
  /\ Inputs
  /\ phase \in {"is_relative_to", "common", "up", "done"}
  /\ rest \in Seq(Parts)
  /\ Consumed
  /\ PrintedPathResolves
  /\ PrintedPathMinimal

-----------------------------------------------------------------------------

\* An absolute path: one empty part, then names.
IsAbsolute(p) ==
  /\ p \in Seq(Parts)
  /\ Len(p) >= 1
  /\ \A j \in 1..Len(p) : p[j] = Empty <=> j = 1

LEMMA RelativeShape ==
  ASSUME NEW p \in Relative
  PROVE  p \in Seq(Names)
  BY DEF Relative

LEMMA AbsoluteShape ==
  ASSUME NEW p \in Absolute
  PROVE  IsAbsolute(p)
<1>1. PICK r \in Relative : p = <<Empty>> \o r
  BY DEF Absolute
<1>2. r \in Seq(Names)
  BY RelativeShape
<1>3. p \in Seq(Parts) /\ Len(p) = Len(r) + 1
  BY <1>1, <1>2 DEF Parts
<1>4. p[1] = Empty
  BY <1>1, <1>2
<1>5. \A j \in 2..Len(p) : p[j] = r[j - 1] /\ r[j - 1] \in Names
  BY <1>1, <1>2, <1>3
<1> QED
  BY <1>2, <1>3, <1>4, <1>5, NamesAssumption DEF IsAbsolute

LEMMA JoinShape ==
  ASSUME NEW d, IsAbsolute(d), NEW r \in Seq(Names)
  PROVE  /\ IsAbsolute(join_paths(d, r))
         /\ Len(join_paths(d, r)) = Len(d) + Len(r)
<1> DEFINE j_path == d \o r
<1>1. j_path \in Seq(Parts) /\ Len(j_path) = Len(d) + Len(r)
  BY DEF IsAbsolute, Parts
<1>2. \A j \in 1..Len(d) : j_path[j] = d[j]
  BY DEF IsAbsolute
<1>3. \A j \in (Len(d) + 1)..(Len(d) + Len(r)) :
        j_path[j] = r[j - Len(d)] /\ r[j - Len(d)] \in Names
  BY DEF IsAbsolute
<1>4. \A j \in 1..Len(j_path) : j_path[j] = Empty <=> j = 1
  BY <1>1, <1>2, <1>3, NamesAssumption DEF IsAbsolute
<1> QED
  BY <1>1, <1>4 DEF IsAbsolute, join_paths

(* A string that is used up does not agree with a part of the other one:   *)
(* parts after the first are not empty.                                    *)
LEMMA AgreeFits ==
  ASSUME NEW p, IsAbsolute(p), NEW d, IsAbsolute(d),
         NEW k \in 0..Len(d), \A j \in 1..k : PartAt(p, j) = d[j]
  PROVE  k <= Len(p) /\ \A j \in 1..k : p[j] = d[j]
<1>1. k <= Len(p)
  <2> SUFFICES ASSUME k > Len(p) PROVE FALSE
    BY DEF IsAbsolute
  <2>1. k \in 2..Len(d) /\ PartAt(p, k) = Empty
    BY DEF IsAbsolute, PartAt
  <2> QED
    BY <2>1 DEF IsAbsolute
<1> QED
  BY <1>1 DEF IsAbsolute, PartAt

(* A path that agrees with d in its first k parts is those parts of d and  *)
(* the rest of the path.                                                   *)
LEMMA Rejoin ==
  ASSUME NEW p \in Seq(Parts), NEW d \in Seq(Parts), NEW k \in Nat,
         k <= Len(p), k <= Len(d), \A j \in 1..k : p[j] = d[j]
  PROVE  SubSeq(d, 1, k) \o SubSeq(p, k + 1, Len(p)) = p
<1> DEFINE l == SubSeq(d, 1, k)
           r == SubSeq(p, k + 1, Len(p))
<1>1. l \in Seq(Parts) /\ Len(l) = k /\ \A j \in 1..k : l[j] = d[j]
  OBVIOUS
<1>2. /\ r \in Seq(Parts)
      /\ Len(r) = Len(p) - k
      /\ \A j \in 1..(Len(p) - k) : r[j] = p[j + k]
  OBVIOUS
<1> HIDE DEF l, r
<1>3. /\ l \o r \in Seq(Parts)
      /\ Len(l \o r) = Len(p)
      /\ \A j \in 1..Len(p) : (l \o r)[j] = IF j <= k THEN l[j] ELSE r[j - k]
  BY <1>1, <1>2, ConcatProperties
<1>4. ASSUME NEW j \in 1..Len(p) PROVE (l \o r)[j] = p[j]
  <2>1. CASE j <= k
    BY <1>1, <1>3, <2>1
  <2>2. CASE ~(j <= k)
    <3>1. j - k \in 1..(Len(p) - k) /\ (j - k) + k = j
      BY <2>2
    <3>2. r[j - k] = p[j]
      BY <1>2, <3>1
    <3> QED
      BY <1>3, <2>2, <3>2
  <2> QED
    BY <2>1, <2>2
<1>5. l \o r = p
  BY <1>3, <1>4, SeqEqual
<1> QED
  BY <1>5 DEF l, r

-----------------------------------------------------------------------------

(* The rest of a path begins with the part it was cut at.                  *)
LEMMA RestBegins ==
  ASSUME NEW p \in Seq(Parts), NEW k \in Nat, k <= Len(p)
  PROVE  /\ From(p, k + 1) \in Seq(Parts)
         /\ PartAt(From(p, k + 1), 1) = PartAt(p, k + 1)
<1>1. /\ From(p, k + 1) \in Seq(Parts)
      /\ Len(From(p, k + 1)) = Len(p) - k
      /\ \A j \in 1..(Len(p) - k) : From(p, k + 1)[j] = p[j + k]
  BY DEF From
<1> QED
  BY <1>1 DEF PartAt

LEMMA InitInvariant == Init => IInv
<1> SUFFICES ASSUME Init PROVE IInv
  OBVIOUS
<1>1. Len(attached_dir) \in Nat
  BY AbsoluteShape DEF Init, IsAbsolute
<1> QED
  BY <1>1 DEF Init, IInv, Inputs, Consumed, Agree, PrintedPathResolves,
                  PrintedPathMinimal

\* What the inputs of every state are.
LEMMA InputShapes ==
  ASSUME Inputs
  PROVE  /\ IsAbsolute(git_dir) /\ IsAbsolute(attached_dir)
         /\ path \in Seq(Names)
         /\ IsAbsolute(abs_path) /\ Len(abs_path) = Len(git_dir) + Len(path)
  BY AbsoluteShape, RelativeShape, JoinShape DEF Inputs, abs_path

(* is_relative_to returned TRUE: the work tree is the attached directory,  *)
(* or below it.                                                            *)
LEMMA CopiedPathResolves ==
  ASSUME Inputs, parts = Len(attached_dir), Agree(git_dir),
         ~Above(attached_dir, git_dir)
  PROVE  Resolve(attached_dir, 0, path) = abs_path
<1>1. /\ Len(attached_dir) <= Len(git_dir)
      /\ \A j \in 1..Len(attached_dir) : git_dir[j] = attached_dir[j]
  <2>1. parts \in 0..Len(attached_dir)
    BY InputShapes DEF IsAbsolute
  <2>2. \A j \in 1..parts : PartAt(git_dir, j) = attached_dir[j]
    BY DEF Agree
  <2> QED
    BY <2>1, <2>2, InputShapes, AgreeFits
<1>2. SubSeq(git_dir, 1, Len(attached_dir)) = attached_dir
  <2> DEFINE g == SubSeq(git_dir, 1, Len(attached_dir))
  <2>1. /\ g \in Seq(Parts)
        /\ Len(g) = Len(attached_dir)
        /\ \A j \in 1..Len(attached_dir) : g[j] = git_dir[j]
    BY <1>1, InputShapes DEF IsAbsolute
  <2> HIDE DEF g
  <2>2. g = attached_dir
    BY <1>1, <2>1, InputShapes, SeqEqual DEF IsAbsolute
  <2> QED
    BY <2>2 DEF g
<1>3. Len(attached_dir) = Len(git_dir)
  BY <1>1, <1>2, InputShapes DEF Above, IsAbsolute
<1>4. git_dir = attached_dir
  BY <1>1, <1>3, InputShapes, SeqEqual DEF IsAbsolute
<1>5. SubSeq(attached_dir, 1, Len(attached_dir) - 0) = attached_dir
  BY <1>2, <1>4, InputShapes DEF IsAbsolute
<1> QED
  BY <1>4, <1>5 DEF Resolve, abs_path, join_paths

(* relative_to ends with one "../" for every part it did not consume.      *)
LEMMA ClimbedPathResolves ==
  ASSUME Inputs, parts \in 0..Len(attached_dir), Agree(abs_path)
  PROVE  Resolve(attached_dir, Len(attached_dir) - parts,
                 From(abs_path, parts + 1)) = abs_path
<1>1. /\ parts <= Len(abs_path)
      /\ \A j \in 1..parts : abs_path[j] = attached_dir[j]
  BY InputShapes, AgreeFits DEF Agree
<1>2. /\ abs_path \in Seq(Parts) /\ attached_dir \in Seq(Parts)
      /\ parts \in Nat /\ parts <= Len(attached_dir)
  BY InputShapes DEF IsAbsolute
<1>3. Len(attached_dir) - (Len(attached_dir) - parts) = parts
  BY <1>2
<1> QED
  BY <1>1, <1>2, <1>3, Rejoin DEF Resolve, From

-----------------------------------------------------------------------------

LEMMA IsRelativeInvariant ==
  ASSUME IInv, is_relative_to
  PROVE  IInv'
<1> USE DEF is_relative_to, inputs, IInv, Inputs
<1>1. Inputs'
  OBVIOUS
<1>2. Len(attached_dir) \in Nat
  BY InputShapes DEF IsAbsolute
<1>3. CASE phase' = "is_relative_to"
  BY <1>2, <1>3 DEF Consumed, Agree, PrintedPathResolves, PrintedPathMinimal
<1>4. CASE phase' = "common"
  BY <1>2, <1>4 DEF Consumed, Agree, PrintedPathResolves, PrintedPathMinimal
<1>5. CASE phase' = "done"
  <2>1. parts = Len(attached_dir) /\ Agree(git_dir) /\ ups' = 0 /\ rest' = path
    BY <1>5 DEF Consumed
  <2>2. PrintedPathResolves'
    BY <2>1, CopiedPathResolves DEF PrintedPathResolves, abs_path
  <2>3. Consumed'
    BY <1>2, <1>5, <2>1 DEF Consumed
  <2>4. PrintedPathMinimal'
    BY <2>1 DEF PrintedPathMinimal
  <2>5. rest' \in Seq(Parts)
    BY <2>1, InputShapes DEF Parts
  <2> QED
    BY <1>1, <1>5, <2>2, <2>3, <2>4, <2>5
<1> QED
  BY <1>3, <1>4, <1>5

LEMMA SkipCommonInvariant ==
  ASSUME IInv, SkipCommon
  PROVE  IInv'
<1> USE DEF SkipCommon, inputs, IInv, Inputs
<1>1. Inputs' /\ phase' \in {"common", "up"}
  OBVIOUS
<1>2. Len(attached_dir) \in Nat /\ abs_path' = abs_path
  BY InputShapes DEF IsAbsolute, abs_path
<1>3. Consumed'
  <2>1. CASE parts' = parts
    <3>1. /\ phase' = "up" /\ parts \in 0..Len(attached_dir)
          /\ parts < Len(attached_dir) =>
               PartAt(abs_path, parts + 1) # attached_dir[parts + 1]
      BY <1>2, <2>1 DEF Consumed, abs_path
    <3> QED
      BY <1>2, <2>1, <3>1 DEF Consumed, Agree
  <2>2. CASE parts' = parts + 1
    <3>1. /\ parts + 1 <= Len(attached_dir)
          /\ PartAt(abs_path, parts + 1) = attached_dir[parts + 1]
          /\ phase' = "common"
      BY <1>2, <2>2 DEF abs_path, Consumed
    <3>2. \A j \in 1..parts' : PartAt(abs_path, j) = attached_dir[j]
      BY <2>2, <3>1 DEF Consumed, Agree
    <3> QED
      BY <1>2, <2>2, <3>1, <3>2 DEF Consumed, Agree
  <2> QED
    BY <2>1, <2>2
<1>4. PrintedPathResolves' /\ PrintedPathMinimal'
  BY <1>1 DEF PrintedPathResolves, PrintedPathMinimal
<1> QED
  BY <1>1, <1>3, <1>4

LEMMA GoUpInvariant ==
  ASSUME IInv, GoUp
  PROVE  IInv'
<1> USE DEF GoUp, inputs, IInv, Inputs
<1>1. Inputs' /\ phase' \in {"up", "done"}
  OBVIOUS
<1>2. Len(attached_dir) \in Nat /\ abs_path' = abs_path
  BY InputShapes DEF IsAbsolute, abs_path
<1>3. /\ parts \in 0..Len(attached_dir) /\ ups \in Nat
      /\ parts + ups <= Len(attached_dir) /\ Agree(abs_path)
  BY DEF Consumed
<1>4. Consumed'
  BY <1>1, <1>2, <1>3 DEF Consumed, Agree
<1>5. PrintedPathResolves'
  <2> SUFFICES ASSUME phase' = "done"
               PROVE  Resolve(attached_dir, ups', rest') = abs_path
    BY DEF PrintedPathResolves, abs_path
  <2>1. ups' = Len(attached_dir) - parts
    BY <1>2, <1>3
  <2>2. rest' = From(abs_path, parts + 1)
    BY DEF abs_path
  <2> QED
    BY <1>3, <2>1, <2>2, ClimbedPathResolves
<1>6. parts <= Len(abs_path) /\ abs_path \in Seq(Parts)
  BY <1>3, InputShapes, AgreeFits DEF Agree, IsAbsolute
<1>7. rest' \in Seq(Parts)
  BY <1>3, <1>6, RestBegins DEF abs_path
<1>8. PrintedPathMinimal'
  <2> SUFFICES ASSUME phase' = "done", ups' > 0
               PROVE  PartAt(rest', 1) # attached_dir[Len(attached_dir) - ups' + 1]
    BY DEF PrintedPathMinimal
  <2>1. /\ ups' = Len(attached_dir) - parts
        /\ rest' = From(abs_path, parts + 1)
    BY <1>2, <1>3 DEF abs_path
  <2>2. PartAt(rest', 1) = PartAt(abs_path, parts + 1)
    BY <1>3, <1>6, <2>1, RestBegins
  <2>3. parts < Len(attached_dir) /\ Len(attached_dir) - ups' + 1 = parts + 1
    BY <1>2, <1>3, <2>1
  <2>4. PartAt(abs_path, parts + 1) # attached_dir[parts + 1]
    BY <2>3 DEF Consumed
  <2> QED
    BY <2>2, <2>3, <2>4
<1> QED
  BY <1>1, <1>4, <1>5, <1>7, <1>8

LEMMA PathsInvariant == Spec => []IInv
<1>1. Init => IInv
  BY InitInvariant
<1>2. IInv /\ [Next]_vars => IInv'
  <2> SUFFICES ASSUME IInv, [Next]_vars PROVE IInv'
    OBVIOUS
  <2>1. CASE is_relative_to
    BY <2>1, IsRelativeInvariant
  <2>2. CASE SkipCommon
    BY <2>2, SkipCommonInvariant
  <2>3. CASE GoUp
    BY <2>3, GoUpInvariant
  <2>4. CASE UNCHANGED vars
    BY <2>4 DEF vars, IInv, Inputs, Consumed, Agree, abs_path,
                PrintedPathResolves, PrintedPathMinimal
  <2> QED
    BY <2>1, <2>2, <2>3, <2>4 DEF Next
<1> QED
  BY <1>1, <1>2, PTL DEF Spec

(* Both loops stay inside the attached directory: neither position nor the *)
(* levels left exceed its parts (is_relative_to, relative_to of utils.c).  *)
THEOREM PathsTypeCorrect == Spec => []TypeOK
<1>1. IInv => TypeOK
  <2> SUFFICES ASSUME IInv PROVE TypeOK
    OBVIOUS
  <2>1. Len(attached_dir) \in Nat
    BY InputShapes DEF IInv, IsAbsolute
  <2> QED
    BY <2>1 DEF IInv, Inputs, Consumed, Parts, TypeOK
<1> QED
  BY <1>1, PathsInvariant, PTL

(* A printed path leads to the file it names, for every work tree, file    *)
(* and attached directory that is not strictly above the work tree.        *)
THEOREM PathsResolve == Spec => []PrintedPathResolves
<1>1. IInv => PrintedPathResolves
  BY DEF IInv
<1> QED
  BY <1>1, PathsInvariant, PTL

(* A printed path leaves no directory that it then enters again.           *)
THEOREM PathsMinimal == Spec => []PrintedPathMinimal
<1>1. IInv => PrintedPathMinimal
  BY DEF IInv
<1> QED
  BY <1>1, PathsInvariant, PTL

-----------------------------------------------------------------------------

\* What the paths of git directories are made of.
GitParts == Parts \cup {Git, Modules}

LEMMA PrefixParts ==
  ASSUME NEW s \in Seq(GitParts), NEW t \in Seq(GitParts)
  PROVE  IsPrefix(s, t) <=> Len(s) <= Len(t) /\ \A j \in 1..Len(s) : s[j] = t[j]
<1> DEFINE l == SubSeq(s, 1, Len(s))
           r == SubSeq(t, 1, Len(s))
<1> SUFFICES ASSUME Len(s) <= Len(t)
             PROVE  l = r <=> \A j \in 1..Len(s) : s[j] = t[j]
  BY DEF IsPrefix
<1>1. /\ l \in Seq(GitParts) /\ Len(l) = Len(s)
      /\ \A j \in 1..Len(s) : l[j] = s[j]
  OBVIOUS
<1>2. /\ r \in Seq(GitParts) /\ Len(r) = Len(s)
      /\ \A j \in 1..Len(s) : r[j] = t[j]
  OBVIOUS
<1> HIDE DEF l, r
<1>3. ASSUME \A j \in 1..Len(s) : s[j] = t[j] PROVE l = r
  BY <1>1, <1>2, <1>3, SeqEqual
<1> QED
  BY <1>1, <1>2, <1>3

LEMMA ConcatParts ==
  ASSUME NEW s \in Seq(GitParts), NEW t \in Seq(GitParts)
  PROVE  /\ s \o t \in Seq(GitParts) /\ Len(s \o t) = Len(s) + Len(t)
         /\ \A j \in 1..Len(s) : (s \o t)[j] = s[j]
         /\ \A j \in 1..Len(t) : (s \o t)[Len(s) + j] = t[j]
  OBVIOUS

(* What is compared: the parts ".git" and "modules", as far as there are   *)
(* parts left.                                                             *)
LEMMA AgreesParts ==
  ASSUME NEW left \in Seq(GitParts)
  PROVE  AgreesWithModules(left) <=>
           /\ Len(left) >= 1 => left[1] = Git
           /\ Len(left) >= 2 => left[2] = Modules
<1> DEFINE both == <<Git, Modules>>
<1>1. both \in Seq(GitParts) /\ Len(both) = 2 /\ both[1] = Git /\ both[2] = Modules
  BY DEF GitParts
<1> HIDE DEF both
<1>2. /\ IsPrefix(left, both) <=>
           Len(left) <= 2 /\ \A j \in 1..Len(left) : left[j] = both[j]
      /\ IsPrefix(both, left) <=>
           2 <= Len(left) /\ \A j \in 1..2 : both[j] = left[j]
  BY <1>1, PrefixParts
<1>3. AgreesWithModules(left) <=> IsPrefix(left, both) \/ IsPrefix(both, left)
  BY DEF AgreesWithModules, both
<1>4. CASE Len(left) >= 2
  <2>1. IsPrefix(left, both) => left[1] = both[1] /\ left[2] = both[2]
    <3>1. 1 \in 1..Len(left) /\ 2 \in 1..Len(left)
      BY <1>4
    <3> QED
      BY <1>2, <3>1
  <2>2. IsPrefix(both, left) <=> left[1] = both[1] /\ left[2] = both[2]
    <3>1. \A j \in 1..2 : j = 1 \/ j = 2
      OBVIOUS
    <3>2. 1 \in 1..2 /\ 2 \in 1..2 /\ 2 <= Len(left)
      BY <1>4
    <3> QED
      BY <1>2, <3>1, <3>2
  <2> QED
    BY <1>1, <1>3, <1>4, <2>1, <2>2
<1>5. CASE Len(left) < 2
  <2>1. Len(left) = 0 \/ Len(left) = 1
    <3> DEFINE n == Len(left)
    <3>1. n \in Nat /\ n < 2
      BY <1>5
    <3> HIDE DEF n
    <3>2. n = 0 \/ n = 1
      BY <3>1
    <3> QED
      BY <3>2 DEF n
  <2>2. ~IsPrefix(both, left)
    BY <1>2, <1>5
  <2>3. IsPrefix(left, both) <=> (Len(left) = 1 => left[1] = both[1])
    BY <1>2, <2>1
  <2> QED
    BY <1>1, <1>3, <1>5, <2>1, <2>2, <2>3
<1> QED
  BY <1>4, <1>5

(* The root found in the path of a git directory is the work tree in which *)
(* the first ".git" lies that is the last part or has modules below it.    *)
LEMMA RootFound ==
  ASSUME NEW dir \in Seq(Parts), Len(dir) >= 1, ~KeepsModules(dir),
         NEW tail \in Seq(GitParts), Len(tail) >= 1, tail[1] = Git,
         Len(tail) >= 2 => tail[2] = Modules
  PROVE  get_root_repo_path(dir \o tail) = dir
<1> DEFINE g == dir \o tail
           left(i) == From(g, i + 1)
           cuts == {i \in 1..Len(g) : AgreesWithModules(left(i))}
<1>1. /\ dir \in Seq(GitParts) /\ g \in Seq(GitParts)
      /\ Len(g) = Len(dir) + Len(tail)
      /\ Len(dir) \in Nat /\ Len(tail) \in Nat
  BY DEF GitParts
<1>2. /\ \A j \in 1..Len(dir) : g[j] = dir[j]
      /\ \A j \in 1..Len(tail) : g[Len(dir) + j] = tail[j]
  BY <1>1
<1> HIDE DEF g
<1>3. ASSUME NEW i \in 1..Len(g)
      PROVE  /\ left(i) \in Seq(GitParts) /\ Len(left(i)) = Len(g) - i
             /\ \A j \in 1..(Len(g) - i) : left(i)[j] = g[i + j]
  BY <1>1 DEF From
<1>4. Len(dir) \in cuts
  <2>1. Len(dir) \in 1..Len(g) /\ Len(g) - Len(dir) = Len(tail)
    BY <1>1
  <2>2. /\ left(Len(dir)) \in Seq(GitParts) /\ Len(left(Len(dir))) = Len(tail)
        /\ \A j \in 1..Len(tail) : left(Len(dir))[j] = tail[j]
    BY <1>2, <1>3, <2>1
  <2> HIDE DEF left
  <2>3. /\ left(Len(dir))[1] = Git
        /\ Len(tail) >= 2 => left(Len(dir))[2] = Modules
    <3>1. 1 \in 1..Len(tail) /\ (Len(tail) >= 2 => 2 \in 1..Len(tail))
      BY <1>1
    <3> QED
      BY <2>2, <3>1
  <2> QED
    BY <2>1, <2>2, <2>3, AgreesParts
<1>5. ASSUME NEW i \in cuts PROVE Len(dir) <= i
  <2> SUFFICES ASSUME i < Len(dir) PROVE FALSE
    BY <1>1
  <2>1. /\ i \in 1..Len(g) /\ i + 1 \in 1..Len(dir) /\ Len(g) - i >= 2
        /\ 1 \in 1..(Len(g) - i) /\ 2 \in 1..(Len(g) - i)
    BY <1>1
  <2>2. left(i)[1] = Git /\ left(i)[2] = Modules
    <3>1. AgreesWithModules(left(i)) /\ left(i) \in Seq(GitParts)
          /\ Len(left(i)) = Len(g) - i
      BY <1>3, <2>1
    <3> HIDE DEF left
    <3> QED
      BY <2>1, <3>1, AgreesParts
  <2>3. left(i)[1] = g[i + 1] /\ left(i)[2] = g[i + 2]
    BY <1>3, <2>1
  <2>4. dir[i + 1] = Git
    BY <1>2, <2>1, <2>2, <2>3
  <2>5. CASE i + 2 <= Len(dir)
    <3>1. i + 1 \in 1..Len(dir) - 1 /\ i + 2 \in 1..Len(dir) /\ (i + 1) + 1 = i + 2
      BY <1>1, <2>1, <2>5
    <3>2. dir[i + 2] = Modules
      BY <1>2, <2>2, <2>3, <3>1
    <3> QED
      BY <2>4, <3>1, <3>2 DEF KeepsModules
  <2>6. CASE i + 2 = Len(dir) + 1
    <3>1. g[i + 2] = tail[1]
      BY <1>1, <1>2, <2>6
    <3> QED
      BY <2>2, <2>3, <3>1, GitAssumption
  <2> QED
    BY <1>1, <2>1, <2>5, <2>6
<1>6. (CHOOSE i \in cuts : \A j \in cuts : i <= j) = Len(dir)
  <2>1. \A i \in cuts : i \in Nat
    OBVIOUS
  <2> HIDE DEF cuts
  <2>2. \A i \in cuts : (\A j \in cuts : i <= j) => i = Len(dir)
    BY <1>1, <1>4, <1>5, <2>1
  <2> QED
    BY <1>4, <1>5, <2>2
<1>7. get_root_repo_path(g) = SubSeq(g, 1, Len(dir))
  BY <1>6 DEF get_root_repo_path
<1>8. SubSeq(g, 1, Len(dir)) = dir
  <2> DEFINE d == SubSeq(g, 1, Len(dir))
  <2>1. /\ d \in Seq(GitParts) /\ Len(d) = Len(dir)
        /\ \A j \in 1..Len(dir) : d[j] = g[j]
    BY <1>1
  <2> HIDE DEF d
  <2>2. d = dir
    BY <1>1, <1>2, <2>1, SeqEqual
  <2> QED
    BY <2>2 DEF d
<1> QED
  BY <1>7, <1>8 DEF g

(* Started in a repository or in a submodule, whatever its depth, the      *)
(* dashboard follows the shell everywhere in the outermost work tree, and  *)
(* nowhere else.                                                           *)
THEOREM PathsFollowOutermost == Spec => []FollowsOutermost
<1>1. IInv => FollowsOutermost
  <2> SUFFICES ASSUME IInv, ~KeepsModules(git_dir),
                      NEW name \in Names, NEW inner \in Names,
                      NEW gitdir \in {Plain(git_dir),
                                      Submodule(Plain(git_dir), name),
                                      Submodule(Submodule(Plain(git_dir), name),
                                                inner)}
               PROVE  get_root_repo_path(gitdir) = git_dir
    BY DEF FollowsOutermost, Followed
  <2>1. git_dir \in Seq(Parts) /\ Len(git_dir) >= 1
    BY InputShapes DEF IInv, IsAbsolute
  <2> DEFINE t1 == <<Git>>
             m2 == <<Modules, name>>
             m3 == <<Modules, inner>>
             t2 == t1 \o m2
             t3 == t2 \o m3
  <2>2. /\ t1 \in Seq(GitParts) /\ Len(t1) = 1 /\ t1[1] = Git
        /\ m2 \in Seq(GitParts) /\ Len(m2) = 2 /\ m2[1] = Modules
        /\ m3 \in Seq(GitParts) /\ Len(m3) = 2
    BY DEF GitParts, Parts
  <2> HIDE DEF t1, m2, m3
  <2>3. t2 \in Seq(GitParts) /\ Len(t2) = 3 /\ t2[1] = Git /\ t2[2] = Modules
    <3>1. /\ t2 \in Seq(GitParts) /\ Len(t2) = 1 + 2
          /\ t2[1] = t1[1] /\ t2[1 + 1] = m2[1]
      <4>1. 1 \in 1..1 /\ 1 \in 1..2
        OBVIOUS
      <4> QED
        BY <2>2, <4>1, ConcatParts
    <3> QED
      BY <2>2, <3>1
  <2> HIDE DEF t2
  <2>4. t3 \in Seq(GitParts) /\ Len(t3) = 5 /\ t3[1] = Git /\ t3[2] = Modules
    <3>1. /\ t3 \in Seq(GitParts) /\ Len(t3) = 3 + 2
          /\ t3[1] = t2[1] /\ t3[2] = t2[2]
      <4>1. /\ t3 \in Seq(GitParts) /\ Len(t3) = Len(t2) + Len(m3)
            /\ \A j \in 1..Len(t2) : t3[j] = t2[j]
        BY <2>2, <2>3, ConcatParts
      <4>2. 1 \in 1..3 /\ 2 \in 1..3
        OBVIOUS
      <4> HIDE DEF t3
      <4> QED
        BY <2>2, <2>3, <4>1, <4>2
    <3> QED
      BY <2>3, <3>1
  <2> HIDE DEF t3
  <2>5. PICK tail \in {t1, t2, t3} : gitdir = git_dir \o tail
    <3>1. git_dir \in Seq(GitParts)
      BY <2>1 DEF GitParts
    <3>2. Plain(git_dir) = git_dir \o t1
      BY DEF Plain, t1
    <3>3. Submodule(Plain(git_dir), name) = git_dir \o t2
      BY <2>2, <3>1, <3>2, ConcatAssociative DEF Submodule, t2, m2
    <3>4. Submodule(Submodule(Plain(git_dir), name), inner) = git_dir \o t3
      <4>1. Submodule(Submodule(Plain(git_dir), name), inner)
              = (git_dir \o t2) \o m3
        BY <3>3 DEF Submodule, m3
      <4>2. git_dir \o t3 = git_dir \o (t2 \o m3)
        BY DEF t3
      <4>3. (git_dir \o t2) \o m3 = git_dir \o (t2 \o m3)
        BY <2>2, <2>3, <3>1, ConcatAssociative
      <4> QED
        BY <4>1, <4>2, <4>3, Zenon
    <3> QED
      BY <3>2, <3>3, <3>4
  <2>6. /\ tail \in Seq(GitParts) /\ Len(tail) >= 1 /\ tail[1] = Git
        /\ Len(tail) >= 2 => tail[2] = Modules
    BY <2>2, <2>3, <2>4
  <2> QED
    BY <2>1, <2>5, <2>6, RootFound
<1> QED
  BY <1>1, PathsInvariant, PTL

=============================================================================
