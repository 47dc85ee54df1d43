------------------------------- MODULE Paths -------------------------------
(***************************************************************************)
(* How a changed file's name is printed: format_path of src/dashboard.c    *)
(* with the is_relative_to and relative_to of src/utils.c it calls.        *)
(*                                                                         *)
(* A path is the sequence of its parts.  An absolute path starts with the  *)
(* empty part before its first slash; a trailing slash adds no part.  The  *)
(* loops advance in two strings at once, one part per iteration, so one    *)
(* counter stands for both positions, and a string that is used up goes on *)
(* comparing like the empty part.                                          *)
(***************************************************************************)
EXTENDS Naturals, Sequences

CONSTANTS
  Names,      \* names of directories and files
  Empty,      \* the part before the leading slash
  MaxDepth    \* bound: parts below the root directory

ASSUME NamesAssumption == Empty \notin Names
ASSUME DepthAssumption == MaxDepth \in Nat

VARIABLES
  git_dir,        \* the repository's work tree
  path,           \* the file, relative to git_dir
  attached_dir,   \* the directory to print relative to
  phase,          \* "is_relative_to", "common", "up" or "done"
  parts,          \* parts the current loop consumed
  ups,            \* "../" written so far
  rest            \* the parts written after them; none prints as "."

vars == <<git_dir, path, attached_dir, phase, parts, ups, rest>>

inputs == <<git_dir, path, attached_dir>>

Relative == UNION {[1..n -> Names] : n \in 0..MaxDepth}
Absolute == {<<Empty>> \o p : p \in Relative}

TypeOK ==
  /\ git_dir \in Absolute
  /\ path \in Relative
  /\ attached_dir \in Absolute
  /\ phase \in {"is_relative_to", "common", "up", "done"}
  /\ parts \in 0..Len(attached_dir)
  /\ ups \in 0..Len(attached_dir)
  /\ rest \in Seq(Names \cup {Empty})

-----------------------------------------------------------------------------

PartAt(p, i) == IF i <= Len(p) THEN p[i] ELSE Empty

From(p, i) == SubSeq(p, i, Len(p))

join_paths(a, b) == a \o b

Init ==
  /\ git_dir \in Absolute
  /\ path \in Relative \ {<<>>}
  /\ attached_dir \in Absolute
  /\ phase = "is_relative_to"
  /\ parts = 0
  /\ ups = 0
  /\ rest = <<>>

\* is_relative_to(git_dir, attached_dir): one iteration of its loop, or the
\* return.  If git_dir is under attached_dir the path is copied as it is.
is_relative_to ==
  /\ phase = "is_relative_to"
  /\ \/ /\ parts < Len(attached_dir)
        /\ PartAt(git_dir, parts + 1) = attached_dir[parts + 1]
        /\ parts' = parts + 1
        /\ UNCHANGED <<phase, rest>>
     \/ /\ parts < Len(attached_dir)
        /\ PartAt(git_dir, parts + 1) # attached_dir[parts + 1]
        /\ parts' = 0
        /\ phase' = "common"
        /\ UNCHANGED rest
     \/ /\ parts = Len(attached_dir)
        /\ phase' = "done"
        /\ rest' = path
        /\ UNCHANGED parts
  /\ UNCHANGED <<inputs, ups>>

(* Plausible bugs: the loop does not look whether the directory is used    *)
(* up; it stops before the directory's last part.                          *)
SkipCommonUnguarded ==
  LET abs_path == join_paths(git_dir, path)
  IN  /\ phase = "common"
      /\ IF PartAt(abs_path, parts + 1) = PartAt(attached_dir, parts + 1)
         THEN parts' = parts + 1 /\ UNCHANGED phase
         ELSE phase' = "up" /\ UNCHANGED parts
      /\ UNCHANGED <<inputs, ups, rest>>

SkipCommonShort ==
  LET abs_path == join_paths(git_dir, path)
  IN  /\ phase = "common"
      /\ IF /\ parts + 1 < Len(attached_dir)
            /\ PartAt(abs_path, parts + 1) = attached_dir[parts + 1]
         THEN parts' = parts + 1 /\ UNCHANGED phase
         ELSE phase' = "up" /\ UNCHANGED parts
      /\ UNCHANGED <<inputs, ups, rest>>

\* relative_to(join_paths(git_dir, path), attached_dir): skip the parts the
\* two have in common.
SkipCommon ==
  LET abs_path == join_paths(git_dir, path)
  IN  /\ phase = "common"
      /\ IF /\ parts < Len(attached_dir)
            /\ PartAt(abs_path, parts + 1) = attached_dir[parts + 1]
         THEN parts' = parts + 1 /\ UNCHANGED phase
         ELSE phase' = "up" /\ UNCHANGED parts
      /\ UNCHANGED <<inputs, ups, rest>>

(* Plausible bug: the directory itself counts as a level to leave.         *)
GoUpOnceMore ==
  /\ phase = "up"
  /\ IF parts + ups <= Len(attached_dir)
     THEN ups' = ups + 1 /\ UNCHANGED <<phase, rest>>
     ELSE /\ phase' = "done"
          /\ rest' = From(join_paths(git_dir, path), parts + 1)
          /\ UNCHANGED ups
  /\ UNCHANGED <<inputs, parts>>

\* One "../" for every part of attached_dir that is left, then the rest.
GoUp ==
  /\ phase = "up"
  /\ IF parts + ups < Len(attached_dir)
     THEN ups' = ups + 1 /\ UNCHANGED <<phase, rest>>
     ELSE /\ phase' = "done"
          /\ rest' = From(join_paths(git_dir, path), parts + 1)
          /\ UNCHANGED ups
  /\ UNCHANGED <<inputs, parts>>

Next == is_relative_to \/ SkipCommon \/ GoUp

Spec == Init /\ [][Next]_vars

-----------------------------------------------------------------------------

\* The directory a shell in `dir` reaches by "../" ups times and then `down`.
Resolve(dir, up, down) == SubSeq(dir, 1, Len(dir) - up) \o down

Above(a, b) == Len(a) < Len(b) /\ a = SubSeq(b, 1, Len(a))

(* What is printed names the file: followed from the attached directory it *)
(* leads to the file in the work tree, unless that directory is strictly   *)
(* above the work tree: there the path stays relative to the work tree,    *)
(* although attach promises paths "relative to its cwd" (main.c:12).       *)
PrintedPathResolves ==
  phase = "done" /\ ~Above(attached_dir, git_dir) =>
    Resolve(attached_dir, ups, rest) = join_paths(git_dir, path)

(* No more is printed than needed: a path that leaves a directory does not *)
(* come back into it.                                                      *)
PrintedPathMinimal ==
  phase = "done" /\ ups > 0 =>
    LET left == Len(attached_dir) - ups + 1
    IN  PartAt(rest, 1) # attached_dir[left]

=============================================================================
