------------------------------- MODULE Roots -------------------------------
(***************************************************************************)
(* Which directories a dashboard follows the attached shell to:            *)
(* get_root_repo_path of src/dashboard.c finds the root in the path of the *)
(* git directory, and is_relative_to (Paths) accepts what is below it.     *)
(*                                                                         *)
(* Paths are those of module Paths.  Where git puts the git directory of a *)
(* repository is external.                                                 *)
(***************************************************************************)
EXTENDS Paths, SequencesExt

CONSTANTS
  Git,       \* ".git"
  Modules    \* "modules"

ASSUME GitAssumption == Git # Modules /\ Git # Empty /\ Modules # Empty

-----------------------------------------------------------------------------

\* What follows a slash is compared with ".git/modules/" no further than the
\* shorter of the two goes; a git directory's path ends in a slash, so what
\* is left of it is compared in whole parts.
AgreesWithModules(left) ==
  IsPrefix(left, <<Git, Modules>>) \/ IsPrefix(<<Git, Modules>>, left)

(* Plausible bug: the search goes on to the last match.                    *)
LastRepoPath(gitdir) ==
  LET cuts == {i \in 1..Len(gitdir) : AgreesWithModules(From(gitdir, i + 1))}
  IN  SubSeq(gitdir, 1, CHOOSE i \in cuts : \A j \in cuts : j <= i)

\* The path up to the first slash that matches: the trailing one does.
get_root_repo_path(gitdir) ==
  LET cuts == {i \in 1..Len(gitdir) : AgreesWithModules(From(gitdir, i + 1))}
  IN  SubSeq(gitdir, 1, CHOOSE i \in cuts : \A j \in cuts : i <= j)

\* is_relative_to(directory, root), see PrintedPathResolves.
Followed(directory, gitdir) == IsPrefix(get_root_repo_path(gitdir), directory)

-----------------------------------------------------------------------------

\* A repository in its work tree, its submodules and their submodules.
Plain(work_tree) == work_tree \o <<Git>>
Submodule(gitdir, name) == gitdir \o <<Modules, name>>

\* A directory in which git keeps submodules, or one below it.
KeepsModules(dir) ==
  \E i \in 1..Len(dir) - 1 : dir[i] = Git /\ dir[i + 1] = Modules

(* Started in a repository or in a submodule, whatever its depth, the      *)
(* dashboard follows the shell everywhere in the outermost work tree, and  *)
(* nowhere else.  (A work tree someone put where git keeps submodules      *)
(* would itself be taken for one.)                                         *)
FollowsOutermost ==
  ~KeepsModules(git_dir) =>
    \A name, inner \in Names :
      LET outer == Plain(git_dir)
          sub == Submodule(outer, name)
      IN  \A gitdir \in {outer, sub, Submodule(sub, inner)} :
            Followed(attached_dir, gitdir) <=> IsPrefix(git_dir, attached_dir)

=============================================================================
