------------------------------ MODULE FileTree ------------------------------
(***************************************************************************)
(* File trees, local and remote, and the shell commands DEVMaid runs on    *)
(* the remote one (SshManager.scala, RichSshClient.scala).  A path is the  *)
(* sequence of names that leads to it from the source root; the same       *)
(* sequence leads from the destination root to its remote copy, because    *)
(* addToWatched relativises against the source root and joinPath prepends  *)
(* the destination root.                                                   *)
(***************************************************************************)
EXTENDS Naturals, Sequences, FiniteSets, SequencesExt

CONSTANTS
    Name,       \* the names of files and directories
    Path,       \* the paths that may ever exist, <<>> (the root) included
    Content     \* what a file may hold

Root == <<>>

Absent == "absent"  \* nothing has this path
Dir    == "dir"     \* a directory has it
Torn   == "torn"    \* a file has it, truncated or holding part of an upload

\* Paths are closed under taking the parent, as paths in a tree are.
ASSUME PathAssumption ==
    /\ Path \subseteq Seq(Name)
    /\ Root \in Path
    /\ \A p \in Path : p # Root => Len(p) > 0 /\ Front(p) \in Path

ASSUME ContentAssumption == {Absent, Dir, Torn} \cap Content = {}

Entry == {Absent, Dir, Torn} \cup Content
Tree  == [Path -> Entry]

Parent(p)      == Front(p)
Below(d)       == {p \in Path : IsPrefix(d, p)}     \* d and all it contains
Upto(p)        == {d \in Path : IsPrefix(d, p)}     \* p and all that contain it
Children(t, d) == {p \in Path : p # Root /\ Parent(p) = d /\ t[p] # Absent}

IsFile(t, p)      == t[p] \in Content \cup {Torn}
IsDirectory(t, p) == t[p] = Dir

-----------------------------------------------------------------------------
\* The remote commands.

\* rm -rf d: succeeds whether or not d exists.
RmRf(t, d) == [p \in Path |-> IF p \in Below(d) THEN Absent ELSE t[p]]

\* mkdir -p d: fails when d, or a directory it needs, is a file.
CanMkdirP(t, d) == \A a \in Upto(d) : ~IsFile(t, a)
MkdirP(t, d)    == [p \in Path |-> IF p \in Upto(d) THEN Dir ELSE t[p]]

\* cat > p: p holds c; fails when p is a directory, or lies in none.
CanCatTo(t, p) == IsDirectory(t, Parent(p)) /\ ~IsDirectory(t, p)
CatTo(t, p, c) == [t EXCEPT ![p] = c]

\* A tree in which every entry lies in a directory, the root being one.
WellFormed(t) ==
    /\ t[Root] = Dir
    /\ \A p \in Path \ {Root} : t[p] # Absent => t[Parent(p)] = Dir
=============================================================================
