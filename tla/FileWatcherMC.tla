---------------------------- MODULE FileWatcherMC ----------------------------
(* Small source trees for the model checker. *)
EXTENDS FileWatcher

d == <<"d">>
e == <<"d", "e">>
i == <<"d", "e", "i">>
g == <<"d", "g">>
f == <<"f">>
h == <<"h">>

\* Any path but the root may be a file, a directory or nothing.
DeepPath   == {Root, d, e, i}
NestedPath == {Root, d, g}
FlatPath   == {Root, f, h}

\* The innermost path is ignored, in directories that are not.
OnlyI == {i}

Symmetry == Permutations(Content)
==============================================================================
