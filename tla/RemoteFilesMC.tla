---------------------------- MODULE RemoteFilesMC ----------------------------
(***************************************************************************)
(* Small remote trees and their requests for the model checker.  In the    *)
(* first the file has the name of its directory, so that one search finds  *)
(* both; in the second one file has a name that begins the other's.        *)
(***************************************************************************)
EXTENDS RemoteFiles

SmallVolume == <<"r">>

d == <<"n">>
x == <<"n", "n">>

SmallPath == {Root, d, x} \cup {SmallVolume} \cup {SmallVolume \o p : p \in {d, x}}

OnlyD == [p \in Path |-> IF p \in {Root, d} THEN Dir ELSE Absent]

WithX == [p \in Path |-> IF p = x THEN "c" ELSE OnlyD[p]]

\* The directory is removed, or its file is still to come.
Trees    == {WithX}
Removals == {[path |-> d, entry |-> Absent]}
NewTrees == {OnlyD}
Uploads  == {[path |-> x, entry |-> "c"]}

Ask(cmd, target) == [cmd |-> cmd, target |-> target, name |-> "n"]

Requests == {
    Ask("open", Dirc(d)), Ask("parents", Dirc(d)), Ask("search", RootItem),
    Ask("file", File(x)), Ask("put", File(x)), Ask("paste", Dirc(d))}

a  == <<"a">>
ab == <<"ab">>

PrefixPath == {Root, a, ab, SmallVolume, SmallVolume \o ab}

BothFiles == [p \in Path |-> IF p = Root THEN Dir ELSE IF p \in {a, ab} THEN "c" ELSE Absent]

PrefixTrees    == {BothFiles}
PrefixRequests == {Ask("file", File(ab)), Ask("open", RootItem)}
NamePrefixes   == {<<"a", "ab">>}
=============================================================================
