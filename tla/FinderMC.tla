------------------------------- MODULE FinderMC -------------------------------
(* A directory in the root, one in that, and a file in each. *)
EXTENDS Finder

Dirs  == {"root", "a", "b"}
Files == {"f", "g"}
Parents == [h \in Dirs \cup Files |->
    CASE h = "root" -> "none" [] h \in {"a", "g"} -> "root" [] h \in {"b", "f"} -> "a"]
SmallDirs == {"root", "a"}
SmallFiles == {"f"}
SmallParents == [h \in SmallDirs \cup SmallFiles |->
    CASE h = "root" -> "none" [] h = "a" -> "root" [] h = "f" -> "a"]
=============================================================================
