----------------------------- MODULE SourceRoots -----------------------------
(***************************************************************************)
(* How DEVMaid reads its configuration and finds the source root that a    *)
(* path belongs to: Configuration.scala (the checks on load, and the search *)
(* by substring for every event) and the path functions of Util.scala.     *)
(* The code works on strings and its substring tests do not respect the    *)
(* borders of names, so a path is a sequence of tokens: Slash, or a piece   *)
(* of a name.                                                              *)
(***************************************************************************)
EXTENDS Integers, Sequences, FiniteSets, SequencesExt

CONSTANTS
    Piece,      \* pieces of names; adjacent ones make a longer name
    Slash,      \* the separator
    Roots,      \* the strings a source root may be configured as
    EventPaths, \* the paths of events, normal as java.nio.file.Path makes them
    Filters,    \* the strings of fileTypesToBeIgnored
    MaxRoots    \* BOUND: source roots in a configuration

Token == Piece \cup {Slash}

ASSUME SlashAssumption == Slash \notin Piece
ASSUME StringsAssumption ==
    /\ Roots \subseteq Seq(Token) \ {<<>>}
    /\ EventPaths \subseteq Seq(Token)
    /\ Filters \subseteq Seq(Token)
ASSUME NormalAssumption ==
    \A p \in EventPaths : \A i \in 1 .. Len(p) - 1 : p[i + 1] = Slash => p[i] # Slash
ASSUME MaxRootsAssumption == MaxRoots \in Nat

VARIABLES
    sourceRoots,      \* as configured
    destinations,     \* how many destinationRoots there are
    stage,            \* "file", "loaded" or "rejected"
    path,             \* the path of the last event
    sourceIndex       \* what the search for its root found

rootVars == <<sourceRoots, destinations, stage, path, sourceIndex>>

-----------------------------------------------------------------------------
\* String.contains and the test for its last or first character.
contains(s, t) ==
    \E i \in 0 .. Len(s) - Len(t) : \A j \in 1 .. Len(t) : s[i + j] = t[j]

StartsWithSlash(s) == s # <<>> /\ s[1] = Slash
EndsWithSlash(s)   == s # <<>> /\ s[Len(s)] = Slash

\* MUTANT: the first root in place of the last.
searchForFirst(roots, p) ==
    LET found == {i \in DOMAIN roots : contains(p, roots[i])}
    IN  IF found = {} THEN -1
        ELSE (CHOOSE i \in found : \A k \in found : k >= i) - 1

\* The last root that occurs anywhere in the path, counted from 0; -1 if none.
searchForSourceIndex(roots, p) ==
    LET found == {i \in DOMAIN roots : contains(p, roots[i])}
    IN  IF found = {} THEN -1
        ELSE (CHOOSE i \in found : \A k \in found : k <= i) - 1

\* MUTANT: a slash after every root, even after one that ends with one.
containsAsDirectory(roots) ==
    \E x, y \in ToSet(roots) : x # y /\ contains(Append(x, Slash), Append(y, Slash))

\* Roots that are the same string are not compared.
containsOverlapping(roots) ==
    \E x, y \in ToSet(roots) : x # y /\ (contains(x, y) \/ contains(y, x))

Acceptable(roots, nDestinations) ==
    Len(roots) = nDestinations /\ ~containsOverlapping(roots)

\* fakePathIfNeeded puts a slash before s only when there is one after it.
fakePathIfNeeded(s) ==
    IF ~EndsWithSlash(s) THEN Append(s, Slash)
    ELSE IF StartsWithSlash(s) THEN s ELSE <<Slash>> \o s

isYSubDirectoryOfX(x, y) == contains(fakePathIfNeeded(x), fakePathIfNeeded(y))

\* MUTANT: no slash put between a name and a name.
joinWithoutSlash(p1, p2) ==
    IF EndsWithSlash(p1) /\ StartsWithSlash(p2) THEN p1 \o Tail(p2) ELSE p1 \o p2

\* joinPath, but for the "./" it strips, which no relativised path begins with.
joinPath(p1, p2) ==
    IF p1 = <<>> THEN p2
    ELSE IF EndsWithSlash(p1) /\ StartsWithSlash(p2) THEN p1 \o Tail(p2)
    ELSE IF EndsWithSlash(p1) \/ StartsWithSlash(p2) THEN p1 \o p2
    ELSE Append(p1, Slash) \o p2

-----------------------------------------------------------------------------
\* What the file system makes of a string: repeated slashes and one at the end
\* mean nothing.
Normal(s) ==
    LET join(t, u) == IF u = Slash /\ EndsWithSlash(t) THEN t ELSE Append(t, u)
        single     == FoldLeft(join, <<>>, s)
    IN  IF EndsWithSlash(single) THEN Front(single) ELSE single

\* p lies in the directory that s names.
LiesIn(p, s) == IsStrictPrefix(Append(Normal(s), Slash), p)

\* s has no repeated slash; it may have one at the end.
Names(s) == Normal(s) = s \/ (EndsWithSlash(s) /\ Normal(s) = Front(s))

-----------------------------------------------------------------------------
RootsInit ==
    /\ sourceRoots \in UNION {[1 .. n -> Roots] : n \in 1 .. MaxRoots}
    /\ destinations \in 1 .. MaxRoots
    /\ stage = "file"
    /\ path = <<>>
    /\ sourceIndex = -1

\* Configuration.load
Load ==
    /\ stage = "file"
    /\ stage' = IF Acceptable(sourceRoots, destinations) THEN "loaded" ELSE "rejected"
    /\ UNCHANGED <<sourceRoots, destinations, path, sourceIndex>>

\* FileWatcher: the root of an event's path is searched for.  Events come from
\* the directories that were registered, those in the source roots.
\* BOUND: one event, as the search keeps nothing of it.
FindRoot(p) ==
    /\ stage = "loaded" /\ path = <<>>
    /\ \E r \in ToSet(sourceRoots) : LiesIn(p, r)
    /\ path' = p
    /\ sourceIndex' = searchForSourceIndex(sourceRoots, p)
    /\ UNCHANGED <<sourceRoots, destinations, stage>>

RootsNext == Load \/ \E p \in EventPaths : FindRoot(p)

RootsSpec == RootsInit /\ [][RootsNext]_rootVars
-----------------------------------------------------------------------------
(***************************************************************************)
(* Properties.                                                             *)
(***************************************************************************)

RootsTypeOK ==
    /\ sourceRoots \in Seq(Roots)
    /\ destinations \in 1 .. MaxRoots
    /\ stage \in {"file", "loaded", "rejected"}
    /\ path \in EventPaths \cup {<<>>}
    /\ sourceIndex \in -1 .. MaxRoots - 1

Loaded   == stage = "loaded"
Routing  == Loaded /\ path # <<>>
Clean    == \A r \in ToSet(sourceRoots) : Names(r)
Distinct == \A i, k \in DOMAIN sourceRoots : i # k => sourceRoots[i] # sourceRoots[k]

\* The roots that the path lies in, counted from 0.
Owners(p) == {i - 1 : i \in {k \in DOMAIN sourceRoots : LiesIn(p, sourceRoots[k])}}

\* What the code's check on load is for: when every root is spelled without a
\* repeated slash and no root is repeated, no path lies in two of them.
DistinctRootsDisjoint ==
    Routing /\ Clean /\ Distinct => Cardinality(Owners(path)) <= 1

\* For such roots the search always finds one, never one before the owner, and
\* so the right one for the paths in the last root.
CleanRootsFound ==
    Routing /\ Clean => \A i \in Owners(path) : sourceIndex >= i

\* A filter that matches a directory of the path, whatever its string, matches
\* the path.
IgnoredCloses ==
    Routing => \A y \in Filters, n \in 1 .. Len(path) - 1 :
        path[n + 1] = Slash /\ isYSubDirectoryOfX(SubSeq(path, 1, n), y) =>
            isYSubDirectoryOfX(path, y)

\* joinPath neither loses a name nor makes two of one, however the root is
\* spelled.
JoinPathJoins ==
    Routing => \A r \in ToSet(sourceRoots) :
        /\ Normal(joinPath(r, path)) = Normal(r) \o path
        /\ Normal(joinPath(r, Tail(path))) = Normal(r) \o path

\* What isToBeWatched and the handlers do with the slashes of a path: whatever
\* lies in an ignored directory is ignored, and the remote copy lies in the
\* destination root.
PathsHold == IgnoredCloses /\ JoinPathJoins
=============================================================================
