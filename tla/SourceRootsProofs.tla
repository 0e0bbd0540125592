-------------------------- MODULE SourceRootsProofs --------------------------
(***************************************************************************)
(* Proofs about SourceRoots, for all strings that roots, paths and filters *)
(* may be: what the check on load and the search by substring guarantee,   *)
(* and that a filter that matches a directory matches what lies in it.     *)
(***************************************************************************)
EXTENDS SourceRoots, IntervalTheorems, SequenceTheorems, FiniteSetTheorems, TLAPS

-----------------------------------------------------------------------------
(***************************************************************************)
(* The inductive invariant.                                                *)
(***************************************************************************)

\* There are at least one root and at most so many.
RootsFit == Len(sourceRoots) \in 1 .. MaxRoots

\* What is used was accepted.
UsedWasAccepted == Loaded => Acceptable(sourceRoots, destinations)

\* The index is what the search finds for the path of the event.
IndexIsFound ==
    path # <<>> => sourceIndex = searchForSourceIndex(sourceRoots, path)

RootsInv == RootsTypeOK /\ RootsFit /\ UsedWasAccepted /\ IndexIsFound

-----------------------------------------------------------------------------
(***************************************************************************)
(* Strings.                                                                *)
(***************************************************************************)

\* p begins with s.
Begins(p, s) == Len(s) <= Len(p) /\ \A j \in 1 .. Len(s) : p[j] = s[j]

\* A string that another one begins with is contained in it.
LEMMA BeginningIsContained ==
    ASSUME NEW p \in Seq(Token), NEW s \in Seq(Token), Begins(p, s)
    PROVE  contains(p, s)
<1>1. 0 \in 0 .. Len(p) - Len(s)
  BY DEF Begins
<1>2. \A j \in 1 .. Len(s) : p[0 + j] = s[j]
  BY DEF Begins
<1> QED BY <1>1, <1>2 DEF contains

\* Of two strings that a third begins with, one contains the other.
LEMMA BeginningsOverlap ==
    ASSUME NEW p \in Seq(Token), NEW s \in Seq(Token), NEW t \in Seq(Token),
           Begins(p, s), Begins(p, t)
    PROVE  contains(s, t) \/ contains(t, s)
<1>1. CASE Len(s) <= Len(t)
  <2>1. Begins(t, s)
    BY <1>1 DEF Begins
  <2> QED BY <2>1, BeginningIsContained
<1>2. CASE ~(Len(s) <= Len(t))
  <2>1. Begins(s, t)
    BY <1>2 DEF Begins
  <2> QED BY <2>1, BeginningIsContained
<1> QED BY <1>1, <1>2

\* IsPrefix says so too.
LEMMA PrefixBegins ==
    ASSUME NEW p \in Seq(Token), NEW s \in Seq(Token), IsPrefix(s, p)
    PROVE  Begins(p, s)
<1>1. Len(s) \in Nat /\ Len(p) \in Nat /\ Len(s) <= Len(p)
      /\ SubSeq(s, 1, Len(s)) = SubSeq(p, 1, Len(s))
  BY DEF IsPrefix
<1>2. ASSUME NEW j \in 1 .. Len(s) PROVE p[j] = s[j]
  <2>1. SubSeq(s, 1, Len(s))[j] = s[j]
    BY <1>1, <1>2
  <2>2. SubSeq(p, 1, Len(s))[j] = p[j]
    BY <1>1, <1>2
  <2> QED BY <1>1, <2>1, <2>2
<1> QED BY <1>1, <1>2 DEF Begins

\* A root that is spelled without a repeated slash is what the file system makes of
\* it, or that with a slash.
LEMMA NameOfRoot ==
    ASSUME NEW r \in Seq(Token), Names(r)
    PROVE  /\ Normal(r) \in Seq(Token)
           /\ r = Normal(r) \/ r = Append(Normal(r), Slash)
<1>1. CASE Normal(r) = r
  BY <1>1
<1>2. CASE EndsWithSlash(r) /\ Normal(r) = Front(r)
  <2>1. Len(r) \in Nat \ {0} /\ r[Len(r)] = Slash
    BY <1>2 DEF EndsWithSlash
  <2> DEFINE n == Len(r) - 1
             f == SubSeq(r, 1, n)
  <2>2. n \in Nat /\ Len(r) = n + 1
    BY <2>1
  <2>3. f \in Seq(Token) /\ Len(f) = n /\ \A j \in 1 .. n : f[j] = r[j]
    BY <2>2
  <2>4. Slash \in Token
    BY DEF Token
  <2> HIDE DEF f, n
  <2>5. Append(f, Slash) \in Seq(Token) /\ Len(Append(f, Slash)) = n + 1
        /\ (\A j \in 1 .. n : Append(f, Slash)[j] = f[j]) /\ Append(f, Slash)[n + 1] = Slash
    BY <2>3, <2>4, AppendProperties
  <2>6. \A j \in 1 .. n + 1 : Append(f, Slash)[j] = r[j]
    BY <2>1, <2>2, <2>3, <2>5
  <2>7. Append(f, Slash) = r
    BY <2>2, <2>5, <2>6
  <2>8. Normal(r) = f
    BY <1>2 DEF Front, f, n
  <2> QED BY <2>3, <2>7, <2>8
<1> QED BY <1>1, <1>2 DEF Names

\* A path that lies in such a root begins with its string.
LEMMA PathBeginsWithRoot ==
    ASSUME NEW r \in Seq(Token), NEW p \in Seq(Token), Names(r), LiesIn(p, r)
    PROVE  Begins(p, r)
<1> DEFINE n == Normal(r)
           s == Append(n, Slash)
<1>1. n \in Seq(Token) /\ (r = n \/ r = s) /\ Slash \in Token
  BY NameOfRoot DEF Token
<1> HIDE DEF n
<1>2. s \in Seq(Token) /\ Len(s) = Len(n) + 1 /\ \A j \in 1 .. Len(n) : s[j] = n[j]
  BY <1>1, AppendProperties
<1>3. IsPrefix(s, p)
  BY DEF LiesIn, IsStrictPrefix, n
<1> HIDE DEF s
<1>4. Begins(p, s)
  BY <1>2, <1>3, PrefixBegins
<1>5. CASE r = s
  BY <1>4, <1>5
<1>6. CASE r = n
  <2>1. Len(n) \in Nat /\ Len(p) \in Nat
    BY <1>1
  <2> QED BY <1>2, <1>4, <1>6, <2>1 DEF Begins
<1> QED BY <1>1, <1>5, <1>6

-----------------------------------------------------------------------------
(***************************************************************************)
(* The search.                                                             *)
(***************************************************************************)

\* The index that the search returns is that of the last root that occurs in the
\* path, and -1 if none does.
LEMMA SearchFindsLast ==
    ASSUME NEW roots, NEW p, DOMAIN roots = 1 .. Len(roots), Len(roots) \in Nat
    PROVE  /\ searchForSourceIndex(roots, p) \in -1 .. Len(roots) - 1
           /\ \A i \in DOMAIN roots :
                 contains(p, roots[i]) => searchForSourceIndex(roots, p) >= i - 1
<1> DEFINE n     == Len(roots)
           found == {i \in DOMAIN roots : contains(p, roots[i])}
           m     == Max(found)
<1>1. CASE found = {}
  <2>1. searchForSourceIndex(roots, p) = -1
    BY <1>1 DEF searchForSourceIndex
  <2> QED BY <1>1, <2>1
<1>2. CASE found # {}
  <2>1. found \in SUBSET (1 .. n) /\ n \in Int /\ 1 \in Int
    OBVIOUS
  <2>2. m \in found /\ \A k \in found : m >= k
    <3> HIDE DEF found, n
    <3> QED BY <1>2, <2>1, MaxOf
  <2> DEFINE c == CHOOSE i \in found : \A k \in found : k <= i
  <2>3. c \in found /\ \A k \in found : k <= c
    <3>1. \A k \in found : k <= m
      BY <2>1, <2>2
    <3> HIDE DEF found, m
    <3> QED BY <2>2, <3>1
  <2>4. searchForSourceIndex(roots, p) = c - 1
    BY <1>2 DEF searchForSourceIndex
  <2> HIDE DEF c, m
  <2>5. c \in 1 .. n
    BY <2>1, <2>3
  <2>6. ASSUME NEW i \in DOMAIN roots, contains(p, roots[i]) PROVE c - 1 >= i - 1
    <3>1. i \in found /\ i \in Int
      BY <2>6
    <3>2. i <= c
      BY <2>3, <3>1
    <3> QED BY <2>5, <3>1, <3>2
  <2> QED BY <2>4, <2>5, <2>6
<1> QED BY <1>1, <1>2

-----------------------------------------------------------------------------
(***************************************************************************)
(* The invariant holds.                                                    *)
(***************************************************************************)

\* Before the configuration is read.
LEMMA InitHolds == RootsInit => RootsInv
<1> SUFFICES ASSUME RootsInit PROVE RootsInv
  OBVIOUS
<1>1. PICK n \in 1 .. MaxRoots : sourceRoots \in [1 .. n -> Roots]
  BY DEF RootsInit
<1>2. n \in Nat
  BY <1>1, MaxRootsAssumption
<1>3. sourceRoots \in Seq(Roots) /\ Len(sourceRoots) = n
  BY <1>1, <1>2
<1>4. -1 \in -1 .. MaxRoots - 1
  BY MaxRootsAssumption
<1>5. RootsTypeOK
  BY <1>3, <1>4 DEF RootsInit, RootsTypeOK
<1>6. RootsFit
  BY <1>1, <1>3 DEF RootsFit
<1>7. UsedWasAccepted /\ IndexIsFound
  BY DEF RootsInit, UsedWasAccepted, Loaded, IndexIsFound
<1> QED BY <1>5, <1>6, <1>7 DEF RootsInv

\* Reading it and an event keep the invariant.
LEMMA StepHolds == RootsInv /\ [RootsNext]_rootVars => RootsInv'
<1> SUFFICES ASSUME RootsInv, [RootsNext]_rootVars PROVE RootsInv'
  OBVIOUS
<1>1. /\ sourceRoots \in Seq(Roots) /\ Len(sourceRoots) \in 1 .. MaxRoots
      /\ DOMAIN sourceRoots = 1 .. Len(sourceRoots) /\ Len(sourceRoots) \in Nat
      /\ MaxRoots \in Nat
  BY MaxRootsAssumption DEF RootsInv, RootsTypeOK, RootsFit
<1>2. CASE Load
  <2>1. RootsTypeOK'
    BY <1>2 DEF Load, RootsInv, RootsTypeOK
  <2>2. RootsFit'
    BY <1>1, <1>2 DEF Load, RootsFit
  <2>3. UsedWasAccepted'
    BY <1>2 DEF Load, UsedWasAccepted, Loaded, Acceptable, containsOverlapping
  <2>4. IndexIsFound'
    BY <1>2 DEF Load, RootsInv, IndexIsFound
  <2> QED BY <2>1, <2>2, <2>3, <2>4 DEF RootsInv
<1>3. ASSUME NEW p \in EventPaths, FindRoot(p) PROVE RootsInv'
  <2>1. /\ path' = p /\ sourceIndex' = searchForSourceIndex(sourceRoots, p)
        /\ UNCHANGED <<sourceRoots, destinations, stage>>
    BY <1>3 DEF FindRoot
  <2> DEFINE found == searchForSourceIndex(sourceRoots, p)
  <2>2. found \in -1 .. Len(sourceRoots) - 1
    BY <1>1, SearchFindsLast
  <2> HIDE DEF found
  <2>3. found \in -1 .. MaxRoots - 1
    BY <1>1, <2>2
  <2>4. RootsTypeOK'
    BY <2>1, <2>3 DEF RootsInv, RootsTypeOK, found
  <2>5. RootsFit' /\ UsedWasAccepted'
    BY <1>1, <2>1 DEF RootsInv, RootsFit, UsedWasAccepted, Loaded, Acceptable,
       containsOverlapping
  <2>6. IndexIsFound'
    BY <2>1 DEF IndexIsFound
  <2> QED BY <2>4, <2>5, <2>6 DEF RootsInv
<1>4. CASE UNCHANGED rootVars
  BY <1>4 DEF rootVars, RootsInv, RootsTypeOK, RootsFit, UsedWasAccepted, Loaded, Acceptable,
     containsOverlapping, IndexIsFound
<1> QED BY <1>2, <1>3, <1>4 DEF RootsNext

\* What the invariant says of an event.
LEMMA EventFacts ==
    ASSUME RootsInv, Routing
    PROVE  /\ path \in EventPaths /\ path \in Seq(Token) /\ sourceRoots \in Seq(Roots)
           /\ \A i \in DOMAIN sourceRoots :
                 sourceRoots[i] \in Seq(Token) /\ sourceRoots[i] \in ToSet(sourceRoots)
           /\ ~containsOverlapping(sourceRoots)
           /\ sourceIndex = searchForSourceIndex(sourceRoots, path)
<1>1. path \in EventPaths /\ sourceRoots \in Seq(Roots)
  BY DEF RootsInv, RootsTypeOK, Routing
<1>2. path \in Seq(Token)
  BY <1>1, StringsAssumption
<1>3. ASSUME NEW i \in DOMAIN sourceRoots
      PROVE  sourceRoots[i] \in Seq(Token) /\ sourceRoots[i] \in ToSet(sourceRoots)
  <2>1. sourceRoots[i] \in Roots
    BY <1>1, <1>3
  <2> QED BY <1>3, <2>1, StringsAssumption DEF ToSet
<1>4. ~containsOverlapping(sourceRoots)
  BY DEF RootsInv, UsedWasAccepted, Routing, Acceptable
<1>5. sourceIndex = searchForSourceIndex(sourceRoots, path)
  BY DEF RootsInv, IndexIsFound, Routing
<1> QED BY <1>1, <1>2, <1>3, <1>4, <1>5

\* A path lies in one root at most.
LEMMA OneOwner == RootsInv => DistinctRootsDisjoint
<1> SUFFICES ASSUME RootsInv, Routing, Clean, Distinct PROVE Cardinality(Owners(path)) <= 1
  BY DEF DistinctRootsDisjoint
<1>1. ASSUME NEW i \in DOMAIN sourceRoots, NEW k \in DOMAIN sourceRoots,
             LiesIn(path, sourceRoots[i]), LiesIn(path, sourceRoots[k])
      PROVE  i = k
  <2> DEFINE r == sourceRoots[i]
             s == sourceRoots[k]
  <2>1. r \in Seq(Token) /\ s \in Seq(Token) /\ r \in ToSet(sourceRoots)
        /\ s \in ToSet(sourceRoots) /\ path \in Seq(Token)
    BY EventFacts
  <2>2. Names(r) /\ Names(s)
    BY <2>1 DEF Clean
  <2>3. Begins(path, r) /\ Begins(path, s)
    <3> HIDE DEF r, s
    <3>1. LiesIn(path, r) /\ LiesIn(path, s)
      BY <1>1 DEF r, s
    <3> QED BY <2>1, <2>2, <3>1, PathBeginsWithRoot
  <2>4. contains(r, s) \/ contains(s, r)
    <3> HIDE DEF r, s
    <3> QED BY <2>1, <2>3, BeginningsOverlap
  <2>5. r = s
    BY <2>1, <2>4, EventFacts DEF containsOverlapping
  <2> QED BY <2>5 DEF Distinct
<1>2. CASE Owners(path) = {}
  BY <1>2, FS_EmptySet
<1>3. CASE Owners(path) # {}
  <2>1. PICK x \in Owners(path) : TRUE
    BY <1>3
  <2>2. PICK i \in DOMAIN sourceRoots : LiesIn(path, sourceRoots[i]) /\ x = i - 1
    BY <2>1 DEF Owners
  <2>3. ASSUME NEW y \in Owners(path) PROVE y = x
    <3>1. PICK k \in DOMAIN sourceRoots : LiesIn(path, sourceRoots[k]) /\ y = k - 1
      BY <2>3 DEF Owners
    <3> QED BY <1>1, <2>2, <3>1
  <2>4. Owners(path) = {x}
    BY <2>1, <2>3
  <2>5. Cardinality(Owners(path)) = 1
    BY <2>4, FS_Singleton
  <2> QED BY <2>5
<1> QED BY <1>2, <1>3

\* The search never returns a root before the owner of the path.
LEMMA OwnerIsFound == RootsInv => CleanRootsFound
<1> SUFFICES ASSUME RootsInv, Routing, Clean, NEW x \in Owners(path) PROVE sourceIndex >= x
  BY DEF CleanRootsFound
<1>1. PICK i \in DOMAIN sourceRoots : LiesIn(path, sourceRoots[i]) /\ x = i - 1
  BY DEF Owners
<1> DEFINE r == sourceRoots[i]
<1>2. r \in Seq(Token) /\ Names(r) /\ path \in Seq(Token)
  BY EventFacts DEF Clean
<1>3. contains(path, r)
  <2>1. LiesIn(path, r)
    BY <1>1
  <2> HIDE DEF r
  <2> QED BY <1>2, <2>1, PathBeginsWithRoot, BeginningIsContained
<1>4. DOMAIN sourceRoots = 1 .. Len(sourceRoots) /\ Len(sourceRoots) \in Nat
  BY EventFacts
<1> QED BY <1>1, <1>3, <1>4, EventFacts, SearchFindsLast

-----------------------------------------------------------------------------
(***************************************************************************)
(* The filters.                                                            *)
(***************************************************************************)

\* What a string contains, a longer one contains as well, at any place.
LEMMA ContainsMore ==
    ASSUME NEW s \in Seq(Token), NEW t \in Seq(Token), NEW u \in Seq(Token), NEW d \in Nat,
           contains(s, t), Len(s) + d <= Len(u), \A j \in 1 .. Len(s) : u[d + j] = s[j]
    PROVE  contains(u, t)
<1>1. PICK i \in 0 .. Len(s) - Len(t) : \A j \in 1 .. Len(t) : s[i + j] = t[j]
  BY DEF contains
<1>2. Len(s) \in Nat /\ Len(t) \in Nat /\ Len(u) \in Nat
  OBVIOUS
<1>3. d + i \in 0 .. Len(u) - Len(t)
  BY <1>1, <1>2
<1>4. ASSUME NEW j \in 1 .. Len(t) PROVE u[(d + i) + j] = t[j]
  <2>1. i + j \in 1 .. Len(s) /\ d + (i + j) = (d + i) + j
    BY <1>1, <1>2
  <2>2. u[d + (i + j)] = s[i + j]
    BY <2>1
  <2> QED BY <1>1, <2>1, <2>2
<1> QED BY <1>3, <1>4 DEF contains

\* A string with the slashes that fakePathIfNeeded puts.
LEMMA FakeFacts ==
    ASSUME NEW s \in Seq(Token)
    PROVE  /\ fakePathIfNeeded(s) \in Seq(Token)
           /\ \E d \in {0, 1} : /\ Len(s) + d <= Len(fakePathIfNeeded(s))
                                /\ \A j \in 1 .. Len(s) : fakePathIfNeeded(s)[d + j] = s[j]
                                /\ ~EndsWithSlash(s) =>
                                      /\ d = 0 /\ Len(fakePathIfNeeded(s)) = Len(s) + 1
                                      /\ fakePathIfNeeded(s)[Len(s) + 1] = Slash
                                /\ EndsWithSlash(s) => Len(fakePathIfNeeded(s)) = Len(s) + d
<1>1. Slash \in Token /\ Len(s) \in Nat
  BY DEF Token
<1>2. CASE ~EndsWithSlash(s)
  <2>1. fakePathIfNeeded(s) = Append(s, Slash)
    BY <1>2 DEF fakePathIfNeeded
  <2>2. Append(s, Slash) \in Seq(Token) /\ Len(Append(s, Slash)) = Len(s) + 1
        /\ (\A j \in 1 .. Len(s) : Append(s, Slash)[j] = s[j])
        /\ Append(s, Slash)[Len(s) + 1] = Slash
    BY <1>1, AppendProperties
  <2>3. \A j \in 1 .. Len(s) : Append(s, Slash)[0 + j] = s[j]
    BY <2>2
  <2>4. Len(s) + 0 <= Len(Append(s, Slash))
    BY <1>1, <2>2
  <2> QED BY <1>2, <2>1, <2>2, <2>3, <2>4
<1>3. CASE EndsWithSlash(s) /\ StartsWithSlash(s)
  <2>1. fakePathIfNeeded(s) = s
    BY <1>3 DEF fakePathIfNeeded
  <2>2. \A j \in 1 .. Len(s) : s[0 + j] = s[j]
    OBVIOUS
  <2> QED BY <1>1, <1>3, <2>1, <2>2
<1>4. CASE EndsWithSlash(s) /\ ~StartsWithSlash(s)
  <2> DEFINE u == <<Slash>> \o s
  <2>1. fakePathIfNeeded(s) = u
    BY <1>4 DEF fakePathIfNeeded
  <2>2. <<Slash>> \in Seq(Token) /\ Len(<<Slash>>) = 1
    BY <1>1
  <2>3. u \in Seq(Token) /\ Len(u) = 1 + Len(s)
        /\ \A i \in 1 .. 1 + Len(s) : u[i] = IF i <= 1 THEN <<Slash>>[i] ELSE s[i - 1]
    BY <2>2, ConcatProperties
  <2> HIDE DEF u
  <2>4. ASSUME NEW j \in 1 .. Len(s) PROVE u[1 + j] = s[j]
    <3>1. 1 + j \in 1 .. 1 + Len(s) /\ ~(1 + j <= 1) /\ (1 + j) - 1 = j
      BY <1>1
    <3> QED BY <2>3, <3>1
  <2>5. Len(s) + 1 <= Len(u) /\ Len(u) = Len(s) + 1
    BY <1>1, <2>3
  <2> QED BY <1>4, <2>1, <2>3, <2>4, <2>5
<1> QED BY <1>2, <1>3, <1>4

\* A filter that matches a directory of the path matches the path.
LEMMA FiltersClose == RootsInv => IgnoredCloses
<1> SUFFICES ASSUME RootsInv, Routing, NEW y \in Filters, NEW n \in 1 .. Len(path) - 1,
                    path[n + 1] = Slash, isYSubDirectoryOfX(SubSeq(path, 1, n), y)
             PROVE  isYSubDirectoryOfX(path, y)
  BY DEF IgnoredCloses
<1> DEFINE x == SubSeq(path, 1, n)
           s == fakePathIfNeeded(x)
           t == fakePathIfNeeded(y)
           u == fakePathIfNeeded(path)
<1>1. path \in EventPaths /\ path \in Seq(Token) /\ Len(path) \in Nat
  BY EventFacts
<1>2. n \in Nat /\ n + 1 \in 1 .. Len(path) /\ n \in 1 .. Len(path)
  BY <1>1
<1>3. x \in Seq(Token) /\ Len(x) = n /\ \A j \in 1 .. n : x[j] = path[j]
  BY <1>1, <1>2
<1>4. ~EndsWithSlash(x)
  <2>1. path[n] # Slash
    BY <1>1, NormalAssumption
  <2> HIDE DEF x
  <2>2. x[Len(x)] = path[n]
    BY <1>2, <1>3
  <2> QED BY <2>1, <2>2 DEF EndsWithSlash
<1> HIDE DEF x
<1>5. s \in Seq(Token) /\ Len(s) = n + 1 /\ \A j \in 1 .. n + 1 : s[j] = path[j]
  <2>1. PICK d \in {0, 1} :
            /\ Len(x) + d <= Len(s) /\ \A j \in 1 .. Len(x) : s[d + j] = x[j]
            /\ ~EndsWithSlash(x) => d = 0 /\ Len(s) = Len(x) + 1 /\ s[Len(x) + 1] = Slash
    BY <1>3, FakeFacts
  <2>2. d = 0 /\ Len(s) = n + 1 /\ s[n + 1] = Slash
    BY <1>3, <1>4, <2>1
  <2>3. \A j \in 1 .. n : s[j] = x[j]
    BY <1>3, <2>1, <2>2
  <2>4. s \in Seq(Token)
    BY <1>3, FakeFacts
  <2> HIDE DEF s
  <2>5. \A j \in 1 .. n + 1 : s[j] = path[j]
    BY <1>2, <1>3, <2>2, <2>3
  <2> QED BY <2>2, <2>4, <2>5
<1>6. t \in Seq(Token)
  BY StringsAssumption, FakeFacts
<1>7. u \in Seq(Token)
  BY <1>1, FakeFacts
<1>8. PICK d \in {0, 1} : Len(path) + d <= Len(u) /\ \A j \in 1 .. Len(path) : u[d + j] = path[j]
  BY <1>1, FakeFacts
<1>9. contains(s, t)
  BY DEF isYSubDirectoryOfX, x
<1> HIDE DEF s, t, u
<1>10. d \in Nat /\ Len(s) + d <= Len(u)
  BY <1>1, <1>2, <1>5, <1>7, <1>8
<1>11. ASSUME NEW j \in 1 .. Len(s) PROVE u[d + j] = s[j]
  <2>1. j \in 1 .. n + 1
    BY <1>5
  <2>2. j \in 1 .. Len(path)
    BY <1>1, <1>2, <2>1
  <2>3. u[d + j] = path[j]
    BY <1>8, <2>2
  <2>4. s[j] = path[j]
    BY <1>5, <2>1
  <2> QED BY <2>3, <2>4
<1>12. contains(u, t)
  BY <1>5, <1>6, <1>7, <1>9, <1>10, <1>11, ContainsMore
<1> QED BY <1>12 DEF isYSubDirectoryOfX, u, t

-----------------------------------------------------------------------------
(***************************************************************************)
(* The theorems.                                                           *)
(***************************************************************************)

\* The invariant holds at all times.
THEOREM RootsInvariant == RootsSpec => []RootsInv
BY InitHolds, StepHolds, PTL DEF RootsSpec

\* The roots, the path and the index that was found have their types: the index is
\* that of a root, or -1.
THEOREM TypeCorrect == RootsSpec => []RootsTypeOK
<1>1. RootsInv => RootsTypeOK
  BY DEF RootsInv
<1> QED BY <1>1, RootsInvariant, PTL

\* Configuration.load: whatever is accepted, no path lies in two of the roots that are
\* spelled without repeated slashes and are not repeated.
THEOREM RootsDisjoint == RootsSpec => []DistinctRootsDisjoint
BY OneOwner, RootsInvariant, PTL

\* searchForSourceIndex: for the paths in such roots it finds a root, and none before
\* the one the path lies in.
THEOREM RootsFound == RootsSpec => []CleanRootsFound
BY OwnerIsFound, RootsInvariant, PTL

\* isYSubDirectoryOfX: whatever lies in an ignored directory is ignored.
THEOREM FiltersReach == RootsSpec => []IgnoredCloses
BY FiltersClose, RootsInvariant, PTL
=============================================================================
