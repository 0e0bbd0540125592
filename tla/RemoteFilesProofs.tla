-------------------------- MODULE RemoteFilesProofs --------------------------
(***************************************************************************)
(* Proofs about RemoteFiles, for every tree, every number of threads and   *)
(* every set of requests, while others add and remove what they like.      *)
(***************************************************************************)
EXTENDS RemoteFiles, SequenceTheorems, TLAPS

-----------------------------------------------------------------------------
(***************************************************************************)
(* The inductive invariant.                                                *)
(***************************************************************************)

\* What a listing of i has shown: what i holds or held, or the file itself.
Real(i, j) == \/ j \in was /\ j.path # Root /\ Parent(j.path) = i.path
              \/ ~i.dir /\ j = i

\* A thread serves a request that the browser may send, and sends a file only if it
\* was asked for one; a search goes through no directory.
ServesRequest(r) ==
    /\ r.pc \notin Finished => [cmd |-> r.cmd, target |-> r.target, name |-> r.name] \in Request
    /\ r.pc \in {"scp", "send"} => r.cmd \in Reading
    /\ "walk" \in {r.pc, r.back} => r.cmd # "search"
    /\ r.pc \in {"missing", "ghost"} => r.cmd # "search"
    /\ r.pc \in {"find", "found"} \/ r.back = "found" => r.cmd = "search" /\ r.at = RootObject

\* A lookup, also while it lists what it goes through ...
Looking(r) == \/ r.pc \in {"walk", "missing", "ghost"}
              \/ r.pc \in {"ls", "fill", "new"} /\ r.back = "walk"

\* ... seeks the target, or the parent of the object made because it found none.
Seeks(r) ==
    Looking(r) =>
        /\ r.target # RootItem
        /\ \/ r.seek = r.target
           \/ r.seek = File(Parent(r.target.path)) /\ r.obj.item = Ghost(r.target)

\* The lines that a thread goes through, and the list that it makes of them, are of
\* what it lists, unless it searches.
RowsReal(r) ==
    r.pc \in {"fill", "new"} =>
        /\ \A row \in r.rows : row # RootItem /\ (r.back = "found" \/ Real(r.at.item, row))
        /\ r.back # "found" => \A o \in r.made : Real(r.at.item, o.item)
        /\ r.pc = "new" => r.new \in r.rows

\* What is described was given the parent it lies in.
ItemsPlaced(r) == \A i \in r.items : LiesIn(i.item, i.phash)

\* A request that is being served.
Serving(r) == r \in Served /\ ServesRequest(r) /\ Seeks(r) /\ RowsReal(r) /\ ItemsPlaced(r)

\* The repository holds an object under its own path.
RepoKeyed == \A i \in Item : repo[i] # NoObject => repo[i].item = i

CacheInv ==
    /\ TypeOK /\ RepoKeyed /\ ParentsAbove /\ ListsWereReal /\ DownloadsLeaveNothing
    /\ Items(remote) \subseteq was
    /\ \A t \in Thread : Serving(req[t])

-----------------------------------------------------------------------------
(***************************************************************************)
(* Lines and paths.                                                        *)
(***************************************************************************)

\* The root and the root of the volume are paths, items and objects.
LEMMA RootTypes == Root \in Path /\ RootItem \in Item /\ RootObject \in Object
BY PathAssumption DEF RootItem, RootObject, Item, Object

\* What a sequence ends with can be taken from it.
LEMMA FrontAndLast ==
    ASSUME NEW S, NEW p \in Seq(S), p # <<>>
    PROVE  Front(p) \in Seq(S) /\ p[Len(p)] \in S /\ p = Front(p) \o <<p[Len(p)]>>
<1>1. Len(p) \in Nat /\ Len(p) # 0 /\ 1 \in 1 .. Len(p) /\ Len(p) \in 1 .. Len(p)
  BY LenProperties, EmptySeq
<1>2. SubSeq(p, 1, Len(p)) = SubSeq(p, 1, Len(p) - 1) \o <<p[Len(p)]>>
  BY <1>1, SubSeqRecursiveSecond
<1>3. SubSeq(p, 1, Len(p)) = p
  BY SubSeqFull
<1>4. \A i \in 1 .. Len(p) : p[i] \in S
  BY ElementOfSeq
<1>5. SubSeq(p, 1, Len(p) - 1) \in Seq(S)
  BY <1>1, <1>4, SubSeqProperties
<1> QED
  BY <1>1, <1>2, <1>3, <1>4, <1>5 DEF Front

\* The object that is made when a lookup fails lies where its target lay, seen from
\* the doubled path of the root.
LEMMA GhostLies ==
    ASSUME NEW p \in Path, p # Root
    PROVE  Volume \o p # Root /\ Parent(Volume \o p) = Volume \o Parent(p)
<1> DEFINE s == Volume \o p
           u == Volume \o Front(p)
           x == p[Len(p)]
<1>1. p \in Seq(Name) /\ Volume \in Seq(Name) /\ p # <<>>
  BY PathAssumption, VolumeAssumption DEF Root
<1>2. Front(p) \in Seq(Name) /\ x \in Name /\ p = Front(p) \o <<x>>
  BY <1>1, FrontAndLast
<1>3. s \in Seq(Name) /\ u \in Seq(Name) /\ <<x>> \in Seq(Name)
  BY <1>1, <1>2, ConcatProperties
<1>4. s # <<>>
  BY <1>1, ConcatEqualIffEmpty
<1>5. s = u \o <<x>>
  BY <1>1, <1>2, <1>3, ConcatAssociative
<1>6. Front(s) \in Seq(Name) /\ s[Len(s)] \in Name /\ s = Front(s) \o <<s[Len(s)]>>
  BY <1>3, <1>4, FrontAndLast
<1>7. s[Len(s)] = x
  <2>1. Len(<<x>>) = 1 /\ Len(u) \in Nat
    BY <1>3, LenProperties
  <2>2. Len(u \o <<x>>) = Len(u) + 1 /\ (u \o <<x>>)[Len(u) + 1] = <<x>>[1]
    BY <1>3, <2>1, ConcatProperties
  <2> QED
    BY <1>5, <2>1, <2>2
<1>8. Front(s) = u
  <2>1. \A v, w \in Seq(Name) : v \o <<x>> = w \o <<x>> => v = w
    BY <1>3, ConcatSimplifications
  <2> HIDE DEF s, u, x
  <2> QED
    BY <1>3, <1>5, <1>6, <1>7, <2>1
<1> QED
  BY <1>4, <1>8 DEF Parent, Root

\* What is asked for has a path that a lookup can seek, and one that it makes up.
LEMMA TargetTypes ==
    ASSUME NEW q \in Request
    PROVE  /\ q.target \in Item /\ Ghost(q.target) \in Item
           /\ q.target # RootItem =>
                /\ q.target.path # Root /\ File(Parent(q.target.path)) \in Item
                /\ Ghost(q.target).path # Root
                /\ Parent(Ghost(q.target).path) = Volume \o Parent(q.target.path)
<1>1. /\ q.target \in Item /\ Volume \o q.target.path \in Path
      /\ q.target.path = Root => q.target.dir
  BY RequestAssumption
<1>2. q.target.path \in Path /\ q.target = [path |-> q.target.path, dir |-> q.target.dir]
  BY <1>1 DEF Item
<1>3. Ghost(q.target) \in Item /\ Ghost(q.target).path = Volume \o q.target.path
  BY <1>1, <1>2 DEF Ghost, Item
<1>4. q.target # RootItem => q.target.path # Root
  BY <1>1, <1>2 DEF RootItem
<1>5. q.target.path # Root => File(Parent(q.target.path)) \in Item
  BY <1>2, PathAssumption DEF File, Item, Parent
<1> QED
  BY <1>1, <1>2, <1>3, <1>4, <1>5, GhostLies

\* ls answers with lines of what is there.
LEMMA LsAnswers ==
    ASSUME NEW i \in Item, Items(remote) \subseteq was, Lists(i)
    PROVE  /\ LsRows(i) \subseteq Item
           /\ \A row \in LsRows(i) : row # RootItem /\ Real(i, row)
<1>1. CASE IsDirectory(remote, i.path)
  <2> SUFFICES ASSUME NEW p \in Children(remote, i.path)
               PROVE  /\ ItemOf(remote, p) \in Item /\ ItemOf(remote, p) # RootItem
                      /\ Real(i, ItemOf(remote, p))
    BY <1>1 DEF LsRows
  <2>1. p \in Path /\ p # Root /\ Parent(p) = i.path /\ remote[p] # Absent
    BY DEF Children
  <2>2. ItemOf(remote, p) \in Item /\ ItemOf(remote, p).path = p
    BY <2>1 DEF ItemOf, Item, IsDirectory
  <2>3. ItemOf(remote, p) \in was
    BY <2>1 DEF Items
  <2> QED
    BY <2>1, <2>2, <2>3 DEF Real, RootItem
<1>2. CASE ~IsDirectory(remote, i.path)
  <2>1. LsRows(i) = {i} /\ ~i.dir
    BY <1>2 DEF LsRows, Lists
  <2> QED
    BY <2>1 DEF Real, RootItem
<1> QED
  BY <1>1, <1>2

\* find answers with lines of items other than the root.
LEMMA FindAnswers ==
    ASSUME NEW q \in Request, q.cmd = "search"
    PROVE  /\ FindRows(q.name) \subseteq Item
           /\ \A row \in FindRows(q.name) : row # RootItem
<1> DEFINE n == q.name
           named == {p \in Path \ {Root} : Last(p) = n}
<1>1. ASSUME NEW p \in named PROVE File(p) \in Item /\ File(p) # RootItem
  BY DEF File, Item, RootItem
<1>2. ASSUME NEW c \in Path \ {Root}, Parent(c) \in named
      PROVE  LET row == [path |-> <<Last(c)>>, dir |-> IsDirectory(remote, c)] IN
             row \in Item /\ row # RootItem
  <2>1. <<Last(c)>> \in Path
    BY <1>2, RequestAssumption
  <2>2. <<Last(c)>> # Root
    BY DEF Root
  <2> QED
    BY <2>1, <2>2 DEF RootItem, Item, IsDirectory
<1>3. ASSUME NEW row \in FindRows(n) PROVE row \in Item /\ row # RootItem
  <2>1. \/ \E p \in named : row = File(p)
        \/ \E c \in Path \ {Root} :
             /\ Parent(c) \in named
             /\ row = [path |-> <<Last(c)>>, dir |-> IsDirectory(remote, c)]
    BY <1>3, SMT DEF FindRows
  <2> QED
    BY <1>1, <1>2, <2>1
<1> QED
  BY <1>3

\* The remote tree stays one, and what it holds is remembered.
LEMMA TreeBecomes ==
    ASSUME TypeOK, NEW tree \in Tree, Becomes(tree)
    PROVE  /\ remote' \in Tree /\ was' \subseteq Item /\ was \subseteq was'
           /\ Items(remote') \subseteq was'
<1>1. \A p \in Path : ItemOf(tree, p) \in Item
  BY DEF ItemOf, Item, IsDirectory
<1>2. Items(tree) \subseteq Item
  BY <1>1 DEF Items
<1> QED
  BY <1>2 DEF Becomes, TypeOK

-----------------------------------------------------------------------------
(***************************************************************************)
(* Requests go on being requests.                                          *)
(***************************************************************************)

\* What is known of a thread follows from what it goes on with.
LEMMA WentOn ==
    ASSUME TypeOK, NEW t \in Thread, NEW s \in Served, GoOn(t, s)
    PROVE  req'[t] = s /\ req' \in [Thread -> Served]
BY DEF TypeOK, GoOn

\* The same for a thread that goes to another stage.
LEMMA WentTo ==
    ASSUME TypeOK, NEW t \in Thread, NEW stage \in Stage, GoTo(t, stage)
    PROVE  GoOn(t, [req[t] EXCEPT !.pc = stage])
BY DEF TypeOK, GoTo, GoOn

\* A thread that has nothing to do.
LEMMA IdleServing == Idle \in Served /\ Serving(Idle)
<1>1. (CHOOSE n \in Name : TRUE) \in Name
  BY RequestAssumption
<1>2. Idle \in Served
  BY <1>1, RootTypes DEF Idle, Served, Commands, Listing, Stage, Back, Finished
<1> QED
  BY <1>2 DEF Serving, ServesRequest, Seeks, Looking, RowsReal, ItemsPlaced, Idle, Finished

\* A request that ends leaves the thread with nothing to do.
LEMMA EndsServing ==
    ASSUME CacheInv, NEW t \in Thread, NEW stage \in Finished, Ends(t, stage)
    PROVE  \E s : Serving(s) /\ GoOn(t, s)
<1> DEFINE s == [Idle EXCEPT !.pc = stage, !.items = req[t].items, !.there = req[t].there]
<1>1. req[t].items \subseteq Described /\ req[t].there \subseteq Path /\ ItemsPlaced(req[t])
  BY DEF CacheInv, Serving, Served
<1>2. Idle \in Served
  BY IdleServing
<1>3. s \in Served
  BY <1>1, <1>2 DEF Served, Stage
<1>4. s.pc = stage /\ s.back = "done" /\ s.items = req[t].items
  BY DEF Idle
<1> HIDE DEF s
<1>5. Serving(s)
  BY <1>1, <1>3, <1>4 DEF Serving, ServesRequest, Seeks, Looking, RowsReal, ItemsPlaced, Finished
<1> QED
  BY <1>5 DEF Ends, s

\* A server that has just started holds the root of the volume.
LEMMA CacheInit == Init => CacheInv
<1> SUFFICES ASSUME Init PROVE CacheInv
  OBVIOUS
<1>1. remote \in Tree
  BY FoundAssumption DEF Init
<1>2. \A p \in Path : ItemOf(remote, p) \in Item
  BY DEF ItemOf, Item, IsDirectory
<1>3. was \subseteq Item /\ Items(remote) \subseteq was
  BY <1>2 DEF Init, Items
<1>4. TypeOK
  BY <1>1, <1>3, IdleServing, RootTypes, BoundAssumption DEF Init, TypeOK
<1>5. RepoKeyed /\ ParentsAbove /\ ListsWereReal /\ DownloadsLeaveNothing
  BY DEF Init, RepoKeyed, RootObject, ParentsAbove, ListsWereReal, DownloadsLeaveNothing
<1>6. \A t \in Thread : Serving(req[t])
  BY IdleServing DEF Init
<1> QED
  BY <1>3, <1>4, <1>5, <1>6 DEF CacheInv

\* A step of one thread leaves what the others serve alone.
LEMMA OthersWait ==
    ASSUME NEW t \in Thread, TypeOK,
           Serve(t) \/ \E q \in Request : Receive(t, q)
    PROVE  \A u \in Thread : u # t => req'[u] = req[u]
BY DEF TypeOK, Serve, Walk, Looked, Finds, Missing, MakeGhost, Ls, Find, TakeRow, PutNew, Adopt,
       Filled, SshFails, List, Describe, HasChildFolder, Scp, Send, Write, Paste, Receive, GoTo, GoOn,
       Ends

\* What each command begins with.
LEMMA Begins ==
    ASSUME NEW cmd \in Commands, cmd # "search"
    PROVE  /\ Begin(cmd) \in {"list", "scp", "write", "paste"}
           /\ Begin(cmd) = "scp" => cmd \in Reading
BY DEF Begin, Commands, Listing, Reading

\* A thread takes a request.
LEMMA ReceiveServed ==
    ASSUME CacheInv, NEW t \in Thread, NEW q \in Request, Receive(t, q)
    PROVE  \E s : Serving(s) /\ GoOn(t, s)
<1> DEFINE stage == IF q.cmd = "search" THEN "find"
                    ELSE IF q.target = RootItem THEN Begin(q.cmd) ELSE "walk"
           s == [Idle EXCEPT
                !.cmd = q.cmd, !.target = q.target, !.seek = q.target, !.name = q.name,
                !.there = IF q.cmd = "open" THEN Children(remote, q.target.path) ELSE {},
                !.pc = stage]
<1>1. q \in [cmd : Commands, target : Item, name : Name]
  BY RequestAssumption
<1>2. Idle \in Served
  BY IdleServing
<1>3. (IF q.cmd = "open" THEN Children(remote, q.target.path) ELSE {}) \subseteq Path
  BY DEF Children
<1>4. /\ stage \in {"find", "walk", "list", "scp", "write", "paste"}
      /\ stage = "find" => q.cmd = "search"
      /\ stage = "walk" => q.cmd # "search" /\ q.target # RootItem
      /\ stage = "scp" => q.cmd \in Reading
  BY <1>1, Begins
<1>5. q = [cmd |-> q.cmd, target |-> q.target, name |-> q.name]
  BY <1>1
<1> HIDE DEF stage
<1>6. s \in Served
  BY <1>1, <1>2, <1>3, <1>4 DEF Served, Stage
<1>7. /\ s.pc = stage /\ s.cmd = q.cmd /\ s.target = q.target /\ s.name = q.name
      /\ s.seek = q.target /\ s.back = "done" /\ s.at = RootObject /\ s.items = {}
  BY DEF Idle
<1>8. GoOn(t, s)
  BY DEF Receive, stage
<1> HIDE DEF s
<1>9. Serving(s)
  BY <1>4, <1>5, <1>6, <1>7
     DEF Serving, ServesRequest, Seeks, Looking, RowsReal, ItemsPlaced, Finished
<1> QED
  BY <1>8, <1>9

\* What is known of a thread that looks an item up.
LEMMA LookingTypes ==
    ASSUME CacheInv, NEW t \in Thread, req[t].pc \in {"walk", "missing", "ghost"}
    PROVE  LET r == req[t] IN
           /\ r \in Served /\ r.cmd \in Commands /\ r.cmd # "search"
           /\ r.target \in Item /\ r.target.path # Root
           /\ Ghost(r.target) \in Item /\ Ghost(r.target).path # Root
           /\ File(Parent(r.target.path)) \in Item
           /\ Parent(Ghost(r.target).path) = Volume \o Parent(r.target.path)
           /\ Ahead(r) \subseteq Object
<1> DEFINE r == req[t]
<1>1. TypeOK /\ r \in Served /\ ServesRequest(r) /\ Seeks(r)
  BY DEF CacheInv, Serving
<1>2. PICK q \in Request : q.cmd = r.cmd /\ q.target = r.target
  BY <1>1 DEF ServesRequest, Finished
<1>3. r.cmd # "search" /\ r.target # RootItem /\ r.cmd \in Commands
  BY <1>1 DEF ServesRequest, Seeks, Looking, Served
<1>4. Ahead(r) \subseteq Object
  BY <1>1 DEF Ahead, TypeOK, Served
<1> QED
  BY <1>1, <1>2, <1>3, <1>4, TargetTypes

\* A thread that looks an item up goes on with a request.
LEMMA LookServed ==
    ASSUME CacheInv, NEW t \in Thread, Walk(t) \/ Looked(t) \/ Missing(t) \/ MakeGhost(t)
    PROVE  \E s : Serving(s) /\ GoOn(t, s)
<1> DEFINE r == req[t]
           Goal == \E s : Serving(s) /\ GoOn(t, s)
<1>1. r.pc \in {"walk", "missing", "ghost"}
  BY DEF Walk, Looked, Missing, MakeGhost, At
<1>2. /\ TypeOK /\ r \in Served /\ ServesRequest(r) /\ Seeks(r) /\ ItemsPlaced(r)
      /\ r.cmd \in Commands /\ r.cmd # "search"
      /\ r.target \in Item /\ r.target.path # Root
      /\ Ghost(r.target) \in Item /\ File(Parent(r.target.path)) \in Item
      /\ Ahead(r) \subseteq Object
  BY <1>1, LookingTypes DEF CacheInv, Serving
<1>3. /\ Begin(r.cmd) \in {"list", "scp", "write", "paste"}
      /\ Begin(r.cmd) = "scp" => r.cmd \in Reading
  BY <1>2, Begins
<1>4. CASE Walk(t)
  <2>1. r.pc = "walk"
    BY <1>4 DEF Walk, At
  <2>2. CASE GoOn(t, [r EXCEPT !.pc = "ls", !.back = "walk"])
    <3> DEFINE s == [r EXCEPT !.pc = "ls", !.back = "walk"]
    <3>1. Serving(s)
      BY <1>2, <2>1 DEF Serving, Served, Stage, Back, Finished, ServesRequest, Seeks, Looking, RowsReal, ItemsPlaced
    <3> QED
      BY <2>2, <3>1
  <2>3. CASE Ends(t, "overflow")
    BY <2>3, EndsServing DEF Finished
  <2>4. ASSUME NEW k \in First(Ahead(r)),
               GoOn(t, [r EXCEPT !.at = k, !.todo = Ahead(r) \ {k}])
        PROVE  Goal
    <3> DEFINE s == [r EXCEPT !.at = k, !.todo = Ahead(r) \ {k}]
    <3>1. k \in Object
      BY <1>2 DEF First
    <3>2. Serving(s)
      BY <1>2, <2>1, <3>1 DEF Serving, Served, Stage, Back, Finished, ServesRequest, Seeks, Looking, RowsReal, ItemsPlaced
    <3> QED
      BY <2>4, <3>2
  <2> QED
    BY <1>4, <2>2, <2>3, <2>4 DEF Walk
<1>5. ASSUME NEW o \in Object,
             GoOn(t, [r EXCEPT !.obj = o, !.at = RootObject, !.todo = {}, !.pc = Begin(r.cmd)])
      PROVE  Goal
  <2> DEFINE s == [r EXCEPT !.obj = o, !.at = RootObject, !.todo = {}, !.pc = Begin(r.cmd)]
  <2>1. s \in Served
    BY <1>2, <1>3, RootTypes DEF Served, Stage
  <2>2. /\ s.pc = Begin(r.cmd) /\ s.cmd = r.cmd /\ s.target = r.target /\ s.name = r.name
        /\ s.back = r.back /\ s.at = RootObject /\ s.items = r.items
    BY <1>2 DEF Served
  <2>3. GoOn(t, s)
    BY <1>5
  <2> HIDE DEF s
  <2>4. Serving(s)
    BY <1>1, <1>2, <1>3, <2>1, <2>2
       DEF Serving, ServesRequest, Seeks, Looking, RowsReal, ItemsPlaced, Finished
  <2> QED
    BY <2>3, <2>4
<1>6. CASE Looked(t)
  <2>1. r.pc = "walk"
    BY <1>6 DEF Looked, At
  <2>2. r = [r EXCEPT !.obj = r.obj] /\ r.obj \in Object
    BY <1>2 DEF Served
  <2>3. ASSUME NEW k \in Object \cup {NoObject}, Finds(t, k) PROVE Goal
    <3>1. CASE k # NoObject /\ GoOn(t, [r EXCEPT !.obj = k, !.at = RootObject, !.todo = {}, !.pc = Begin(r.cmd)])
      BY <1>5, <3>1
    <3>2. CASE r.seek = r.target /\ GoTo(t, "missing")
      <4> DEFINE s == [r EXCEPT !.pc = "missing"]
      <4>1. GoOn(t, s)
        BY <1>2, <3>2, WentTo DEF Stage
      <4>2. Serving(s)
        BY <1>2, <2>1 DEF Serving, Served, Stage, Back, Finished, ServesRequest, Seeks, Looking, RowsReal, ItemsPlaced
      <4> QED
        BY <4>1, <4>2
    <3>3. CASE GoOn(t, [r EXCEPT !.at = RootObject, !.todo = {}, !.pc = Begin(r.cmd)])
      <4>1. [r EXCEPT !.at = RootObject, !.todo = {}, !.pc = Begin(r.cmd)]
              = [r EXCEPT !.obj = r.obj, !.at = RootObject, !.todo = {}, !.pc = Begin(r.cmd)]
        BY <1>2 DEF Served
      <4> QED
        BY <1>5, <2>2, <3>3, <4>1
    <3> QED
      BY <2>3, <3>1, <3>2, <3>3 DEF Finds
  <2>4. First(Ahead(r)) \subseteq Object
    BY <1>2 DEF First
  <2> QED
    BY <1>6, <2>3, <2>4 DEF Looked
<1>7. ASSUME NEW o \in Object, o.item = Ghost(r.target), GoOn(t, SeekParent(r, o))
      PROVE  Goal
  <2> DEFINE s == SeekParent(r, o)
  <2>1. s \in Served
    BY <1>2, RootTypes DEF SeekParent, Served, Stage
  <2>2. /\ s.pc = "walk" /\ s.cmd = r.cmd /\ s.target = r.target /\ s.name = r.name
        /\ s.back = r.back /\ s.at = RootObject /\ s.items = r.items /\ s.obj = o
        /\ s.seek = File(Parent(r.target.path))
    BY <1>2 DEF SeekParent, Served
  <2> HIDE DEF s
  <2>3. r.target # RootItem
    BY <1>2 DEF RootItem
  <2>4. Serving(s)
    BY <1>1, <1>2, <1>7, <2>1, <2>2, <2>3
       DEF Serving, ServesRequest, Seeks, Looking, RowsReal, ItemsPlaced, Finished
  <2> QED
    BY <1>7, <2>4 DEF s
<1>8. CASE Missing(t)
  <2>1. r.pc = "missing"
    BY <1>8 DEF Missing, At
  <2>2. CASE repo[Ghost(r.target)] # NoObject /\ GoOn(t, SeekParent(r, repo[Ghost(r.target)]))
    <3>1. repo[Ghost(r.target)] \in Object /\ repo[Ghost(r.target)].item = Ghost(r.target)
      BY <1>2, <2>2 DEF CacheInv, TypeOK, RepoKeyed
    <3> QED
      BY <1>7, <2>2, <3>1
  <2>3. CASE GoTo(t, "ghost")
    <3> DEFINE s == [r EXCEPT !.pc = "ghost"]
    <3>1. GoOn(t, s)
      BY <1>2, <2>3, WentTo DEF Stage
    <3>2. Serving(s)
      BY <1>2, <2>1 DEF Serving, Served, Stage, Back, Finished, ServesRequest, Seeks, Looking, RowsReal, ItemsPlaced
    <3> QED
      BY <3>1, <3>2
  <2> QED
    BY <1>8, <2>2, <2>3 DEF Missing
<1>9. CASE MakeGhost(t)
  <2> DEFINE o == [item |-> Ghost(r.target), by |-> t]
  <2>1. o \in Object /\ o.item = Ghost(r.target)
    BY <1>2 DEF Object
  <2>2. GoOn(t, SeekParent(r, o))
    BY <1>9 DEF MakeGhost
  <2> HIDE DEF o
  <2> QED
    BY <1>7, <2>1, <2>2
<1> QED
  BY <1>4, <1>6, <1>8, <1>9

\* So does one that goes through the lines of a listing.
LEMMA RowsServed ==
    ASSUME CacheInv, NEW t \in Thread, Ls(t) \/ Find(t) \/ TakeRow(t) \/ PutNew(t) \/ Filled(t)
    PROVE  \E s : Serving(s) /\ GoOn(t, s)
<1> DEFINE r == req[t]
           Goal == \E s : Serving(s) /\ GoOn(t, s)
<1>1. /\ TypeOK /\ r \in Served /\ ServesRequest(r) /\ Seeks(r) /\ RowsReal(r) /\ ItemsPlaced(r)
      /\ r.at \in Object /\ r.at.item \in Item /\ r.made \subseteq Object /\ r.rows \subseteq Item
      /\ r.new \in Item
  BY DEF CacheInv, Serving, Served, Object
<1>2. CASE Ls(t)
  <2>1. r.pc = "ls"
    BY <1>2 DEF Ls, At
  <2>2. CASE Ends(t, "failed")
    BY <2>2, EndsServing DEF Finished
  <2>3. CASE /\ Lists(r.at.item)
             /\ GoOn(t, [r EXCEPT !.pc = "fill", !.made = {}, !.rows = LsRows(r.at.item)])
    <3> DEFINE s == [r EXCEPT !.pc = "fill", !.made = {}, !.rows = LsRows(r.at.item)]
    <3>1. /\ LsRows(r.at.item) \subseteq Item
          /\ \A row \in LsRows(r.at.item) : row # RootItem /\ Real(r.at.item, row)
      BY <1>1, <2>3, LsAnswers DEF CacheInv
    <3>2. Serving(s)
      BY <1>1, <2>1, <3>1
         DEF Serving, Served, Stage, Back, Finished, ServesRequest, Seeks, Looking, RowsReal, ItemsPlaced
    <3> QED
      BY <2>3, <3>2
  <2> QED
    BY <1>2, <2>2, <2>3 DEF Ls
<1>3. CASE Find(t)
  <2> DEFINE s == [r EXCEPT !.pc = "fill", !.back = "found", !.rows = FindRows(r.name)]
  <2>1. GoOn(t, s) /\ r.pc = "find"
    BY <1>3 DEF Find, At
  <2>2. PICK q \in Request : q.cmd = "search" /\ q.name = r.name
    BY <1>1, <2>1 DEF ServesRequest, Finished
  <2>3. FindRows(r.name) \subseteq Item /\ \A row \in FindRows(r.name) : row # RootItem
    BY <2>2, FindAnswers
  <2>4. Serving(s)
    BY <1>1, <2>1, <2>3
       DEF Serving, Served, Stage, Back, Finished, ServesRequest, Seeks, Looking, RowsReal, ItemsPlaced
  <2> QED
    BY <2>1, <2>4
<1>4. ASSUME NEW objects \in SUBSET Object, NEW rows, Adopt(t, objects, rows),
             r.pc \in {"fill", "new"}, \A o \in objects : o.item \in r.rows
      PROVE  Goal
  <2> DEFINE s == [r EXCEPT !.pc = "fill", !.rows = @ \ rows, !.new = RootItem,
                            !.made = @ \cup objects]
  <2>1. GoOn(t, s)
    BY <1>4 DEF Adopt
  <2>2. r.back # "found" => \A o \in r.made \cup objects : Real(r.at.item, o.item)
    BY <1>1, <1>4 DEF RowsReal
  <2>3. Serving(s)
    BY <1>1, <1>4, <2>2, RootTypes
       DEF Serving, Served, Stage, Back, Finished, ServesRequest, Seeks, Looking, RowsReal, ItemsPlaced
  <2> QED
    BY <2>1, <2>3
<1>5. CASE TakeRow(t)
  <2> DEFINE known   == {row \in r.rows : repo[row] # NoObject}
             objects == {repo[row] : row \in known}
  <2>1. r.pc = "fill" /\ objects \in SUBSET Object /\ \A o \in objects : o.item \in r.rows
    BY <1>1, <1>5 DEF TakeRow, At, CacheInv, TypeOK, RepoKeyed
  <2>2. CASE Adopt(t, objects, known)
    <3> HIDE DEF objects, known
    <3> QED
      BY <1>4, <2>1, <2>2
  <2>3. ASSUME NEW row \in r.rows, GoOn(t, [r EXCEPT !.pc = "new", !.new = row])
        PROVE  Goal
    <3> DEFINE s == [r EXCEPT !.pc = "new", !.new = row]
    <3>1. Serving(s)
      BY <1>1, <2>1
         DEF Serving, Served, Stage, Back, Finished, ServesRequest, Seeks, Looking, RowsReal, ItemsPlaced
    <3> QED
      BY <2>3, <3>1
  <2> QED
    BY <1>5, <2>2, <2>3 DEF TakeRow
<1>6. CASE PutNew(t)
  <2> DEFINE o == [item |-> r.new, by |-> t]
  <2>1. /\ r.pc = "new" /\ {o} \in SUBSET Object /\ o.item = r.new /\ r.new \in r.rows
        /\ Adopt(t, {o}, {r.new})
    BY <1>1, <1>6 DEF PutNew, At, Object, RowsReal
  <2> HIDE DEF o
  <2> QED
    BY <1>4, <2>1
<1>7. CASE Filled(t)
  <2>1. r.pc = "fill" /\ r.rows = {}
    BY <1>7 DEF Filled, At
  <2>2. CASE r.back = "found"
    <3> DEFINE s == [r EXCEPT !.pc = "info", !.back = "done", !.todo = r.made, !.made = {}]
    <3>1. GoOn(t, s)
      BY <1>7, <2>2 DEF Filled
    <3>2. Serving(s)
      BY <1>1, <2>1
         DEF Serving, Served, Stage, Back, Finished, ServesRequest, Seeks, Looking, RowsReal, ItemsPlaced
    <3> QED
      BY <3>1, <3>2
  <2>3. CASE r.back # "found"
    <3> DEFINE s == [r EXCEPT !.pc = r.back, !.back = "done", !.made = {}]
    <3>1. GoOn(t, s)
      BY <1>7, <2>3 DEF Filled
    <3>2. Serving(s)
      BY <1>1, <2>1, <2>3
         DEF Serving, Served, Stage, Back, Finished, ServesRequest, Seeks, Looking, RowsReal, ItemsPlaced
    <3> QED
      BY <3>1, <3>2
  <2> QED
    BY <2>2, <2>3
<1> QED
  BY <1>2, <1>3, <1>5, <1>6, <1>7

\* So does one that describes, sends or saves.
LEMMA AnswerServed ==
    ASSUME CacheInv, NEW t \in Thread,
           \/ SshFails(t) \/ List(t) \/ Describe(t) \/ HasChildFolder(t)
           \/ Scp(t) \/ Send(t) \/ Write(t) \/ Paste(t)
    PROVE  \E s : Serving(s) /\ GoOn(t, s)
<1> DEFINE r == req[t]
           Goal == \E s : Serving(s) /\ GoOn(t, s)
<1>1. /\ TypeOK /\ r \in Served /\ ServesRequest(r) /\ Seeks(r) /\ ItemsPlaced(r)
      /\ r.obj \in Object /\ r.todo \subseteq Object
      /\ kids \in [Object -> SUBSET Object] /\ parent \in [Object -> Object \cup {NoObject}]
  BY DEF CacheInv, TypeOK, Serving, Served
<1>2. ASSUME NEW stage \in {"info", "send"}, GoTo(t, stage),
             stage = "send" => r.pc = "scp", stage = "info" => r.pc = "list"
      PROVE  Goal
  <2> DEFINE s == [r EXCEPT !.pc = stage]
  <2>1. GoOn(t, s)
    BY <1>1, <1>2, WentTo DEF Stage, Finished
  <2>2. Serving(s)
    BY <1>1, <1>2
       DEF Serving, Served, Stage, Back, Finished, ServesRequest, Seeks, Looking, RowsReal, ItemsPlaced
  <2> QED
    BY <2>1, <2>2
<1>3. ASSUME NEW stage \in Finished, Ends(t, stage) PROVE Goal
  BY <1>3, EndsServing
<1>4. CASE SshFails(t)
  BY <1>3, <1>4 DEF SshFails, Finished
<1>5. CASE List(t)
  <2>1. r.pc = "list"
    BY <1>5 DEF List, At
  <2>2. CASE GoTo(t, "info") \/ Ends(t, "failed")
    BY <1>2, <1>3, <2>1, <2>2 DEF Finished
  <2>3. CASE GoOn(t, [r EXCEPT !.pc = "ls", !.at = r.obj, !.back = "list"])
    <3> DEFINE s == [r EXCEPT !.pc = "ls", !.at = r.obj, !.back = "list"]
    <3>1. Serving(s)
      BY <1>1, <2>1
         DEF Serving, Served, Stage, Back, Finished, ServesRequest, Seeks, Looking, RowsReal, ItemsPlaced
    <3> QED
      BY <2>3, <3>1
  <2>4. CASE GoOn(t, [r EXCEPT !.pc = "info",
                               !.todo = kids[r.obj] \cup ({r.obj} \ {RootObject})])
    <3> DEFINE s == [r EXCEPT !.pc = "info", !.todo = kids[r.obj] \cup ({r.obj} \ {RootObject})]
    <3>1. Serving(s)
      BY <1>1, <2>1
         DEF Serving, Served, Stage, Back, Finished, ServesRequest, Seeks, Looking, RowsReal, ItemsPlaced
    <3> QED
      BY <2>4, <3>1
  <2>5. CASE /\ parent[r.obj] # NoObject
             /\ GoOn(t, [r EXCEPT !.todo = @ \cup kids[r.obj], !.obj = parent[r.obj]])
    <3> DEFINE s == [r EXCEPT !.todo = @ \cup kids[r.obj], !.obj = parent[r.obj]]
    <3>1. parent[r.obj] \in Object
      BY <1>1, <2>5
    <3>2. Serving(s)
      BY <1>1, <2>1, <3>1
         DEF Serving, Served, Stage, Back, Finished, ServesRequest, Seeks, Looking, RowsReal, ItemsPlaced
    <3> QED
      BY <2>5, <3>2
  <2> QED
    BY <1>5, <2>2, <2>3, <2>4, <2>5 DEF List
<1>6. CASE Describe(t)
  <2> DEFINE dirs  == {o \in r.todo : o.item.dir \/ (r.cmd = "put" /\ o.item # r.target)}
             items == {[item |-> o.item, phash |-> parent[o].item.path] : o \in r.todo}
             stage == IF dirs = {} THEN "done" ELSE "subdirs"
             s     == [r EXCEPT !.pc = stage, !.todo = dirs, !.items = items]
  <2>1. r.pc = "info"
    BY <1>6 DEF Describe, At
  <2>2. CASE Ends(t, "failed")
    BY <1>3, <2>2 DEF Finished
  <2>3. CASE GoOn(t, s) /\ \A o \in r.todo : parent[o] # NoObject
    <3>1. \A o \in r.todo : /\ o.item \in Item /\ parent[o].item.path \in Path
                            /\ LiesIn(o.item, parent[o].item.path)
      BY <1>1, <2>3 DEF Object, Item, CacheInv, ParentsAbove
    <3>2. items \subseteq Described /\ dirs \subseteq Object
      BY <1>1, <3>1 DEF Described
    <3>3. \A i \in items : LiesIn(i.item, i.phash)
      BY <3>1
    <3>4. stage \in {"done", "subdirs"}
      OBVIOUS
    <3> HIDE DEF dirs, items, stage
    <3>5. s \in Served
      BY <1>1, <3>2, <3>4 DEF Served, Stage, Finished
    <3>6. /\ s.pc = stage /\ s.cmd = r.cmd /\ s.target = r.target /\ s.name = r.name
          /\ s.back = r.back /\ s.at = r.at /\ s.items = items
      BY <1>1 DEF Served
    <3> HIDE DEF s
    <3>7. Serving(s)
      BY <1>1, <2>1, <3>3, <3>4, <3>5, <3>6
         DEF Serving, Finished, ServesRequest, Seeks, Looking, RowsReal, ItemsPlaced
    <3> QED
      BY <2>3, <3>7
  <2> QED
    BY <1>6, <2>2, <2>3 DEF Describe
<1>7. CASE HasChildFolder(t)
  <2>1. r.pc = "subdirs"
    BY <1>7 DEF HasChildFolder, At
  <2>2. CASE Ends(t, "done")
    BY <1>3, <2>2 DEF Finished
  <2>3. ASSUME NEW o \in r.todo, GoOn(t, [r EXCEPT !.pc = "ls", !.at = o, !.back = "subdirs"])
        PROVE  Goal
    <3> DEFINE s == [r EXCEPT !.pc = "ls", !.at = o, !.back = "subdirs"]
    <3>1. Serving(s)
      BY <1>1, <2>1
         DEF Serving, Served, Stage, Back, Finished, ServesRequest, Seeks, Looking, RowsReal, ItemsPlaced
    <3> QED
      BY <2>3, <3>1
  <2> QED
    BY <1>7, <2>2, <2>3 DEF HasChildFolder
<1>8. CASE Scp(t)
  BY <1>2, <1>3, <1>8 DEF Scp, At, Finished
<1>9. CASE Send(t)
  BY <1>3, <1>9 DEF Send, Finished
<1>10. CASE Write(t)
  <2> DEFINE s == [r EXCEPT !.pc = "info", !.todo = {r.obj}]
  <2>1. GoOn(t, s) /\ r.pc = "write"
    BY <1>10 DEF Write, At
  <2>2. Serving(s)
    BY <1>1, <2>1
       DEF Serving, Served, Stage, Back, Finished, ServesRequest, Seeks, Looking, RowsReal, ItemsPlaced
  <2> QED
    BY <2>1, <2>2
<1>11. CASE Paste(t)
  <2> DEFINE s == [r EXCEPT !.pc = "ls", !.at = r.obj, !.back = "done"]
  <2>1. GoOn(t, s) /\ r.pc = "paste"
    BY <1>11 DEF Paste, At
  <2>2. Serving(s)
    BY <1>1, <2>1
       DEF Serving, Served, Stage, Back, Finished, ServesRequest, Seeks, Looking, RowsReal, ItemsPlaced
  <2> QED
    BY <2>1, <2>2
<1> QED
  BY <1>4, <1>5, <1>6, <1>7, <1>8, <1>9, <1>10, <1>11

-----------------------------------------------------------------------------
(***************************************************************************)
(* The cache, and what is outside the server.                              *)
(***************************************************************************)

\* The objects of a listing lie where they are listed.
LEMMA AdoptAbove ==
    ASSUME CacheInv, NEW t \in Thread, NEW objects \in SUBSET Object, NEW rows,
           Adopt(t, objects, rows), req[t].pc \in {"fill", "new"},
           \A o \in objects : o.item \in req[t].rows
    PROVE  /\ parent' \in [Object -> Object \cup {NoObject}]
           /\ ParentsAbove'
<1> DEFINE r == req[t]
<1>1. r.at \in Object /\ RowsReal(r) /\ ServesRequest(r)
  BY DEF CacheInv, Serving, Served
<1>2. ASSUME NEW o \in objects
      PROVE  o.item # RootItem /\ LiesIn(o.item, r.at.item.path)
  <2>1. o.item # RootItem /\ (r.back = "found" \/ Real(r.at.item, o.item))
    BY <1>1, <1>2 DEF RowsReal
  <2>2. CASE r.back = "found"
    <3>1. r.at = RootObject
      BY <1>1, <2>2 DEF ServesRequest
    <3> QED
      BY <2>1, <3>1 DEF LiesIn, RootObject, RootItem
  <2>3. CASE Real(r.at.item, o.item)
    BY <2>1, <2>3 DEF Real, LiesIn
  <2> QED
    BY <2>1, <2>2, <2>3
<1>3. parent' = [o \in Object |-> IF o \in objects THEN r.at ELSE parent[o]]
  BY DEF Adopt
<1>4. parent' \in [Object -> Object \cup {NoObject}]
  BY <1>1, <1>3 DEF CacheInv, TypeOK
<1>5. ASSUME NEW o \in Object, parent'[o] # NoObject
      PROVE  o.item # RootItem /\ LiesIn(o.item, parent'[o].item.path)
  <2>1. CASE o \in objects
    BY <1>2, <1>3, <2>1
  <2>2. CASE o \notin objects
    BY <1>3, <1>5, <2>2 DEF CacheInv, ParentsAbove
  <2> QED
    BY <2>1, <2>2
<1> QED
  BY <1>4, <1>5 DEF ParentsAbove, LiesIn

\* What a lookup found, if anything, is where an object that was made for a failed
\* one lies.
LEMMA FindsAbove ==
    ASSUME CacheInv, NEW t \in Thread, Looked(t)
    PROVE  /\ parent' \in [Object -> Object \cup {NoObject}]
           /\ ParentsAbove'
<1> DEFINE r == req[t]
<1>1. /\ r.pc = "walk" /\ r.obj \in Object /\ Seeks(r)
      /\ parent \in [Object -> Object \cup {NoObject}] /\ ParentsAbove
  BY DEF CacheInv, TypeOK, Serving, Served, Looked, At
<1>2. /\ Ghost(r.target).path # Root
      /\ Parent(Ghost(r.target).path) = Volume \o Parent(r.target.path)
      /\ Ahead(r) \subseteq Object
  BY <1>1, LookingTypes
<1>3. ASSUME NEW k \in Object \cup {NoObject}, k # NoObject => k.item = r.seek,
             r.seek # r.target, parent' = [parent EXCEPT ![r.obj] = k]
      PROVE  /\ parent' \in [Object -> Object \cup {NoObject}]
             /\ ParentsAbove'
  <2>1. parent' \in [Object -> Object \cup {NoObject}]
    BY <1>1, <1>3
  <2>2. r.seek.path = Parent(r.target.path) /\ r.obj.item = Ghost(r.target)
    BY <1>1, <1>3 DEF Seeks, Looking, File
  <2>3. ASSUME NEW o \in Object, parent'[o] # NoObject
        PROVE  o.item # RootItem /\ LiesIn(o.item, parent'[o].item.path)
    <3>1. CASE o = r.obj
      <4>1. parent'[o] = k /\ k.item.path = Parent(r.target.path)
        BY <1>1, <1>3, <2>2, <2>3, <3>1
      <4>2. o.item.path # Root /\ Parent(o.item.path) = Volume \o k.item.path
        BY <1>2, <2>2, <3>1, <4>1
      <4> QED
        BY <4>1, <4>2 DEF LiesIn, RootItem
    <3>2. CASE o # r.obj
      <4>1. parent'[o] = parent[o]
        BY <1>1, <1>3, <3>2
      <4> QED
        BY <1>1, <2>3, <4>1 DEF ParentsAbove
    <3> QED
      BY <3>1, <3>2
  <2> QED
    BY <2>1, <2>3 DEF ParentsAbove, LiesIn
<1>4. CASE UNCHANGED parent
  BY <1>1, <1>4 DEF ParentsAbove, LiesIn
<1>5. ASSUME NEW k \in Object \cup {NoObject}, k # NoObject => k.item = r.seek, Finds(t, k)
      PROVE  /\ parent' \in [Object -> Object \cup {NoObject}]
             /\ ParentsAbove'
  BY <1>3, <1>4, <1>5 DEF Finds
<1>6. First(Ahead(r)) \subseteq Object
  BY <1>2 DEF First
<1>7. NoObject \in Object \cup {NoObject}
  OBVIOUS
<1> QED
  BY <1>5, <1>6, <1>7 DEF Looked

\* What a listing showed stays what it showed.
LEMMA RealKept ==
    ASSUME was \subseteq was'
    PROVE  /\ \A r : Serving(r) => Serving(r)'
           /\ UNCHANGED <<kids, listed>> /\ ListsWereReal => ListsWereReal'
BY DEF Serving, ServesRequest, Seeks, Looking, RowsReal, ItemsPlaced, LiesIn, Real, ListsWereReal

\* The objects that the repository holds for the lines of a listing.
LEMMA KnownObjects ==
    ASSUME CacheInv, NEW t \in Thread, TakeRow(t)
    PROVE  LET known   == {row \in req[t].rows : repo[row] # NoObject}
               objects == {repo[row] : row \in known}
           IN  objects \subseteq Object /\ \A o \in objects : o.item \in req[t].rows
<1>1. req[t].rows \subseteq Item
  BY DEF CacheInv, TypeOK, Served
<1>2. \A row \in req[t].rows : repo[row] # NoObject => repo[row] \in Object /\ repo[row].item = row
  BY <1>1 DEF CacheInv, TypeOK, RepoKeyed
<1> QED
  BY <1>2

\* The cache keeps its type, objects their parents above them, and lists what was there.
LEMMA ServeCache ==
    ASSUME CacheInv, NEW t \in Thread, Serve(t), was \subseteq was'
    PROVE  /\ repo' \in [Item -> Object \cup {NoObject}] /\ RepoKeyed'
           /\ parent' \in [Object -> Object \cup {NoObject}] /\ ParentsAbove'
           /\ kids' \in [Object -> SUBSET Object]
           /\ listed' \subseteq Object /\ ListsWereReal'
<1> DEFINE r == req[t]
           Kept == /\ kids' \in [Object -> SUBSET Object]
                   /\ listed' \subseteq Object /\ ListsWereReal'
<1>1. /\ r \in Served /\ RowsReal(r)
      /\ kids \in [Object -> SUBSET Object] /\ parent \in [Object -> Object \cup {NoObject}]
      /\ repo \in [Item -> Object \cup {NoObject}] /\ listed \subseteq Object
      /\ RepoKeyed /\ ParentsAbove /\ ListsWereReal
  BY DEF CacheInv, TypeOK, Serving
<1>2. /\ r.at \in Object /\ r.made \subseteq Object /\ r.rows \subseteq Item /\ r.new \in Item
  BY <1>1 DEF Served
<1>3. UNCHANGED <<kids, listed>> => Kept
  BY <1>1, RealKept
<1>4. ASSUME NEW i \in Item, repo' = [repo EXCEPT ![i] = [item |-> i, by |-> t]]
      PROVE  repo' \in [Item -> Object \cup {NoObject}] /\ RepoKeyed'
  <2> DEFINE o == [item |-> i, by |-> t]
  <2>1. o \in Object /\ o.item = i
    BY DEF Object
  <2> HIDE DEF o
  <2> QED
    BY <1>1, <1>4, <2>1 DEF RepoKeyed, o
<1>5. CASE UNCHANGED cache
  BY <1>1, <1>3, <1>5 DEF cache, RepoKeyed, ParentsAbove, LiesIn
<1>6. CASE TakeRow(t) /\ ~UNCHANGED cache
  <2> DEFINE known   == {row \in req[t].rows : repo[row] # NoObject}
             objects == {repo[row] : row \in known}
  <2>1. objects \subseteq Object /\ \A o \in objects : o.item \in r.rows
    BY <1>6, KnownObjects
  <2>2. Adopt(t, objects, known) /\ UNCHANGED <<repo, kids, listed>> /\ r.pc = "fill"
    BY <1>6 DEF TakeRow, At
  <2> HIDE DEF known, objects
  <2>3. parent' \in [Object -> Object \cup {NoObject}] /\ ParentsAbove'
    BY <2>1, <2>2, AdoptAbove
  <2> QED
    BY <1>1, <1>3, <2>2, <2>3 DEF RepoKeyed
<1>7. CASE PutNew(t)
  <2> DEFINE o == [item |-> r.new, by |-> t]
  <2>1. o \in Object /\ o.item = r.new
    BY <1>2 DEF Object
  <2>2. r.pc = "new" /\ r.new \in r.rows
    BY <1>1, <1>7 DEF PutNew, At, RowsReal
  <2>3. /\ Adopt(t, {o}, {r.new}) /\ UNCHANGED <<kids, listed>>
        /\ repo' = [repo EXCEPT ![r.new] = o]
    BY <1>7 DEF PutNew
  <2>4. repo' \in [Item -> Object \cup {NoObject}] /\ RepoKeyed'
    BY <1>2, <1>4, <2>3
  <2> HIDE DEF o
  <2>5. parent' \in [Object -> Object \cup {NoObject}] /\ ParentsAbove'
    BY <2>1, <2>2, <2>3, AdoptAbove
  <2> QED
    BY <1>3, <2>3, <2>4, <2>5
<1>8. CASE Filled(t) /\ ~UNCHANGED cache
  <2>1. /\ kids' = [kids EXCEPT ![r.at] = r.made] /\ listed' = listed \cup {r.at}
        /\ r.pc = "fill" /\ r.back # "found" /\ UNCHANGED <<repo, parent>>
    BY <1>8 DEF Filled, cache, At
  <2>2. \A o \in r.made : Real(r.at.item, o.item)
    BY <1>1, <2>1 DEF RowsReal
  <2>3. kids' \in [Object -> SUBSET Object] /\ listed' \subseteq Object
    BY <1>1, <1>2, <2>1
  <2>4. ASSUME NEW o \in listed', NEW k \in kids'[o]
        PROVE  \/ k.item \in was' /\ k.item.path # Root /\ Parent(k.item.path) = o.item.path
               \/ ~o.item.dir /\ k.item = o.item
    <3>1. CASE o = r.at
      BY <1>1, <1>2, <2>1, <2>2, <3>1 DEF Real
    <3>2. CASE o # r.at
      <4>1. o \in listed /\ k \in kids[o]
        BY <1>1, <2>1, <2>3, <2>4, <3>2
      <4> QED
        BY <1>1, <4>1 DEF ListsWereReal
    <3> QED
      BY <3>1, <3>2
  <2>5. ListsWereReal'
    BY <2>4 DEF ListsWereReal
  <2> QED
    BY <1>1, <2>1, <2>3, <2>5 DEF RepoKeyed, ParentsAbove, LiesIn
<1>9. CASE Looked(t)
  BY <1>1, <1>3, <1>9, FindsAbove DEF Looked, RepoKeyed
<1>10. CASE MakeGhost(t)
  <2>1. Ghost(r.target) \in Item
    BY <1>10, LookingTypes DEF MakeGhost, At
  <2>2. /\ repo' = [repo EXCEPT ![Ghost(r.target)] = [item |-> Ghost(r.target), by |-> t]]
        /\ UNCHANGED <<parent, kids, listed>>
    BY <1>10 DEF MakeGhost
  <2> QED
    BY <1>1, <1>3, <1>4, <2>1, <2>2 DEF ParentsAbove, LiesIn
<1> QED
  BY <1>5, <1>6, <1>7, <1>8, <1>9, <1>10
     DEF Serve, Walk, Missing, Ls, Find, SshFails, List, Describe, HasChildFolder, Scp, Send,
         Write, Paste

\* The remote tree stays one, and only the editor leaves a temporary file.
LEMMA ServeOutside ==
    ASSUME CacheInv, NEW t \in Thread, Serve(t)
    PROVE  /\ remote' \in Tree /\ was' \subseteq Item /\ was \subseteq was'
           /\ Items(remote') \subseteq was'
           /\ leftover' \subseteq Reading /\ DownloadsLeaveNothing'
           /\ UNCHANGED bounds
<1>1. /\ TypeOK /\ remote \in Tree /\ was \subseteq Item /\ Items(remote) \subseteq was
      /\ leftover \subseteq Reading /\ leftover \subseteq {"get"} /\ ServesRequest(req[t])
  BY DEF CacheInv, TypeOK, DownloadsLeaveNothing, Serving
<1>2. \A p : \A c \in Content : CatTo(remote, p, c) \in Tree
  BY <1>1 DEF CatTo, Tree, Entry
<1>3. ASSUME NEW p, NEW c \in Content, Becomes(CatTo(remote, p, c))
      PROVE  /\ remote' \in Tree /\ was' \subseteq Item /\ was \subseteq was'
             /\ Items(remote') \subseteq was'
  <2>1. CatTo(remote, p, c) \in Tree /\ TypeOK
    BY <1>1, <1>2
  <2> QED
    BY <1>3, <2>1, TreeBecomes
<1>4. UNCHANGED world => /\ remote' \in Tree /\ was' \subseteq Item /\ was \subseteq was'
                         /\ Items(remote') \subseteq was'
  BY <1>1 DEF world, Items, ItemOf, IsDirectory
<1>5. CASE Write(t) \/ Paste(t)
  BY <1>1, <1>3, <1>4, <1>5 DEF Write, Paste, DownloadsLeaveNothing
<1>6. CASE Send(t)
  BY <1>1, <1>4, <1>6 DEF Send, At, DownloadsLeaveNothing, ServesRequest, Reading, bounds
<1>7. CASE UNCHANGED <<world, leftover, bounds>>
  BY <1>1, <1>4, <1>7 DEF DownloadsLeaveNothing
<1> QED
  BY <1>5, <1>6, <1>7
     DEF Serve, Walk, Looked, Missing, MakeGhost, Ls, Find, TakeRow, PutNew, Filled, SshFails,
         List, Describe, HasChildFolder, Scp

\* A thread goes on with a request, and the others with theirs.
LEMMA AllServing ==
    ASSUME CacheInv, NEW t \in Thread, Serve(t) \/ \E q \in Request : Receive(t, q),
           was \subseteq was'
    PROVE  req' \in [Thread -> Served] /\ \A u \in Thread : Serving(req[u])'
<1>1. PICK s : Serving(s) /\ GoOn(t, s)
  BY ReceiveServed, LookServed, RowsServed, AnswerServed DEF Serve
<1>2. req'[t] = s /\ req' \in [Thread -> Served]
  BY <1>1, WentOn DEF CacheInv, Serving
<1>3. ASSUME NEW u \in Thread PROVE Serving(req[u])'
  <2>1. \E r : Serving(r) /\ req'[u] = r
    BY <1>1, <1>2, OthersWait DEF CacheInv
  <2>2. PICK r : Serving(r)' /\ req'[u] = r
    BY <2>1, RealKept
  <2> QED
    BY <2>2 DEF Serving, ServesRequest, Seeks, Looking, RowsReal, ItemsPlaced, LiesIn, Real
<1> QED
  BY <1>2, <1>3

\* No step breaks what holds of the cache.
LEMMA CacheNext == CacheInv /\ [Next]_vars => CacheInv'
<1> SUFFICES ASSUME CacheInv, [Next]_vars PROVE CacheInv'
  OBVIOUS
<1>1. ASSUME NEW t \in Thread, Serve(t) PROVE CacheInv'
  <2>1. TypeOK'
    BY <1>1, AllServing, ServeCache, ServeOutside DEF CacheInv, TypeOK, bounds
  <2> QED
    BY <1>1, <2>1, AllServing, ServeCache, ServeOutside DEF CacheInv
<1>2. ASSUME NEW t \in Thread, NEW q \in Request, Receive(t, q) PROVE CacheInv'
  <2>1. UNCHANGED <<world, cache, leftover, uploads>> /\ asked' \in 0 .. MaxRequests
    BY <1>2, BoundAssumption DEF CacheInv, TypeOK, Receive
  <2>2. was \subseteq was' /\ Items(remote') \subseteq was'
    BY <2>1 DEF CacheInv, world, Items, ItemOf, IsDirectory
  <2>3. TypeOK'
    BY <1>2, <2>1, <2>2, AllServing DEF CacheInv, TypeOK, cache, world
  <2>4. RepoKeyed' /\ ParentsAbove' /\ ListsWereReal' /\ DownloadsLeaveNothing'
    BY <2>1, <2>2, RealKept
       DEF CacheInv, cache, RepoKeyed, ParentsAbove, LiesIn, DownloadsLeaveNothing
  <2> QED
    BY <1>2, <2>2, <2>3, <2>4, AllServing DEF CacheInv
<1>3. ASSUME UNCHANGED <<cache, req, leftover>>, was \subseteq was'
      PROVE  /\ RepoKeyed' /\ ParentsAbove' /\ ListsWereReal' /\ DownloadsLeaveNothing'
             /\ \A t \in Thread : Serving(req[t])'
  <2>1. RepoKeyed' /\ ParentsAbove' /\ ListsWereReal' /\ DownloadsLeaveNothing'
    BY <1>3, RealKept
       DEF CacheInv, cache, RepoKeyed, ParentsAbove, LiesIn, DownloadsLeaveNothing
  <2>2. \A t \in Thread : Serving(req[t])'
    BY <1>3
       DEF CacheInv, Serving, ServesRequest, Seeks, Looking, RowsReal, ItemsPlaced, LiesIn, Real
  <2> QED
    BY <2>1, <2>2
<1>4. ASSUME NEW u \in Upload, Uploaded(u) PROVE CacheInv'
  <2> DEFINE tree == IF u.entry = Absent THEN RmRf(remote, u.path)
                     ELSE [remote EXCEPT ![u.path] = u.entry]
  <2>1. u.entry \in Entry
    BY UploadAssumption
  <2>2. tree \in Tree /\ Becomes(tree)
    BY <1>4, <2>1 DEF Uploaded, CacheInv, TypeOK, Tree, RmRf, Entry
  <2> HIDE DEF tree
  <2>3. remote' \in Tree /\ was' \subseteq Item /\ was \subseteq was' /\ Items(remote') \subseteq was'
    BY <2>2, TreeBecomes DEF CacheInv
  <2>4. UNCHANGED <<cache, req, leftover, asked>> /\ uploads' \in 0 .. MaxUploads
    BY <1>4, BoundAssumption DEF Uploaded, CacheInv, TypeOK
  <2>5. TypeOK'
    BY <2>3, <2>4 DEF CacheInv, TypeOK, cache
  <2> QED
    BY <1>3, <2>3, <2>4, <2>5 DEF CacheInv
<1>5. ASSUME UNCHANGED vars PROVE CacheInv'
  <2>1. TypeOK' /\ Items(remote') \subseteq was'
    BY <1>5 DEF vars, world, cache, CacheInv, TypeOK, Items, ItemOf, IsDirectory
  <2> QED
    BY <1>3, <1>5, <2>1 DEF vars, world, CacheInv
<1> QED
  BY <1>1, <1>2, <1>4, <1>5 DEF Next

-----------------------------------------------------------------------------
(***************************************************************************)
(* The theorems.                                                           *)
(***************************************************************************)

\* The invariant of the cache holds in every state.
THEOREM CacheInvariant == Spec => []CacheInv
BY CacheInit, CacheNext, PTL DEF Spec

\* What the server keeps, and what every request is at, has its type.
THEOREM TypeCorrect == Spec => []TypeOK
<1>1. CacheInv => TypeOK
  BY DEF CacheInv
<1> QED
  BY <1>1, CacheInvariant, PTL

\* The parent of an object is where it lies, whatever requests, searches, failed
\* lookups and changes of the remote tree cross each other.
THEOREM ClimbingEnds == Spec => []ParentsAbove
<1>1. CacheInv => ParentsAbove
  BY DEF CacheInv
<1> QED
  BY <1>1, CacheInvariant, PTL

\* The cached lists show what is or was there, and the answers place items where they
\* lie, while others remove and replace files.
THEOREM ListingsAreTrue == Spec => []ListingsTrue
<1>1. CacheInv => ListingsTrue
  BY DEF CacheInv, Serving, ItemsPlaced, ListingsTrue, PlacedWhereItLies
<1> QED
  BY <1>1, CacheInvariant, PTL

\* Only the editor leaves temporary files.
THEOREM DownloadsClean == Spec => []DownloadsLeaveNothing
<1>1. CacheInv => DownloadsLeaveNothing
  BY DEF CacheInv
<1> QED
  BY <1>1, CacheInvariant, PTL
=============================================================================
