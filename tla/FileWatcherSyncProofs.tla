------------------------ MODULE FileWatcherSyncProofs ------------------------
EXTENDS FileWatcherProofs, IntervalTheorems
-----------------------------------------------------------------------------
(***************************************************************************)
(* No entry that differs from its remote copy is forgotten: the proofs of  *)
(* UploadPending and RemovalPending, for every tree, every set of keys and *)
(* every bound.                                                            *)
(*                                                                         *)
(* HandlersInv follows the creations of entries; here their changes and    *)
(* deletions are followed too, to the handler that brings the remote copy  *)
(* in step.  The hard case is a deletion that is lost: the kernel drops    *)
(* what the key of a directory collects while it is being processed, when  *)
(* the directory is removed then.  The deletion of the directory itself is *)
(* to be processed in that case, and must be before the directory can come *)
(* back, which is what the order of the queue is needed for.               *)
(***************************************************************************)

Modified(p) == [kind |-> "modify", path |-> p]

Removal   == {"removeFile", "removeDir"}
Processed == {"check"} \cup Handling

\* An event of a key is being processed, or the next is waited for.
InLoop == pc \in Watching \/ (pc \in Adding /\ ev.kind # "add")

-----------------------------------------------------------------------------
\* The thread.

\* What the handlers and the event of each stage are.
StagesInv ==
    /\ pc \in Processed => ev.kind # "add"
    /\ pc \in Adding => ev.kind # "modify"
    /\ pc = "mkdir" => watched[ev.path] = "createDir"
    /\ pc \in {"parent", "open", "copy"} => watched[ev.path] = "uploadFile"
    /\ pc \in {"mkdir", "parent", "open", "copy"} => ev.kind # "delete"
    /\ pc = "notify" /\ ev.kind = "delete" /\ ev.path \notin Ignored =>
         watched[ev.path] \in Removal \/ ~ByNameToBeWatched(ev.path)
    /\ pc = "copy" => remote[ev.path] = Torn /\ sent \in Content

-----------------------------------------------------------------------------
\* The keys.

\* A directory that has a key exists and has a handler.
KeysHandled ==
    \A k \in Key : ws.keys[k].valid =>
        /\ ws.keys[k].dir \in Path /\ watched[ws.keys[k].dir] # "none"
        /\ IsDirectory(local, ws.keys[k].dir)

\* In queue q, a is served before b.
Before(q, a, b) == \A m, n \in DOMAIN q : q[m] = a /\ q[n] = b => m < n

\* An old key of a directory is served before the keys of the directories in it.
ParentsFirst(s, c) ==
    \A k, q \in Key :
        /\ s.keys[k].valid /\ ~s.keys[q].valid /\ q \in ToSet(s.queue)
        /\ s.keys[k].dir # Root /\ s.keys[q].dir = Parent(s.keys[k].dir)
        => k # c /\ Before(s.queue, q, k)

\* Nothing is told of the source root itself.
NoRootEvents ==
    /\ \A k \in Key : \A x \in ToSet(ws.keys[k].events) : x.path # Root
    /\ \A x \in ToSet(batch) : x.path # Root
    /\ pc \in Processed \cup Adding /\ ev.kind # "add" => ev.path # Root

\* What is taken from a key is of its directory's entries.
BatchOwn ==
    cur \in Key =>
        /\ \A x \in ToSet(batch) : x = Overflow \/ Parent(x.path) = ws.keys[cur].dir
        /\ pc \in Processed \cup Adding /\ ev.kind # "add" => Parent(ev.path) = ws.keys[cur].dir

\* Every x in a list is followed by y, or by the loss of all events.
Follows(evs, x, y) ==
    \A m \in DOMAIN evs : evs[m] = x =>
        \E n \in DOMAIN evs : n > m /\ evs[n] \in {y, Overflow}

\* A change of an entry that is gone is followed by its deletion.
ModifiedClosed(s, p) ==
    \A k \in Key : ~s.keys[k].valid \/ local[p] = Absent =>
        Follows(s.keys[k].events, Modified(p), Deleted(p))

-----------------------------------------------------------------------------
\* The entries.

\* The creation of p is on its way to the handler it installs.
New(p) ==
    \/ Coming(ws, cur, batch, Created(p)) \/ BeingAdded(p)
    \/ p \in listed \/ (pc \in Adding /\ ev = Add(p))
    \/ pc = "boot" \/ (p = Root /\ pc \in {"connect", "root"})

\* The handler of an existing entry is the one for its kind.
HandlerFits(p) ==
    /\ local[p] \in Content /\ ByNameToBeWatched(p) => watched[p] = "uploadFile" \/ New(p)
    /\ IsDirectory(local, p) => watched[p] = "createDir" \/ New(p)

\* A deletion of p is on its way to the handler it runs.
Deleting(p)    == pc \in Adding \cup {"notify", "remove"} /\ ev = Deleted(p)
OwnDeletion(p) == Coming(ws, cur, batch, Deleted(p)) \/ Deleting(p)

\* The next key of the directory that d was in tells of its deletion.
ServedFirst(s, c, d) ==
    /\ c \in Key => s.keys[c].dir # Parent(d)
    /\ \E q \in ToSet(s.queue) :
         /\ s.keys[q].dir = Parent(d) /\ Tells(s, q, Deleted(d))
         /\ \A j \in ToSet(s.queue) \ {q} : s.keys[j].dir = Parent(d) => Before(s.queue, q, j)

\* So is the deletion of the directory p was in.
ParentsDeletion(p) ==
    /\ p # Root /\ InLoop /\ watched[Parent(p)] # "none"
    /\ \/ \E x \in ToSet(batch) : x \in {Deleted(Parent(p)), Overflow}
       \/ Deleting(Parent(p))
       \/ local[p] = Absent /\ ~Watched(ws, Parent(p)) /\ ServedFirst(ws, cur, Parent(p))

DelSoon(p) == OwnDeletion(p) \/ ParentsDeletion(p)

\* addToWatched knows p by its name, or has found it to be watched.
Named(p) == ByNameToBeWatched(p) \/ (pc \in {"kind", "register"} /\ ev.path = p)

\* What is at p in the remote tree has to go.
Blocked(p) == local[p] = Dir /\ IsFile(remote, p)

Obstacle(p) ==
    \/ local[p] = Absent /\ remote[p] # Absent
    \/ local[p] \in Content /\ remote[p] = Dir
    \/ Blocked(p)

RemovalInv(p) == Named(p) /\ Obstacle(p) => DelSoon(p)
KnownInv(p)   == Blocked(p) => ByNameToBeWatched(p)

\* mkdir -p of what is no directory any more is undone.
MkdirInv(p) ==
    /\ watched[p] = "createDir" /\ local[p] = Absent
    /\ Modified(p) \in ToSet(batch) \/ (pc \in {"notify", "mkdir"} /\ ev.path = p)
    => DelSoon(p)

\* A creation or change of p is on its way to the look at the local tree.
Uploading(p) ==
    /\ ev.path = p /\ ev.kind \in {"create", "modify"}
    /\ pc \in {"check", "notify", "mkdir", "parent", "open"} \cup Adding

UpSoon(p) ==
    \/ Coming(ws, cur, batch, Created(p)) \/ Coming(ws, cur, batch, Modified(p))
    \/ Uploading(p)

UploadInv(p) ==
    /\ IsDirectory(local, p) \/ Named(p)
    /\ local[p] # Absent /\ remote[p] # local[p]
    => Copying(p) \/ UpSoon(p)

\* The invariant, in the order in which its parts rest on each other.
KeysInv ==
    /\ KeysHandled /\ ParentsFirst(ws, cur) /\ NoRootEvents /\ BatchOwn
    /\ \A p \in Path : ModifiedClosed(ws, p)

FitsInv    == \A p \in Path \ (Ignored \cup unseen) : HandlerFits(p)
RemovedInv == \A p \in Path \ (Ignored \cup stale) :
                 RemovalInv(p) /\ KnownInv(p) /\ MkdirInv(p)
UploadedInv == \A p \in Path \ (Ignored \cup lost) : UploadInv(p)

SyncInv ==
    /\ WellFormed(local)
    /\ Alive => StagesInv /\ KeysInv /\ FitsInv /\ RemovedInv /\ UploadedInv
-----------------------------------------------------------------------------
(***************************************************************************)
(* Paths and trees.                                                        *)
(***************************************************************************)

\* The parent of a path without its last name.
LEMMA FrontFacts ==
    ASSUME NEW p \in Seq(Name), p # <<>>
    PROVE  /\ Front(p) \in Seq(Name) /\ Len(Front(p)) = Len(p) - 1
           /\ \A i \in 1 .. Len(p) - 1 : Front(p)[i] = p[i]
<1>1. Len(p) \in Nat \ {0} /\ \A i \in 1 .. Len(p) : p[i] \in Name
  OBVIOUS
<1> DEFINE n == Len(p) - 1
           q == SubSeq(p, 1, n)
<1>2. /\ n \in Nat /\ n \in Int /\ 1 \in Int
      /\ \A i \in 1 .. n : p[i] \in Name
  BY <1>1
<1> HIDE DEF n
<1>3. /\ q \in Seq(Name)
      /\ Len(q) = IF 1 <= n THEN n - 1 + 1 ELSE 0
      /\ \A i \in 1 .. n - 1 + 1 : q[i] = p[1 + i - 1]
  BY <1>2, SubSeqProperties
<1> HIDE DEF q
<1>4. Len(q) = n
  BY <1>2, <1>3
<1>5. n - 1 + 1 = n /\ \A i \in 1 .. n : 1 + i - 1 = i
  BY <1>2
<1>6. \A i \in 1 .. n : q[i] = p[i]
  BY <1>3, <1>5
<1> QED
  BY <1>3, <1>4, <1>6 DEF Front, n, q

\* The parent of a path, and what is above it.
LEMMA ParentFacts ==
    /\ Parent(Root) = Root
    /\ \A p \in Path \ {Root} :
         /\ Len(Parent(p)) = Len(p) - 1 /\ Len(p) \in Nat \ {0}
         /\ Parent(p) \in Path /\ Parent(p) # p
    /\ \A p \in Path : Parent(p) \in Path /\ Len(p) \in Nat /\ (Len(p) = 0 => p = Root)
<1>1. Parent(Root) = Root
  BY DEF Parent, Front, Root
<1>2. ASSUME NEW p \in Path \ {Root}
      PROVE  /\ Len(Parent(p)) = Len(p) - 1 /\ Len(p) \in Nat \ {0}
             /\ Parent(p) \in Path /\ Parent(p) # p
  <2>1. p \in Seq(Name) /\ Len(p) > 0 /\ Len(p) \in Nat /\ Front(p) \in Path
    BY PathAssumption
  <2>2. Len(Front(p)) = Len(p) - 1
    BY <2>1, FrontFacts
  <2> QED
    BY <2>1, <2>2 DEF Parent
<1>3. ASSUME NEW p \in Path
      PROVE  Parent(p) \in Path /\ Len(p) \in Nat /\ (Len(p) = 0 => p = Root)
  <2>1. p \in Seq(Name) /\ Root \in Path
    BY PathAssumption
  <2> QED
    BY <1>1, <1>2, <2>1
<1> QED
  BY <1>1, <1>2, <1>3

\* No directory lies beside what is in it.
LEMMA ParentsApart ==
    ASSUME NEW p \in Path, Parent(p) # Root
    PROVE  Parent(Parent(p)) # Parent(p)
BY ParentFacts

\* A path is its own prefix, and its parent is one.
LEMMA UptoFacts ==
    ASSUME NEW p \in Path
    PROVE  /\ p \in Upto(p) /\ Parent(p) \in Upto(p) /\ p \in Below(p)
           /\ p \in Below(Parent(p))
           /\ Upto(p) \ {p} \subseteq Upto(Parent(p))
           /\ \A d \in Upto(p) \ {p} : Len(d) < Len(p)
           /\ \A d \in Path : p \in Below(d) <=> d \in Upto(p)
<1>1. \A q \in Path : q \in Seq(Name) /\ Len(q) \in Nat
  BY PathAssumption
<1>2. \A q \in Path : IsPrefix(q, q)
  <2> SUFFICES ASSUME NEW q \in Path PROVE IsPrefix(q, q)
    OBVIOUS
  <2> QED
    BY <1>1 DEF IsPrefix
<1>3. Parent(p) \in Path
  BY ParentFacts
<1>4. p \in Upto(p) /\ Parent(p) \in Upto(p)
  BY <1>2, <1>3, UptoParent DEF Upto
<1>5. \A d \in Path : p \in Below(d) <=> d \in Upto(p)
  BY DEF Upto, Below
<1>6. ASSUME NEW d \in Upto(p) \ {p}
      PROVE  d \in Upto(Parent(p)) /\ Len(d) < Len(p)
  <2>1. /\ d \in Path /\ d \in Seq(Name) /\ p \in Seq(Name)
        /\ Len(d) <= Len(p) /\ SubSeq(d, 1, Len(d)) = SubSeq(p, 1, Len(d))
        /\ Len(d) \in Nat /\ Len(p) \in Nat
    BY <1>1 DEF Upto, IsPrefix
  <2>2. Len(d) # Len(p)
    <3>1. SubSeq(d, 1, Len(d)) = d /\ SubSeq(p, 1, Len(p)) = p
      BY <2>1
    <3> QED
      BY <2>1, <3>1
  <2>3. p # Root /\ Len(d) <= Len(p) - 1
    <3>1. Len(Root) = 0
      BY DEF Root
    <3> QED
      BY <2>1, <2>2, <3>1
  <2>4. /\ Front(p) \in Seq(Name) /\ Len(Front(p)) = Len(p) - 1
        /\ \A i \in 1 .. Len(d) : Front(p)[i] = p[i]
    <3>1. \A i \in 1 .. Len(d) : i \in 1 .. Len(p) - 1
      BY <2>1, <2>3
    <3> QED
      BY <2>1, <2>3, <3>1, FrontFacts DEF Root
  <2>5. SubSeq(Front(p), 1, Len(d)) = SubSeq(p, 1, Len(d))
    BY <2>1, <2>3, <2>4
  <2>6. IsPrefix(d, Front(p))
    BY <2>1, <2>3, <2>4, <2>5 DEF IsPrefix
  <2> QED
    BY <1>3, <2>1, <2>2, <2>6 DEF Upto, Parent
<1>7. p \in Below(p) /\ p \in Below(Parent(p))
  BY <1>3, <1>4, <1>5
<1> QED
  BY <1>4, <1>5, <1>6, <1>7

\* In a well-formed tree, whatever is above an entry is a directory.
LEMMA AboveAreDirectories ==
    ASSUME NEW t, WellFormed(t), NEW p \in Path, t[p] # Absent, NEW d \in Upto(p) \ {p}
    PROVE  t[d] = Dir
<1> SUFFICES ASSUME t[d] # Dir PROVE FALSE
  OBVIOUS
<1> DEFINE B == {a \in Path : d \in Upto(a) \ {a} /\ t[a] # Absent}
           S == {Len(a) : a \in {b \in B : Len(b) <= Len(p)}}
<1>1. \A a \in Path : Len(a) \in Nat
  BY ParentFacts
<1>2. p \in B
  OBVIOUS
<1>3. S \in SUBSET (0 .. Len(p)) /\ S # {}
  BY <1>1, <1>2
<1>4. PICK m \in S : \A n \in S : m <= n
  <2>1. 0 \in Int /\ Len(p) \in Int
    BY <1>1
  <2> HIDE DEF S
  <2> QED
    BY <1>3, <2>1, LeastExists
<1>5. PICK a \in B : Len(a) = m /\ Len(a) <= Len(p)
  BY <1>4
<1>6. /\ a \in Path /\ Len(d) < Len(a) /\ d \in Upto(Parent(a)) /\ d \in Path
  BY UptoFacts DEF Upto
<1>7. a # Root
  BY <1>1, <1>6 DEF Root
<1>8. t[Parent(a)] = Dir /\ Parent(a) \in Path /\ Len(Parent(a)) = Len(a) - 1
  BY <1>7, ParentFacts DEF WellFormed
<1>9. Parent(a) # d
  BY <1>8
<1>10. Parent(a) \in B
  BY <1>6, <1>8, <1>9 DEF Dir, Absent
<1>11. Len(a) \in Nat /\ Len(p) \in Nat /\ Len(Parent(a)) <= Len(p)
  BY <1>1, <1>5, <1>8
<1>12. Len(Parent(a)) \in S
  BY <1>10, <1>11
<1> QED
  BY <1>4, <1>5, <1>8, <1>11, <1>12

-----------------------------------------------------------------------------
(***************************************************************************)
(* Steps.                                                                  *)
(***************************************************************************)

\* A thread that serves events started just now, or did before the step.
LEMMA AliveSteps ==
    ASSUME [Next]_vars, Alive', ~Restart, vars' # vars
    PROVE  Alive /\ (Developer \/ Start \/ Adds \/ Watch \/ Handle)
<1>1. Next /\ ~Restart
  OBVIOUS
<1>2. Alive
  <2> USE DEF Alive, Running, Stopped
  <2>1. CASE Developer
    BY <2>1 DEF Developer, CreateFile, ReplaceFile, WriteFile, DeleteFile,
                MakeDirectory, RemoveDirectory, Change
  <2>2. CASE Start
    BY <2>2 DEF Start, ListFiles, TestConnections, AddRoot, AddListed, StartWatching
  <2>3. CASE Adds
    BY <2>3 DEF Adds, Filter, AddFile, AddDirectory, Register, RegisterFails
  <2>4. CASE Watch
    BY <2>4 DEF Watch, Poll, PollClosed, NextEvent, NextEventFails, Reset, Check, Notify
  <2>5. CASE Handle
    BY <2>5 DEF Handle, CreateDir, MakeParent, OpenFile, CopyFile, RemoveEntry
  <2>6. CASE Close \/ Halt
    BY <2>6 DEF Close, Halt
  <2> QED
    BY <1>1, <2>1, <2>2, <2>3, <2>4, <2>5, <2>6 DEF Next, Program
<1>3. ~Close /\ ~Halt
  BY <1>2, StoppedStep
<1> QED
  BY <1>1, <1>2, <1>3 DEF Next, Program

\* What the watch service makes of a change of kind at p.
Told(s, kind, p) ==
    LET t == Deliver(s, [kind |-> kind, path |-> p])
    IN  IF kind = "delete" /\ IsDirectory(local, p) THEN Invalidate(t, p) ELSE t

\* A change by the developer, of entry p to entry, of which the kernel tells.
Changes(kind, p, entry) ==
    /\ p \in Path \ {Root} /\ kind \in EventKind /\ entry \in {Absent, Dir} \cup Content
    /\ \E deed : Change(deed, kind, p, entry)
    /\ ws' = Told(ws, kind, p)
    /\ kind = "delete" <=> entry = Absent
    /\ local[p] = Absent => kind = "create" /\ IsDirectory(local, Parent(p))
    /\ entry = Dir => local[p] = Absent
    /\ local[p] = Dir => entry = Absent /\ Children(local, p) = {}

\* Whatever the developer does is such a change.
LEMMA DeveloperChanges ==
    ASSUME TypeInv, local[Root] = Dir, Developer
    PROVE  \E kind, p, entry : Changes(kind, p, entry)
<1> USE DEF EventKind
<1>1. /\ local \in [Path -> {Absent, Dir} \cup Content]
      /\ Dir \notin Content /\ Absent \notin Content /\ Dir # Absent
  BY ContentAssumption DEF TypeInv, TypeOK, Dir, Absent
<1>2. ASSUME NEW p \in Path, NEW c \in Content, CreateFile(p, c)
      PROVE  Changes("create", p, c)
  BY <1>1, <1>2 DEF CreateFile, Changes, Told
<1>3. ASSUME NEW p \in Path, NEW c \in Content, ReplaceFile(p, c)
      PROVE  Changes("create", p, c)
  BY <1>1, <1>3 DEF ReplaceFile, Changes, Told
<1>4. ASSUME NEW p \in Path, NEW c \in Content, WriteFile(p, c)
      PROVE  Changes("modify", p, c)
  BY <1>1, <1>4 DEF WriteFile, Changes, Told
<1>5. ASSUME NEW p \in Path, DeleteFile(p)
      PROVE  Changes("delete", p, Absent)
  BY <1>1, <1>5 DEF DeleteFile, Changes, Told, IsDirectory
<1>6. ASSUME NEW p \in Path, MakeDirectory(p)
      PROVE  Changes("create", p, Dir)
  BY <1>1, <1>6 DEF MakeDirectory, Changes, Told
<1>7. ASSUME NEW p \in Path, RemoveDirectory(p)
      PROVE  Changes("delete", p, Absent)
  BY <1>1, <1>7 DEF RemoveDirectory, Changes, Told, IsDirectory
<1> QED
  BY <1>2, <1>3, <1>4, <1>5, <1>6, <1>7 DEF Developer

\* What a change leaves alone.
LEMMA ChangesFacts ==
    ASSUME TypeInv, NEW kind, NEW a, NEW entry, Changes(kind, a, entry)
    PROVE  /\ UNCHANGED <<remote, watched, pc, listed, cur, batch, ev, sent, closed>>
           /\ local'[a] = entry /\ \A p \in Path \ {a} : local'[p] = local[p]
           /\ [kind |-> kind, path |-> a] \in Event
           /\ \A p \in Path \ {a} :
                (p \in stale => p \in stale') /\ (p \in unseen => p \in unseen')
           /\ ~Watched(ws, Parent(a)) =>
                IF entry = Absent THEN Below(a) \subseteq stale' ELSE a \in stale'
<1>1. PICK deed : Change(deed, kind, a, entry)
  BY DEF Changes
<1>2. local \in [Path -> {Absent, Dir} \cup Content] /\ a \in Path /\ kind \in EventKind
  BY DEF TypeInv, TypeOK, Changes
<1>3. UNCHANGED <<remote, watched, pc, listed, cur, batch, ev, sent, closed>>
  BY <1>1 DEF Change
<1>4. local'[a] = entry /\ \A p \in Path \ {a} : local'[p] = local[p]
  BY <1>1, <1>2 DEF Change
<1>5. [kind |-> kind, path |-> a] \in Event
  BY <1>2 DEF Event
<1>6. \A p \in Path \ {a} : (p \in stale => p \in stale') /\ (p \in unseen => p \in unseen')
  BY <1>1 DEF Change
<1>7. ~Watched(ws, Parent(a)) =>
        IF entry = Absent THEN Below(a) \subseteq stale' ELSE a \in stale'
  BY <1>1 DEF Change
<1> QED
  BY <1>3, <1>4, <1>5, <1>6, <1>7

\* Only the developer changes the local tree.
LEMMA OnlyDeveloperChanges ==
    ASSUME [Next]_vars, ~Developer
    PROVE  local' = local
<1>1. ASSUME Start PROVE local' = local
  BY <1>1 DEF Start, ListFiles, TestConnections, AddRoot, AddListed, StartWatching, developer
<1>2. ASSUME Adds PROVE local' = local
  BY <1>2 DEF Adds, Filter, AddFile, AddDirectory, Register, RegisterFails, developer
<1>3. ASSUME Watch PROVE local' = local
  BY <1>3 DEF Watch, Poll, PollClosed, NextEvent, NextEventFails, Reset, Check, Notify,
              developer
<1>4. ASSUME Handle PROVE local' = local
  BY <1>4 DEF Handle, CreateDir, MakeParent, OpenFile, CopyFile, RemoveEntry, developer
<1>5. ASSUME Close \/ Halt \/ Restart PROVE local' = local
  BY <1>5 DEF Close, Halt, Restart, developer
<1> QED
  BY <1>1, <1>2, <1>3, <1>4, <1>5 DEF Next, Program, vars

\* The local tree stays well-formed.
LEMMA TreeNext ==
    ASSUME TypeInv, WellFormed(local), [Next]_vars
    PROVE  WellFormed(local)'
<1>1. CASE Developer
  <2>1. local[Root] = Dir
    BY DEF WellFormed
  <2>2. PICK kind, a, entry : Changes(kind, a, entry)
    BY <1>1, <2>1, DeveloperChanges
  <2>3. local'[a] = entry /\ \A p \in Path \ {a} : local'[p] = local[p]
    BY <2>2, ChangesFacts
  <2>4. Root \in Path /\ a # Root /\ local'[Root] = Dir /\ a \in Path
    BY <2>1, <2>2, <2>3, PathAssumption DEF Changes
  <2>5. ASSUME NEW p \in Path \ {Root}, local'[p] # Absent
        PROVE  local'[Parent(p)] = Dir
    <3>1. Parent(p) \in Path /\ Parent(p) # p
      BY ParentFacts
    <3>2. local[Parent(p)] = Dir
      <4>1. CASE p = a
        BY <2>2, <4>1 DEF Changes, WellFormed, IsDirectory
      <4>2. CASE p # a
        BY <2>3, <2>5, <4>2 DEF WellFormed
      <4> QED
        BY <4>1, <4>2
    <3>3. Parent(p) # a
      <4> SUFFICES ASSUME Parent(p) = a PROVE FALSE
        OBVIOUS
      <4>1. entry = Absent /\ Children(local, a) = {}
        BY <2>2, <3>2 DEF Changes
      <4>2. p # a /\ local[p] # Absent
        BY <2>3, <2>5, <3>1
      <4> QED
        BY <4>1, <4>2 DEF Children
    <3> QED
      BY <2>3, <3>1, <3>2, <3>3
  <2> QED
    BY <2>4, <2>5 DEF WellFormed
<1>2. CASE ~Developer
  BY <1>2, OnlyDeveloperChanges DEF WellFormed
<1> QED
  BY <1>1, <1>2

-----------------------------------------------------------------------------
(***************************************************************************)
(* The watch service, key by key.                                          *)
(***************************************************************************)

\* The queue of t is that of s, or has more keys after them.
Extends(s, t) ==
    /\ ToSet(s.queue) \subseteq ToSet(t.queue)
    /\ \A q \in ToSet(s.queue), j \in Key : Before(s.queue, q, j) => Before(t.queue, q, j)

\* A queue with one more key.
LEMMA AppendExtends ==
    ASSUME NEW s \in Service, NEW t \in Service, NEW k \in Key, k \notin ToSet(s.queue),
           t.queue = Append(s.queue, k)
    PROVE  Extends(s, t) /\ ToSet(t.queue) = ToSet(s.queue) \cup {k}
<1>1. s.queue \in Seq(Key)
  BY DEF Service
<1>2. ToSet(t.queue) = ToSet(s.queue) \cup {k}
  BY <1>1, ToSetAppend
<1>3. /\ DOMAIN t.queue = 1 .. Len(s.queue) + 1 /\ DOMAIN s.queue = 1 .. Len(s.queue)
      /\ Len(s.queue) \in Nat
      /\ \A m \in DOMAIN s.queue : t.queue[m] = s.queue[m]
      /\ t.queue[Len(s.queue) + 1] = k
  BY <1>1
<1>4. ASSUME NEW q \in ToSet(s.queue), NEW j \in Key, Before(s.queue, q, j),
             NEW m \in DOMAIN t.queue, NEW n \in DOMAIN t.queue,
             t.queue[m] = q, t.queue[n] = j
      PROVE  m < n
  <2>1. q # k
    OBVIOUS
  <2>2. m \in DOMAIN s.queue
    BY <1>3, <1>4, <2>1
  <2>3. n \in DOMAIN s.queue \/ n = Len(s.queue) + 1
    BY <1>3
  <2>4. CASE n \in DOMAIN s.queue
    BY <1>3, <1>4, <2>2, <2>4 DEF Before
  <2>5. CASE n = Len(s.queue) + 1
    BY <1>3, <2>2, <2>5
  <2> QED
    BY <2>3, <2>4, <2>5
<1> QED
  BY <1>2, <1>4 DEF Extends, Before

\* Signalling a key.
LEMMA SignalExtends ==
    ASSUME NEW s \in Service, NEW k \in Key, NEW ks \in KeyState,
           ~s.keys[k].signalled => k \notin ToSet(s.queue),
           NEW t, t = SignalKey(s, k, ks)
    PROVE  Extends(s, t) /\ ToSet(t.queue) \subseteq ToSet(s.queue) \cup {k}
<1>1. t \in Service
  BY SignalKeyType
<1>2. CASE s.keys[k].signalled
  <2>1. t.queue = s.queue
    BY <1>2 DEF SignalKey
  <2> QED
    BY <2>1 DEF Extends
<1>3. CASE ~s.keys[k].signalled
  <2>1. t.queue = Append(s.queue, k)
    BY <1>3 DEF SignalKey
  <2> QED
    BY <1>1, <1>3, <2>1, AppendExtends
<1> QED
  BY <1>2, <1>3

\* What Deliver does to each key.
LEMMA DeliverKeys ==
    ASSUME NEW s \in Service, NEW c, ServiceInv(s, c), NEW e \in Event,
           NEW t, t = Deliver(s, e)
    PROVE  /\ t \in Service /\ ServiceInv(t, c) /\ Extends(s, t)
           /\ \A j \in ToSet(t.queue) \ ToSet(s.queue) : s.keys[j].valid
           /\ \A j \in Key :
                /\ t.keys[j].dir = s.keys[j].dir /\ (t.keys[j].valid <=> s.keys[j].valid)
                /\ t.keys[j].events =
                     IF s.keys[j].valid /\ s.keys[j].dir = Parent(e.path)
                     THEN AddEvent(s.keys[j].events, e) ELSE s.keys[j].events
<1>1. CASE ~Watched(s, Parent(e.path))
  <2>1. t = s
    BY <1>1 DEF Deliver
  <2>2. \A j \in Key : ~(s.keys[j].valid /\ s.keys[j].dir = Parent(e.path))
    BY <1>1 DEF Watched, ValidKeys
  <2> QED
    BY <2>1, <2>2 DEF Extends
<1>2. CASE Watched(s, Parent(e.path))
  <2>1. t \in Service /\ ServiceInv(t, c)
    BY <1>2, DeliverFacts
  <2>2. PICK k \in Key :
          /\ s.keys[k].valid /\ s.keys[k].dir = Parent(e.path)
          /\ t.keys[k].valid /\ t.keys[k].dir = Parent(e.path)
          /\ t.keys[k].events = AddEvent(s.keys[k].events, e)
          /\ \A j \in Key \ {k} : t.keys[j] = s.keys[j]
    BY <1>2, DeliverFacts
  <2>3. \A j \in Key \ {k} : ~(s.keys[j].valid /\ s.keys[j].dir = Parent(e.path))
    BY <2>2 DEF ServiceInv, OneKey
  <2>4. Extends(s, t) /\ ToSet(t.queue) \subseteq ToSet(s.queue) \cup {k}
    <3> DEFINE i == CHOOSE x \in ValidKeys(s, Parent(e.path)) : TRUE
               ks == [s.keys[i] EXCEPT !.events = AddEvent(@, e)]
    <3>1. i \in Key /\ s.keys[i].valid /\ s.keys[i].dir = Parent(e.path)
      BY <1>2 DEF Watched, ValidKeys
    <3>2. i = k
      BY <2>3, <3>1
    <3>3. ks \in KeyState
      <4>1. s.keys[i] \in KeyState /\ s.keys[i].events \in Events
        BY <3>1 DEF Service, KeyState, Events
      <4>2. AddEvent(s.keys[i].events, e) \in Events
        BY <4>1, AddEventType
      <4> QED
        BY <4>1, <4>2 DEF KeyState, Events
    <3>4. t = SignalKey(s, i, ks)
      BY <1>2 DEF Deliver
    <3> HIDE DEF ks, i
    <3>5. ~s.keys[i].signalled => i \notin ToSet(s.queue)
      BY <3>1 DEF ServiceInv, SignalledOnce
    <3> QED
      BY <3>1, <3>2, <3>3, <3>4, <3>5, SignalExtends
  <2> QED
    BY <2>1, <2>2, <2>3, <2>4
<1> QED
  BY <1>1, <1>2

\* What Invalidate does to each key.
LEMMA InvalidateKeys ==
    ASSUME NEW s \in Service, NEW c, ServiceInv(s, c), NEW a \in Path,
           NEW t, t = Invalidate(s, a)
    PROVE  /\ t \in Service /\ ServiceInv(t, c) /\ Extends(s, t)
           /\ \A j \in ToSet(t.queue) \ ToSet(s.queue) : s.keys[j].valid
           /\ \A j \in Key :
                /\ t.keys[j].dir = s.keys[j].dir /\ t.keys[j].events = s.keys[j].events
                /\ t.keys[j].valid <=> s.keys[j].valid /\ s.keys[j].dir # a
<1>1. t \in Service /\ ServiceInv(t, c)
  BY InvalidateHolds
<1>2. CASE ~Watched(s, a)
  <2>1. t = s
    BY <1>2 DEF Invalidate
  <2>2. \A j \in Key : ~(s.keys[j].valid /\ s.keys[j].dir = a)
    BY <1>2 DEF Watched, ValidKeys
  <2> QED
    BY <1>1, <2>1, <2>2 DEF Extends
<1>3. CASE Watched(s, a)
  <2> DEFINE k == CHOOSE x \in ValidKeys(s, a) : TRUE
             ks == [s.keys[k] EXCEPT !.valid = FALSE]
  <2>1. k \in Key /\ s.keys[k].valid /\ s.keys[k].dir = a
    BY <1>3 DEF ValidKeys, Watched
  <2>2. s.keys[k] \in KeyState
    BY <2>1 DEF Service
  <2>3. ks \in KeyState /\ ks.dir = s.keys[k].dir /\ ~ks.valid /\ ks.events = s.keys[k].events
    BY <2>2 DEF KeyState
  <2>4. t = SignalKey(s, k, ks)
    BY <1>3 DEF Invalidate
  <2> HIDE DEF ks, k
  <2>5. t.keys = [s.keys EXCEPT ![k] = [ks EXCEPT !.signalled = TRUE]]
    BY <2>4 DEF SignalKey
  <2>6. \A j \in Key \ {k} : t.keys[j] = s.keys[j]
    BY <2>5 DEF Service
  <2>7. t.keys[k] = [ks EXCEPT !.signalled = TRUE]
    BY <2>1, <2>5 DEF Service
  <2>8. t.keys[k].dir = a /\ t.keys[k].events = s.keys[k].events
    BY <2>1, <2>3, <2>7 DEF KeyState
  <2>9. ~t.keys[k].valid
    BY <2>3, <2>7 DEF KeyState
  <2>10. \A j \in Key \ {k} : ~(s.keys[j].valid /\ s.keys[j].dir = a)
    BY <2>1 DEF ServiceInv, OneKey
  <2>11. ~s.keys[k].signalled => k \notin ToSet(s.queue)
    BY <2>1 DEF ServiceInv, SignalledOnce
  <2>12. Extends(s, t) /\ ToSet(t.queue) \subseteq ToSet(s.queue) \cup {k}
    BY <2>1, <2>3, <2>4, <2>11, SignalExtends
  <2> QED
    BY <1>1, <2>1, <2>6, <2>8, <2>9, <2>10, <2>12
<1> QED
  BY <1>2, <1>3

\* What a change does to each key: the key of the directory it is in is told, and
\* the key of a directory that it removes is invalid.
LEMMA ToldKeys ==
    ASSUME TypeInv, ServiceInv(ws, cur), NEW kind, NEW a, NEW entry,
           Changes(kind, a, entry)
    PROVE  /\ ws' \in Service /\ ServiceInv(ws', cur) /\ Extends(ws, ws')
           /\ \A j \in ToSet(ws'.queue) \ ToSet(ws.queue) : ws.keys[j].valid
           /\ \A j \in Key :
                /\ ws'.keys[j].dir = ws.keys[j].dir
                /\ ws'.keys[j].valid <=>
                     ws.keys[j].valid /\ ~(local[a] = Dir /\ ws.keys[j].dir = a)
                /\ ws'.keys[j].events =
                     IF ws.keys[j].valid /\ ws.keys[j].dir = Parent(a)
                     THEN AddEvent(ws.keys[j].events, [kind |-> kind, path |-> a])
                     ELSE ws.keys[j].events
<1> DEFINE e == [kind |-> kind, path |-> a]
           t == Deliver(ws, e)
<1>1. ws \in Service /\ a \in Path /\ e \in Event /\ e.path = a
  BY ChangesFacts DEF TypeInv, TypeOK, Changes
<1>2. /\ t \in Service /\ ServiceInv(t, cur) /\ Extends(ws, t)
      /\ \A j \in ToSet(t.queue) \ ToSet(ws.queue) : ws.keys[j].valid
      /\ \A j \in Key :
           /\ t.keys[j].dir = ws.keys[j].dir /\ (t.keys[j].valid <=> ws.keys[j].valid)
           /\ t.keys[j].events =
                IF ws.keys[j].valid /\ ws.keys[j].dir = Parent(a)
                THEN AddEvent(ws.keys[j].events, e) ELSE ws.keys[j].events
  <2> HIDE DEF e
  <2> QED
    BY <1>1, DeliverKeys
<1>3. local[a] = Dir => kind = "delete"
  BY DEF Changes
<1>4. ws' = IF local[a] = Dir THEN Invalidate(t, a) ELSE t
  BY <1>3 DEF Changes, Told, IsDirectory
<1> HIDE DEF t, e
<1>5. CASE local[a] = Dir
  <2>1. /\ ws' \in Service /\ ServiceInv(ws', cur) /\ Extends(t, ws')
        /\ \A j \in ToSet(ws'.queue) \ ToSet(t.queue) : t.keys[j].valid
        /\ \A j \in Key :
             /\ ws'.keys[j].dir = t.keys[j].dir /\ ws'.keys[j].events = t.keys[j].events
             /\ ws'.keys[j].valid <=> t.keys[j].valid /\ t.keys[j].dir # a
    BY <1>1, <1>2, <1>4, <1>5, InvalidateKeys
  <2>2. Extends(ws, ws')
    BY <1>2, <2>1 DEF Extends
  <2>3. ToSet(ws'.queue) \subseteq Key
    BY <2>1 DEF Service, ToSet
  <2>4. \A j \in ToSet(ws'.queue) \ ToSet(ws.queue) : ws.keys[j].valid
    BY <1>2, <2>1, <2>3
  <2> QED
    BY <1>2, <1>5, <2>1, <2>2, <2>4 DEF e
<1>6. CASE local[a] # Dir
  BY <1>2, <1>4, <1>6 DEF e
<1> QED
  BY <1>5, <1>6

\* A key goes on telling of what it told of.
LEMMA ToldTells ==
    ASSUME TypeInv, ServiceInv(ws, cur), NEW kind, NEW a, NEW entry,
           Changes(kind, a, entry), NEW j \in Key, NEW x \in Event, Tells(ws, j, x)
    PROVE  Tells(ws', j, x)
<1> DEFINE e == [kind |-> kind, path |-> a]
<1>1. e \in Event /\ ws.keys[j].events \in Events
  BY ChangesFacts DEF TypeInv, TypeOK, Service, KeyState, Events
<1> HIDE DEF e
<1>2. /\ ws'.keys[j].dir = ws.keys[j].dir
      /\ ws'.keys[j].events \in {ws.keys[j].events, AddEvent(ws.keys[j].events, e)}
  BY ToldKeys DEF e
<1>3. PICK y \in ToSet(ws.keys[j].events) :
        y = x \/ (y = Overflow /\ ws.keys[j].dir = Parent(x.path))
  BY DEF Tells
<1>4. Parent(x.path) = ws.keys[j].dir
  BY <1>3, OverflowIsNoEvent DEF ServiceInv, OwnEvents
<1>5. \E z \in ToSet(ws'.keys[j].events) : z \in {y, Overflow}
  BY <1>1, <1>2, AddEventHolds
<1> QED
  BY <1>2, <1>3, <1>4, <1>5 DEF Tells

\* All that was held is, but what the key being processed told of a directory that
\* is gone.
LEMMA ToldHeld ==
    ASSUME TypeInv, ServiceInv(ws, cur), NEW kind, NEW a, NEW entry,
           Changes(kind, a, entry), NEW x \in Event, Held(ws, cur, x),
           ~Held(ws', cur, x)
    PROVE  /\ local[a] = Dir /\ Parent(x.path) = a
           /\ cur \in Key /\ ws.keys[cur].valid /\ ws.keys[cur].dir = a
<1>1. PICK j \in Live(ws, cur) : Tells(ws, j, x)
  BY DEF Held
<1>2. j \in Key /\ Tells(ws', j, x) /\ j \notin Live(ws', cur)
  BY <1>1, ToldTells DEF Live, Held
<1>3. j \notin ToSet(ws.queue)
  BY <1>2, ToldKeys DEF Extends, Live
<1>4. j = cur /\ ws.keys[j].valid /\ ~ws'.keys[j].valid
  BY <1>1, <1>2, <1>3 DEF Live
<1>5. local[a] = Dir /\ ws.keys[j].dir = a
  <2>1. ws'.keys[j].valid <=> ws.keys[j].valid /\ ~(local[a] = Dir /\ ws.keys[j].dir = a)
    BY <1>2, ToldKeys
  <2> QED
    BY <1>4, <2>1
<1>6. Parent(x.path) = ws.keys[j].dir
  BY <1>1, <1>2, OverflowIsNoEvent DEF Tells, ServiceInv, OwnEvents
<1> QED
  BY <1>2, <1>4, <1>5, <1>6

\* The key of the directory a change is in tells of it.
LEMMA ToldNew ==
    ASSUME TypeInv, ServiceInv(ws, cur), NEW kind, NEW a, NEW entry,
           Changes(kind, a, entry), Watched(ws, Parent(a)),
           NEW e, e = [kind |-> kind, path |-> a]
    PROVE  /\ Held(ws', cur, e)
           /\ \E v \in Key : /\ ws.keys[v].valid /\ ws.keys[v].dir = Parent(a)
                             /\ ws'.keys[v].valid /\ Tells(ws', v, e)
                             /\ v \in ToSet(ws'.queue) \cup {cur}
<1>1. PICK v \in Key : ws.keys[v].valid /\ ws.keys[v].dir = Parent(a)
  BY DEF Watched, ValidKeys
<1>2. e \in Event /\ e.path = a /\ ws.keys[v].events \in Events /\ Parent(a) # a
  BY ChangesFacts, ParentFacts DEF TypeInv, TypeOK, Service, KeyState, Events, Changes
<1>3. /\ ws'.keys[v].events = AddEvent(ws.keys[v].events, e)
      /\ ws'.keys[v].valid /\ ws'.keys[v].dir = Parent(a)
  BY <1>1, <1>2, ToldKeys
<1>4. Tells(ws', v, e)
  <2>1. \E x \in ToSet(ws'.keys[v].events) : x \in {e, Overflow}
    BY <1>2, <1>3, AddEventHolds
  <2> QED
    BY <1>2, <1>3, <2>1 DEF Tells
<1>5. ServiceInv(ws', cur) /\ ws'.keys[v].events # <<>>
  BY <1>4, ToldKeys DEF Tells, ToSet
<1>6. v \in ToSet(ws'.queue) \cup {cur}
  BY <1>5 DEF ServiceInv, SignalledOnce
<1> QED
  BY <1>1, <1>3, <1>4, <1>6 DEF Held, Live

\* Adding an event, merged or not, keeps what follows what, unless it is the one
\* to be followed.
LEMMA AddEventFollows ==
    ASSUME NEW evs \in Events, NEW e \in Event, NEW x \in Event, NEW y,
           e # x, Follows(evs, x, y)
    PROVE  Follows(AddEvent(evs, e), x, y)
<1>1. CASE AddEvent(evs, e) = evs
  BY <1>1
<1>2. CASE AddEvent(evs, e) = <<Overflow>>
  BY <1>2, OverflowIsNoEvent DEF Follows
<1>3. CASE AddEvent(evs, e) = Append(evs, e)
  <2>1. /\ \A m \in 1 .. Len(evs) : Append(evs, e)[m] = evs[m]
        /\ Append(evs, e)[Len(evs) + 1] = e
        /\ DOMAIN evs = 1 .. Len(evs) /\ DOMAIN Append(evs, e) = 1 .. Len(evs) + 1
        /\ Len(evs) \in Nat
    BY DEF Events
  <2>2. \A m \in DOMAIN Append(evs, e) : m \in DOMAIN evs \/ m = Len(evs) + 1
    BY <2>1
  <2>3. \A m \in DOMAIN evs : m \in DOMAIN Append(evs, e)
    BY <2>1
  <2> QED
    BY <1>3, <2>1, <2>2, <2>3 DEF Follows
<1> QED
  BY <1>1, <1>2, <1>3 DEF AddEvent

\* The deletion of p follows whatever else there is.
LEMMA AddDeletedFollows ==
    ASSUME NEW evs \in Events, NEW p \in Path, NEW x \in Event, x # Deleted(p)
    PROVE  Follows(AddEvent(evs, Deleted(p)), x, Deleted(p))
<1> DEFINE e == Deleted(p)
<1>1. CASE Repeats(evs, e)
  <2>1. AddEvent(evs, e) = evs
    BY <1>1 DEF AddEvent
  <2>2. evs # <<>> /\ Last(evs) \in {e, Overflow}
    BY <1>1 DEF Repeats, Deleted
  <2>3. Len(evs) \in DOMAIN evs /\ \A m \in DOMAIN evs : m = Len(evs) \/ m < Len(evs)
    BY <2>2 DEF Events
  <2>4. evs[Len(evs)] \in {e, Overflow}
    BY <2>2 DEF Last
  <2> QED
    BY <2>1, <2>3, <2>4, OverflowIsNoEvent DEF Follows
<1>2. CASE AddEvent(evs, e) = <<Overflow>>
  BY <1>2, OverflowIsNoEvent DEF Follows
<1>3. CASE AddEvent(evs, e) = Append(evs, e)
  <2>1. /\ Append(evs, e)[Len(evs) + 1] = e
        /\ DOMAIN Append(evs, e) = 1 .. Len(evs) + 1
        /\ Len(evs) \in Nat
    BY OverflowIsNoEvent DEF Events
  <2>2. /\ Len(evs) + 1 \in DOMAIN Append(evs, e)
        /\ \A m \in DOMAIN Append(evs, e) : m < Len(evs) + 1 \/ m = Len(evs) + 1
    BY <2>1
  <2> QED
    BY <1>3, <2>1, <2>2, OverflowIsNoEvent DEF Follows
<1> QED
  BY <1>1, <1>2, <1>3 DEF AddEvent

\* What registering does to each key: a free one is given to a directory that has
\* none.
LEMMA RegisteredKeys ==
    ASSUME NEW s \in Service, NEW c, ServiceInv(s, c), NEW a \in Path,
           CanRegister(s, a), NEW t, t = Registered(s, a)
    PROVE  \/ t = s /\ Watched(s, a)
           \/ /\ ~Watched(s, a) /\ t.queue = s.queue
              /\ \E k \in Key :
                   /\ \A j \in Key \ {k} : t.keys[j] = s.keys[j]
                   /\ ~s.keys[k].valid /\ k \notin ToSet(s.queue) /\ k # c
                   /\ t.keys[k].dir = a /\ t.keys[k].valid /\ t.keys[k].events = <<>>
<1>1. CASE Watched(s, a)
  BY <1>1 DEF Registered
<1>2. CASE ~Watched(s, a)
  <2> DEFINE k == CHOOSE x \in FreeKeys(s) : TRUE
             new == [NoKey EXCEPT !.dir = a, !.valid = TRUE]
  <2>1. k \in Key /\ s.keys[k] = NoKey
    BY <1>2 DEF CanRegister, FreeKeys
  <2>2. new.dir = a /\ new.valid = TRUE /\ new.events = <<>>
    BY DEF NoKey
  <2>3. t = [s EXCEPT !.keys[k] = new]
    BY <1>2 DEF Registered
  <2> HIDE DEF k, new
  <2>4. /\ t.queue = s.queue /\ t.keys[k] = new
        /\ \A j \in Key \ {k} : t.keys[j] = s.keys[j]
    BY <2>1, <2>3 DEF Service
  <2>5. ~s.keys[k].valid /\ ~s.keys[k].signalled
    BY <2>1 DEF NoKey
  <2>6. k \notin ToSet(s.queue) /\ k # c
    BY <2>1, <2>5 DEF ServiceInv, SignalledOnce
  <2> QED
    BY <1>2, <2>1, <2>2, <2>4, <2>5, <2>6
<1> QED
  BY <1>1, <1>2

\* What polling does to each key: the first of the queue is emptied.
LEMMA PolledKeys ==
    ASSUME NEW s \in Service, NEW c, c \notin Key, ServiceInv(s, c), s.queue # <<>>,
           NEW k, k = Head(s.queue), NEW t, t = Polled(s, k)
    PROVE  /\ k \in Key /\ ToSet(t.queue) = ToSet(s.queue) \ {k}
           /\ k \in ToSet(s.queue)
           /\ \A q \in Key, j \in Key : Before(s.queue, q, j) => Before(t.queue, q, j)
           /\ \A q \in ToSet(t.queue) : ~Before(s.queue, q, k)
           /\ \A j \in Key \ {k} : t.keys[j] = s.keys[j]
           /\ t.keys[k].dir = s.keys[k].dir /\ (t.keys[k].valid <=> s.keys[k].valid)
           /\ t.keys[k].events = <<>>
<1>1. /\ k \in Key /\ ServiceInv(t, k)
  BY PolledHolds
<1>2. s.queue \in Seq(Key)
  BY DEF Service
<1>3. /\ ToSet(s.queue) = {k} \cup ToSet(Tail(s.queue))
      /\ Tail(s.queue) \in Seq(Key) /\ Len(Tail(s.queue)) = Len(s.queue) - 1
      /\ Len(s.queue) \in Nat \ {0}
      /\ k = s.queue[1]
      /\ \A m \in 1 .. Len(s.queue) - 1 : Tail(s.queue)[m] = s.queue[m + 1]
  BY <1>2, ToSetHeadTail
<1>4. /\ t.queue = Tail(s.queue)
      /\ \A j \in Key \ {k} : t.keys[j] = s.keys[j]
      /\ t.keys[k] = [s.keys[k] EXCEPT !.events = <<>>]
  BY <1>1 DEF Polled, Service
<1>5. t.keys[k].dir = s.keys[k].dir /\ t.keys[k].events = <<>>
  BY <1>1, <1>4 DEF Service, KeyState
<1>6. t.keys[k].valid <=> s.keys[k].valid
  BY <1>1, <1>4 DEF Service, KeyState
<1>7. k \notin ToSet(t.queue)
  BY <1>1 DEF ServiceInv, QueuedOnce
<1>8. DOMAIN s.queue = 1 .. Len(s.queue) /\ DOMAIN t.queue = 1 .. Len(s.queue) - 1
  <2>1. t.queue \in Seq(Key) /\ Len(t.queue) = Len(s.queue) - 1
    BY <1>3, <1>4
  <2>2. DOMAIN t.queue = 1 .. Len(t.queue)
    BY <2>1
  <2> QED
    BY <1>2, <2>1, <2>2
<1>9. /\ 1 \in DOMAIN s.queue
      /\ \A m \in DOMAIN t.queue :
           m \in Nat /\ m + 1 \in DOMAIN s.queue /\ t.queue[m] = s.queue[m + 1] /\ m + 1 > 1
  <2>1. \A m \in 1 .. Len(s.queue) - 1 : m \in Nat /\ m + 1 \in 1 .. Len(s.queue) /\ m + 1 > 1
    BY <1>3
  <2>2. \A m \in DOMAIN t.queue : t.queue[m] = s.queue[m + 1]
    BY <1>3, <1>4, <1>8
  <2>3. 1 \in 1 .. Len(s.queue)
    BY <1>3
  <2> QED
    BY <1>8, <2>1, <2>2, <2>3
<1>10. ASSUME NEW q \in Key, NEW j \in Key, Before(s.queue, q, j)
       PROVE  Before(t.queue, q, j)
  <2> SUFFICES ASSUME NEW m \in DOMAIN t.queue, NEW n \in DOMAIN t.queue,
                      t.queue[m] = q, t.queue[n] = j
               PROVE  m < n
    BY DEF Before
  <2>1. m + 1 < n + 1
    BY <1>9, <1>10 DEF Before
  <2> QED
    BY <1>9, <2>1
<1>11. ASSUME NEW q \in ToSet(t.queue), Before(s.queue, q, k)
       PROVE  FALSE
  <2>1. PICK m \in DOMAIN t.queue : t.queue[m] = q
    BY DEF ToSet
  <2>2. m + 1 < 1
    BY <1>3, <1>9, <1>11, <2>1 DEF Before
  <2> QED
    BY <1>9, <2>1, <2>2
<1> QED
  BY <1>1, <1>3, <1>4, <1>5, <1>6, <1>7, <1>10, <1>11

\* What a reset does to each key: an invalid one is free again, one with events is
\* queued.
LEMMA ResetKeys ==
    ASSUME NEW s \in Service, NEW k \in Key, ServiceInv(s, k),
           NEW t, t = ResetKey(s, k)
    PROVE  /\ t \in Service /\ Extends(s, t) /\ ToSet(t.queue) \subseteq ToSet(s.queue) \cup {k}
           /\ k \notin ToSet(s.queue)
           /\ \A j \in Key \ {k} : t.keys[j] = s.keys[j]
           /\ s.keys[k].valid =>
                /\ t.keys[k].valid /\ t.keys[k].dir = s.keys[k].dir
                /\ t.keys[k].events = s.keys[k].events
           /\ ~s.keys[k].valid => t.keys[k] = NoKey /\ t.queue = s.queue
<1>1. t \in Service
  BY ResetKeyType
<1>2. k \notin ToSet(s.queue)
  BY DEF ServiceInv, QueuedOnce
<1>3. \A j \in Key \ {k} : t.keys[j] = s.keys[j]
  BY DEF ResetKey, Service
<1>4. CASE s.keys[k].valid /\ s.keys[k].events # <<>>
  <2>1. t.keys = s.keys /\ t.queue = Append(s.queue, k)
    BY <1>4 DEF ResetKey, Service
  <2>2. Extends(s, t) /\ ToSet(t.queue) = ToSet(s.queue) \cup {k}
    BY <1>1, <1>2, <2>1, AppendExtends
  <2> QED
    BY <1>1, <1>2, <1>4, <2>1, <2>2
<1>5. CASE s.keys[k].valid /\ s.keys[k].events = <<>>
  <2>1. t.queue = s.queue /\ t.keys[k] = [s.keys[k] EXCEPT !.signalled = FALSE]
    BY <1>5 DEF ResetKey, Service
  <2>2. t.keys[k].dir = s.keys[k].dir /\ t.keys[k].events = s.keys[k].events
    BY <2>1 DEF Service, KeyState
  <2>3. t.keys[k].valid
    BY <1>5, <2>1 DEF Service, KeyState
  <2> QED
    BY <1>1, <1>2, <1>3, <1>5, <2>1, <2>2, <2>3 DEF Extends
<1>6. CASE ~s.keys[k].valid
  <2>1. t.queue = s.queue /\ t.keys[k] = NoKey
    BY <1>6 DEF ResetKey, Service
  <2> QED
    BY <1>1, <1>2, <1>3, <1>6, <2>1 DEF Extends
<1> QED
  BY <1>4, <1>5, <1>6

-----------------------------------------------------------------------------
(***************************************************************************)
(* The stages of the thread.                                               *)
(***************************************************************************)

\* Every step keeps what the handlers and the event of each stage are.
LEMMA StagesNext ==
    ASSUME TypeInv, NoneIgnored, StageInv, StagesInv, Alive',
           Developer \/ Start \/ Adds \/ Watch \/ Handle, local[Root] = Dir
    PROVE  StagesInv'
<1> USE DEF Processed, Handling, Adding
<1>1. /\ ev.path \in Path /\ watched \in [Path -> Handler]
      /\ ev \in [kind : EventKind \cup {"add"}, path : Path]
  BY DEF TypeInv, TypeOK
<1>2. CASE Developer
  <2>1. UNCHANGED <<remote, watched, pc, ev, sent>>
    BY <1>2, DeveloperChanges, ChangesFacts
  <2> QED
    BY <2>1 DEF StagesInv, ByNameToBeWatched
<1>3. CASE Start
  <2>1. UNCHANGED watched /\ pc' \in {"connect", "root", "filter", "list", "poll", "dead"}
    BY <1>3 DEF Start, ListFiles, TestConnections, AddRoot, AddListed, StartWatching
  <2>2. pc' = "filter" => ev'.kind = "add"
    BY <1>3 DEF Start, ListFiles, TestConnections, AddRoot, AddListed, StartWatching, Add
  <2> QED
    BY <2>1, <2>2 DEF StagesInv
<1>4. CASE Adds
  <2>1. UNCHANGED <<ev, remote, sent>> /\ pc \in Adding /\ ~RegisterFails
    BY <1>4, StoppedStep
    DEF Adds, Filter, AddFile, AddDirectory, Register, RegisterFails, Alive, Running, Stopped
  <2>2. pc' \in {"kind", "register"} \/ (pc' = AfterAdding /\ AfterAdding \in {"list", "notify"})
    BY <1>4, <2>1 DEF Adds, Filter, AddFile, AddDirectory, Register, AfterAdding
  <2>3. AfterAdding = "notify" => ev.kind # "add"
    BY DEF AfterAdding
  <2>4. pc' = "notify" /\ ev.kind = "delete" /\ ev.path \notin Ignored =>
          watched'[ev.path] \in Removal \/ ~(ByNameToBeWatched(ev.path)')
    <3>1. CASE Filter
      BY <3>1 DEF Filter, isToBeWatched, ByNameToBeWatched
    <3>2. CASE AddFile \/ Register
      BY <1>1, <3>2 DEF AddFile, Register, HandlerFor, Removal
    <3>3. CASE AddDirectory
      BY <3>3 DEF AddDirectory
    <3> QED
      BY <1>4, <2>1, <3>1, <3>2, <3>3 DEF Adds
  <2> QED
    BY <2>1, <2>2, <2>3, <2>4 DEF StagesInv
<1>5. CASE Watch
  <2>1. UNCHANGED <<watched, remote, sent>> /\ ~PollClosed /\ ~NextEventFails
    BY <1>5, StoppedStep
    DEF Watch, Poll, PollClosed, NextEvent, NextEventFails, Reset, Check, Notify,
        Alive, Running, Stopped
  <2>2. CASE Poll \/ Reset
    BY <2>2 DEF Poll, Reset, StagesInv
  <2>3. CASE NextEvent
    <3>1. Head(batch).kind \in EventKind /\ ev' = Head(batch) /\ pc' = FirstStage[ev'.kind]
      BY <2>3 DEF NextEvent, TypeInv, TypeOK, Event
    <3>2. \/ pc' = "check" /\ ev'.kind = "create"
          \/ pc' = "notify" /\ ev'.kind = "modify"
          \/ pc' = "filter" /\ ev'.kind = "delete"
      BY <3>1 DEF EventKind, FirstStage
    <3> QED
      BY <3>2 DEF StagesInv
  <2>4. CASE Check
    <3>1. ev' = ev /\ ev.kind = "create" /\ pc' \in {"filter", "next"}
      BY <2>4 DEF Check, StageInv
    <3> QED
      BY <3>1 DEF StagesInv
  <2>5. CASE Notify
    <3>1. ev' = ev /\ pc = "notify" /\ pc' = HandlerStage[watched[ev.path]]
          /\ watched[ev.path] \in Handler
      BY <1>1, <2>5 DEF Notify
    <3>2. \/ pc' = "next" /\ watched[ev.path] = "none"
          \/ pc' = "parent" /\ watched[ev.path] = "uploadFile"
          \/ pc' = "mkdir" /\ watched[ev.path] = "createDir"
          \/ pc' = "remove"
      BY <3>1 DEF Handler, HandlerStage
    <3>3. pc' \in {"parent", "mkdir"} => ev.kind # "delete"
      BY <3>1, <3>2 DEF StagesInv, ByNameToBeWatched, NoneIgnored, Removal
    <3> QED
      BY <2>1, <3>1, <3>2, <3>3 DEF StagesInv
  <2> QED
    BY <1>5, <2>1, <2>2, <2>3, <2>4, <2>5 DEF Watch
<1>6. CASE Handle
  <2>1. UNCHANGED <<ev, watched>>
    BY <1>6 DEF Handle, CreateDir, MakeParent, OpenFile, CopyFile, RemoveEntry
  <2>2. CASE CreateDir \/ CopyFile \/ RemoveEntry
    BY <2>2 DEF CreateDir, CopyFile, RemoveEntry, CommandFails, StagesInv
  <2>3. CASE MakeParent
    BY <2>1, <2>3 DEF MakeParent, CommandFails, StagesInv
  <2>4. CASE OpenFile
    <3>1. remote \in Tree
      BY DEF TypeInv, TypeOK
    <3> QED
      BY <1>1, <2>1, <2>4, <3>1 DEF OpenFile, CatTo, Tree, StagesInv
  <2> QED
    BY <1>6, <2>2, <2>3, <2>4 DEF Handle
<1> QED
  BY <1>2, <1>3, <1>4, <1>5, <1>6

-----------------------------------------------------------------------------
(***************************************************************************)
(* The keys: KeysInv is kept.                                              *)
(***************************************************************************)

\* Events of different kinds or entries are different.
LEMMA EventsDiffer ==
    \A p \in Path :
        /\ Modified(p) \in Event /\ Modified(p).path = p
        /\ Modified(p) # Overflow /\ Modified(p) # Deleted(p)
        /\ \A q \in Path : q # p => Modified(q) # Modified(p) /\ Deleted(q) # Deleted(p)
        /\ Overflow.path # Root
BY NoPathAssumption, PathAssumption DEF Modified, Deleted, Overflow, Event, EventKind

\* The developer's changes.
LEMMA DeveloperKeys ==
    ASSUME TypeInv, WellFormed(local), ServiceInv(ws, cur), KeysInv, Developer
    PROVE  KeysInv'
<1>1. local[Root] = Dir
  BY DEF WellFormed
<1>2. PICK kind, a, entry : Changes(kind, a, entry)
  BY <1>1, DeveloperChanges
<1> DEFINE e == [kind |-> kind, path |-> a]
<1>3. /\ a \in Path \ {Root} /\ e \in Event /\ e.path = a /\ e.kind = kind
      /\ kind = "delete" <=> entry = Absent
      /\ entry = Dir => local[a] = Absent
      /\ local[a] = Dir => entry = Absent /\ Children(local, a) = {}
      /\ local[a] = Absent => kind = "create"
      /\ Parent(a) \in Path /\ Parent(a) # a
  BY <1>2, ChangesFacts, ParentFacts DEF Changes
<1>4. /\ UNCHANGED <<watched, pc, cur, batch, ev>>
      /\ local'[a] = entry /\ \A p \in Path \ {a} : local'[p] = local[p]
  BY <1>2, ChangesFacts
<1>5. /\ ws' \in Service /\ Extends(ws, ws')
      /\ \A j \in ToSet(ws'.queue) \ ToSet(ws.queue) : ws.keys[j].valid
      /\ \A j \in Key :
           /\ ws'.keys[j].dir = ws.keys[j].dir
           /\ ws'.keys[j].valid <=>
                ws.keys[j].valid /\ ~(local[a] = Dir /\ ws.keys[j].dir = a)
           /\ ws'.keys[j].events =
                IF ws.keys[j].valid /\ ws.keys[j].dir = Parent(a)
                THEN AddEvent(ws.keys[j].events, e) ELSE ws.keys[j].events
  BY <1>2, ToldKeys
<1>6. \A j \in Key : ws.keys[j].events \in Events
  BY DEF TypeInv, TypeOK, Service, KeyState, Events
<1> HIDE DEF e
<1>7. KeysHandled'
  <2> SUFFICES ASSUME NEW k \in Key, ws'.keys[k].valid
               PROVE  /\ ws.keys[k].dir \in Path /\ watched[ws.keys[k].dir] # "none"
                      /\ local'[ws.keys[k].dir] = Dir
    BY <1>4, <1>5 DEF KeysHandled, IsDirectory
  <2>1. ws.keys[k].valid /\ ~(local[a] = Dir /\ ws.keys[k].dir = a)
    BY <1>5
  <2>2. watched[ws.keys[k].dir] # "none" /\ local[ws.keys[k].dir] = Dir
    BY <2>1 DEF KeysInv, KeysHandled, IsDirectory
  <2>3. ws.keys[k].dir \in Path /\ ws.keys[k].dir # a
    BY <2>1, <2>2 DEF KeysInv, KeysHandled
  <2> QED
    BY <1>4, <2>2, <2>3
<1>8. ParentsFirst(ws', cur)
  <2> SUFFICES ASSUME NEW k \in Key, NEW q \in Key,
                      ws'.keys[k].valid, ~ws'.keys[q].valid, q \in ToSet(ws'.queue),
                      ws.keys[k].dir # Root, ws.keys[q].dir = Parent(ws.keys[k].dir)
               PROVE  k # cur /\ Before(ws'.queue, q, k)
    BY <1>5 DEF ParentsFirst
  <2>1. ws.keys[k].valid
    BY <1>5
  <2>2. CASE ws.keys[q].valid
    <3>1. local[a] = Dir /\ ws.keys[q].dir = a
      BY <1>5, <2>2
    <3>2. ws.keys[k].dir \in Path /\ local[ws.keys[k].dir] = Dir
      BY <2>1 DEF KeysInv, KeysHandled, IsDirectory
    <3>3. ws.keys[k].dir \in Children(local, a)
      BY <3>1, <3>2 DEF Children, Dir, Absent
    <3> QED
      BY <1>3, <3>1, <3>3
  <2>3. CASE ~ws.keys[q].valid
    <3>1. q \in ToSet(ws.queue)
      BY <1>5, <2>3
    <3>2. k # cur /\ Before(ws.queue, q, k)
      BY <2>1, <2>3, <3>1 DEF KeysInv, ParentsFirst
    <3> QED
      BY <1>5, <3>1, <3>2 DEF Extends
  <2> QED
    BY <2>2, <2>3
<1>9. NoRootEvents'
  <2>1. ASSUME NEW k \in Key, NEW x \in ToSet(ws'.keys[k].events)
        PROVE  x.path # Root
    <3>1. x \in ToSet(ws.keys[k].events) \cup {e, Overflow}
      BY <1>3, <1>5, <1>6, AddEventHolds
    <3> QED
      BY <1>3, <3>1, EventsDiffer DEF KeysInv, NoRootEvents
  <2> QED
    BY <1>4, <2>1 DEF KeysInv, NoRootEvents
<1>10. BatchOwn'
  BY <1>4, <1>5 DEF KeysInv, BatchOwn
<1>11. ASSUME NEW p \in Path
       PROVE  ModifiedClosed(ws, p)'
  <2> SUFFICES ASSUME NEW k \in Key, ~ws'.keys[k].valid \/ local'[p] = Absent
               PROVE  Follows(ws'.keys[k].events, Modified(p), Deleted(p))
    BY DEF ModifiedClosed
  <2> DEFINE evs == ws.keys[k].events
  <2>1. ~ws.keys[k].valid \/ local[p] = Absent => Follows(evs, Modified(p), Deleted(p))
    BY DEF KeysInv, ModifiedClosed
  <2>2. Modified(p) \in ToSet(evs) => Parent(p) = ws.keys[k].dir /\ p # Root
    <3>1. \A x \in ToSet(evs) : (x = Overflow \/ Parent(x.path) = ws.keys[k].dir) /\ x.path # Root
      BY DEF ServiceInv, OwnEvents, KeysInv, NoRootEvents
    <3> QED
      BY <3>1, EventsDiffer
  <2>3. Modified(p) \notin ToSet(evs) => Follows(evs, Modified(p), Deleted(p))
    BY DEF Follows, ToSet
  <2>4. /\ ws'.keys[k].events =
             IF ws.keys[k].valid /\ ws.keys[k].dir = Parent(a) THEN AddEvent(evs, e) ELSE evs
        /\ ws'.keys[k].valid <=> ws.keys[k].valid /\ ~(local[a] = Dir /\ ws.keys[k].dir = a)
    BY <1>5
  <2>5. evs \in Events
    BY <1>6
  <2> HIDE DEF evs
  <2>6. CASE ~ws.keys[k].valid
    BY <2>1, <2>4, <2>6
  <2>7. CASE ws.keys[k].valid /\ ~ws'.keys[k].valid
    <3>1. local[a] = Dir /\ ws.keys[k].dir = a /\ ws'.keys[k].events = evs
      BY <1>3, <2>4, <2>7
    <3>2. Modified(p) \in ToSet(evs) => local[p] = Absent
      BY <1>3, <2>2, <3>1 DEF Children
    <3> QED
      BY <2>1, <2>3, <3>1, <3>2
  <2>8. CASE ws'.keys[k].valid /\ p = a
    <3>1. kind = "delete" /\ e = Deleted(p)
      BY <1>3, <1>4, <2>8 DEF Deleted, e
    <3>2. CASE ws.keys[k].dir = Parent(a)
      BY <2>4, <2>5, <2>8, <3>1, <3>2, EventsDiffer, AddDeletedFollows
    <3>3. CASE ws.keys[k].dir # Parent(a)
      BY <2>2, <2>3, <2>4, <2>8, <3>3
    <3> QED
      BY <3>2, <3>3
  <2>9. CASE ws'.keys[k].valid /\ p # a
    <3>1. Follows(evs, Modified(p), Deleted(p))
      BY <1>4, <2>1, <2>9
    <3>2. e # Modified(p)
      BY <1>3, <2>9, EventsDiffer
    <3> QED
      BY <1>3, <2>4, <2>5, <3>1, <3>2, EventsDiffer, AddEventFollows
  <2> QED
    BY <2>6, <2>7, <2>8, <2>9
<1> QED
  BY <1>4, <1>7, <1>8, <1>9, <1>10, <1>11 DEF KeysInv

\* addToWatched: a new key has collected nothing.
LEMMA AddsKeys ==
    ASSUME TypeInv, ServiceInv(ws, cur), KeysInv, Adds, Alive'
    PROVE  KeysInv'
<1>1. UNCHANGED <<local, cur, batch, ev>> /\ ~RegisterFails
  BY StoppedStep
  DEF Adds, Filter, AddFile, AddDirectory, Register, RegisterFails, developer, Alive,
      Running, Stopped
<1>2. /\ pc \in Adding
      /\ \/ pc' \in Adding
         \/ pc' = AfterAdding /\ AfterAdding \in {"list", "notify"}
  BY <1>1 DEF Adds, Filter, AddFile, AddDirectory, Register, AfterAdding, Adding
<1>3. /\ ev.path \in Path /\ watched \in [Path -> Handler] /\ ws \in Service
  BY DEF TypeInv, TypeOK
<1>4. \/ ws' = ws
      \/ /\ ws'.queue = ws.queue /\ IsDirectory(local, ev.path)
         /\ watched'[ev.path] \in {"createDir", "removeDir"}
         /\ \E k \in Key :
              /\ \A j \in Key \ {k} : ws'.keys[j] = ws.keys[j]
              /\ ~ws.keys[k].valid /\ k \notin ToSet(ws.queue) /\ k # cur
              /\ ws'.keys[k].dir = ev.path /\ ws'.keys[k].valid
              /\ ws'.keys[k].events = <<>>
  <2>1. CASE Filter \/ AddFile \/ AddDirectory
    BY <2>1 DEF Filter, AddFile, AddDirectory
  <2>2. CASE Register
    <3>1. /\ CanRegister(ws, ev.path) /\ ws' = Registered(ws, ev.path)
          /\ IsDirectory(local, ev.path)
          /\ watched'[ev.path] \in {"createDir", "removeDir"}
      BY <1>3, <2>2 DEF Register, HandlerFor
    <3> QED
      BY <1>3, <3>1, RegisteredKeys
  <2> QED
    BY <1>1, <2>1, <2>2 DEF Adds
<1>5. \A p \in Path : watched[p] # "none" => watched'[p] # "none"
  BY <1>1, <1>3 DEF Adds, Filter, AddFile, AddDirectory, Register, HandlerFor
<1>6. CASE ws' = ws
  <2>1. KeysHandled'
    BY <1>1, <1>5, <1>6 DEF KeysInv, KeysHandled
  <2>2. NoRootEvents' /\ BatchOwn'
    BY <1>1, <1>2, <1>6 DEF KeysInv, NoRootEvents, BatchOwn, Processed, Handling
  <2>3. ParentsFirst(ws', cur') /\ \A p \in Path : ModifiedClosed(ws, p)'
    BY <1>1, <1>6 DEF KeysInv, ModifiedClosed
  <2> QED
    BY <2>1, <2>2, <2>3 DEF KeysInv
<1>7. CASE ws' # ws
  <2>1. PICK k \in Key :
          /\ \A j \in Key \ {k} : ws'.keys[j] = ws.keys[j]
          /\ ~ws.keys[k].valid /\ k \notin ToSet(ws.queue) /\ k # cur
          /\ ws'.keys[k].dir = ev.path /\ ws'.keys[k].valid
          /\ ws'.keys[k].events = <<>>
    BY <1>4, <1>7
  <2>2. /\ ws'.queue = ws.queue /\ IsDirectory(local, ev.path)
        /\ watched'[ev.path] # "none"
    BY <1>4, <1>7
  <2>3. KeysHandled'
    <3> SUFFICES ASSUME NEW j \in Key, ws'.keys[j].valid
                 PROVE  /\ ws'.keys[j].dir \in Path /\ watched'[ws'.keys[j].dir] # "none"
                        /\ IsDirectory(local, ws'.keys[j].dir)
      BY <1>1 DEF KeysHandled, IsDirectory
    <3> QED
      BY <1>3, <1>5, <2>1, <2>2 DEF KeysInv, KeysHandled
  <2>4. ParentsFirst(ws', cur)
    <3> SUFFICES ASSUME NEW j \in Key, NEW q \in Key,
                        ws'.keys[j].valid, ~ws'.keys[q].valid, q \in ToSet(ws.queue),
                        ws'.keys[j].dir # Root, ws'.keys[q].dir = Parent(ws'.keys[j].dir)
                 PROVE  j # cur /\ Before(ws.queue, q, j)
      BY <2>2 DEF ParentsFirst
    <3>1. CASE j = k
      BY <2>1, <3>1 DEF Before, ToSet
    <3>2. CASE j # k
      BY <2>1, <3>2 DEF KeysInv, ParentsFirst
    <3> QED
      BY <3>1, <3>2
  <2>5. NoRootEvents'
    <3>1. \A j \in Key : \A x \in ToSet(ws'.keys[j].events) : x.path # Root
      BY <2>1 DEF KeysInv, NoRootEvents, ToSet
    <3> QED
      BY <1>1, <1>2, <3>1 DEF KeysInv, NoRootEvents, Processed, Handling
  <2>6. BatchOwn'
    BY <1>1, <1>2, <2>1 DEF KeysInv, BatchOwn, Processed, Handling
  <2>7. ASSUME NEW p \in Path PROVE ModifiedClosed(ws, p)'
    <3> SUFFICES ASSUME NEW j \in Key, ~ws'.keys[j].valid \/ local[p] = Absent
                 PROVE  Follows(ws'.keys[j].events, Modified(p), Deleted(p))
      BY <1>1 DEF ModifiedClosed
    <3>1. CASE j = k
      BY <2>1, <3>1 DEF Follows
    <3>2. CASE j # k
      BY <2>1, <3>2 DEF KeysInv, ModifiedClosed
    <3> QED
      BY <3>1, <3>2
  <2> QED
    BY <1>1, <2>3, <2>4, <2>5, <2>6, <2>7 DEF KeysInv
<1> QED
  BY <1>6, <1>7

\* Polling: the first of the queue goes before no other.
LEMMA PollKeys ==
    ASSUME TypeInv, StageInv, ServiceInv(ws, cur), KeysInv, Poll
    PROVE  KeysInv'
<1>1. /\ cur \notin Key /\ pc' = "next" /\ ws.queue # <<>>
      /\ cur' = Head(ws.queue) /\ ws' = Polled(ws, Head(ws.queue))
      /\ batch' = ws.keys[cur'].events /\ UNCHANGED <<local, watched, ev>>
      /\ ws \in Service
  BY NoPathAssumption DEF Poll, StageInv, developer, TypeInv, TypeOK
<1> DEFINE k == Head(ws.queue)
<1>2. /\ k \in Key /\ ToSet(ws'.queue) = ToSet(ws.queue) \ {k}
      /\ k \in ToSet(ws.queue)
      /\ \A q \in Key, j \in Key : Before(ws.queue, q, j) => Before(ws'.queue, q, j)
      /\ \A q \in ToSet(ws'.queue) : ~Before(ws.queue, q, k)
      /\ \A j \in Key \ {k} : ws'.keys[j] = ws.keys[j]
      /\ ws'.keys[k].dir = ws.keys[k].dir /\ (ws'.keys[k].valid <=> ws.keys[k].valid)
      /\ ws'.keys[k].events = <<>>
  <2>1. /\ ws \in Service /\ cur \notin Key /\ ServiceInv(ws, cur)
        /\ ws.queue # <<>> /\ k = Head(ws.queue) /\ ws' = Polled(ws, k)
    BY <1>1
  <2> HIDE DEF k
  <2> QED
    BY ONLY <2>1, PolledKeys
<1> HIDE DEF k
<1>3. \A j \in Key : /\ ws'.keys[j].dir = ws.keys[j].dir
                     /\ ws'.keys[j].valid <=> ws.keys[j].valid
                     /\ ws'.keys[j].events \in {ws.keys[j].events, <<>>}
  BY <1>2
<1>4. cur' = k
  BY <1>1 DEF k
<1>5. KeysHandled'
  BY <1>1, <1>3 DEF KeysInv, KeysHandled
<1>6. ParentsFirst(ws', k)
  <2> SUFFICES ASSUME NEW j \in Key, NEW q \in Key,
                      ws.keys[j].valid, ~ws.keys[q].valid, q \in ToSet(ws'.queue),
                      ws.keys[j].dir # Root, ws.keys[q].dir = Parent(ws.keys[j].dir)
               PROVE  j # k /\ Before(ws'.queue, q, j)
    BY <1>3 DEF ParentsFirst
  <2>1. Before(ws.queue, q, j)
    BY <1>2 DEF KeysInv, ParentsFirst
  <2> QED
    BY <1>2, <2>1
<1>7. NoRootEvents'
  <2>1. \A j \in Key : \A x \in ToSet(ws'.keys[j].events) : x.path # Root
    BY <1>3 DEF KeysInv, NoRootEvents, ToSet
  <2>2. \A x \in ToSet(batch') : x.path # Root
    BY <1>1, <1>2, <1>4 DEF KeysInv, NoRootEvents
  <2> QED
    BY <1>1, <2>1, <2>2 DEF NoRootEvents, Processed, Handling, Adding
<1>8. BatchOwn'
  <2>1. \A x \in ToSet(batch') : x = Overflow \/ Parent(x.path) = ws'.keys[k].dir
    BY <1>1, <1>2, <1>4 DEF ServiceInv, OwnEvents
  <2> QED
    BY <1>1, <1>4, <2>1 DEF BatchOwn, Processed, Handling, Adding
<1>9. ASSUME NEW p \in Path PROVE ModifiedClosed(ws, p)'
  <2> SUFFICES ASSUME NEW j \in Key, ~ws.keys[j].valid \/ local[p] = Absent
               PROVE  Follows(ws'.keys[j].events, Modified(p), Deleted(p))
    BY <1>1, <1>3 DEF ModifiedClosed
  <2>1. Follows(ws.keys[j].events, Modified(p), Deleted(p))
    BY DEF KeysInv, ModifiedClosed
  <2>2. Follows(<<>>, Modified(p), Deleted(p))
    BY DEF Follows
  <2> QED
    BY <1>3, <2>1, <2>2
<1> QED
  BY <1>4, <1>5, <1>6, <1>7, <1>8, <1>9 DEF KeysInv

\* Resetting: an old key stays unqueued.
LEMMA ResetKeysInv ==
    ASSUME TypeInv, StageInv, ServiceInv(ws, cur), KeysInv, Reset
    PROVE  KeysInv'
<1>1. /\ cur \in Key /\ cur' = NoPath /\ NoPath \notin Key /\ pc' = "poll"
      /\ ws' = ResetKey(ws, cur) /\ ws \in Service
      /\ UNCHANGED <<local, watched, ev, batch>>
  BY NoPathAssumption DEF Reset, developer, TypeInv, TypeOK, KeyHeld
<1>2. /\ ws' \in Service /\ Extends(ws, ws')
      /\ ToSet(ws'.queue) \subseteq ToSet(ws.queue) \cup {cur}
      /\ cur \notin ToSet(ws.queue)
      /\ \A j \in Key \ {cur} : ws'.keys[j] = ws.keys[j]
      /\ ws.keys[cur].valid =>
           /\ ws'.keys[cur].valid /\ ws'.keys[cur].dir = ws.keys[cur].dir
           /\ ws'.keys[cur].events = ws.keys[cur].events
      /\ ~ws.keys[cur].valid => ws'.keys[cur] = NoKey /\ ws'.queue = ws.queue
  BY <1>1, ResetKeys
<1>3. ~NoKey.valid /\ NoKey.events = <<>>
  BY DEF NoKey
<1>4. \A j \in Key :
        /\ ws'.keys[j].valid => ws.keys[j].valid /\ ws'.keys[j].dir = ws.keys[j].dir
        /\ ~ws'.keys[j].valid => ~ws.keys[j].valid
        /\ ws'.keys[j].events \in {ws.keys[j].events, <<>>}
  BY <1>2, <1>3
<1>5. KeysHandled'
  BY <1>1, <1>4 DEF KeysInv, KeysHandled
<1>6. ParentsFirst(ws', NoPath)
  <2> SUFFICES ASSUME NEW j \in Key, NEW q \in Key,
                      ws'.keys[j].valid, ~ws'.keys[q].valid, q \in ToSet(ws'.queue),
                      ws'.keys[j].dir # Root, ws'.keys[q].dir = Parent(ws'.keys[j].dir)
               PROVE  Before(ws'.queue, q, j)
    BY <1>1 DEF ParentsFirst
  <2>1. q # cur /\ q \in ToSet(ws.queue)
    BY <1>2
  <2>2. /\ ws.keys[j].valid /\ ws'.keys[j].dir = ws.keys[j].dir
        /\ ws'.keys[q] = ws.keys[q]
    BY <1>2, <1>4, <2>1
  <2>3. Before(ws.queue, q, j)
    BY <2>1, <2>2 DEF KeysInv, ParentsFirst
  <2> QED
    BY <1>2, <2>1, <2>3 DEF Extends
<1>7. NoRootEvents'
  <2>1. \A j \in Key : \A x \in ToSet(ws'.keys[j].events) : x.path # Root
    BY <1>4 DEF KeysInv, NoRootEvents, ToSet
  <2> QED
    BY <1>1, <2>1 DEF KeysInv, NoRootEvents, Processed, Handling, Adding
<1>8. BatchOwn'
  BY <1>1 DEF BatchOwn
<1>9. ASSUME NEW p \in Path PROVE ModifiedClosed(ws, p)'
  <2> SUFFICES ASSUME NEW j \in Key, ~ws'.keys[j].valid \/ local[p] = Absent
               PROVE  Follows(ws'.keys[j].events, Modified(p), Deleted(p))
    BY <1>1 DEF ModifiedClosed
  <2>1. Follows(ws.keys[j].events, Modified(p), Deleted(p))
    BY <1>4 DEF KeysInv, ModifiedClosed
  <2>2. Follows(<<>>, Modified(p), Deleted(p))
    BY DEF Follows
  <2> QED
    BY <1>4, <2>1, <2>2
<1> QED
  BY <1>1, <1>5, <1>6, <1>7, <1>8, <1>9 DEF KeysInv

\* Every step of a thread that serves events.
LEMMA KeysNext ==
    ASSUME TypeInv, WellFormed(local), StageInv, ServiceInv(ws, cur), KeysInv, Alive',
           Developer \/ Start \/ Adds \/ Watch \/ Handle
    PROVE  KeysInv'
<1> USE DEF Processed, Handling, Adding
<1>1. CASE Start
  <2>1. UNCHANGED <<local, ws, watched, cur, batch>>
    BY <1>1 DEF Start, ListFiles, TestConnections, AddRoot, AddListed, StartWatching, developer
  <2>2. /\ pc' \in {"connect", "root", "filter", "list", "poll", "dead"}
        /\ pc' = "filter" => ev'.kind = "add"
    BY <1>1 DEF Start, ListFiles, TestConnections, AddRoot, AddListed, StartWatching, Add
  <2>3. KeysHandled' /\ ParentsFirst(ws', cur') /\ \A p \in Path : ModifiedClosed(ws, p)'
    BY <2>1 DEF KeysInv, KeysHandled, ModifiedClosed
  <2> QED
    BY <2>1, <2>2, <2>3 DEF KeysInv, NoRootEvents, BatchOwn
<1>2. CASE Watch
  <2>1. ~PollClosed /\ ~NextEventFails
    BY DEF PollClosed, NextEventFails, Alive, Running, Stopped
  <2>2. CASE NextEvent
    <3>1. /\ UNCHANGED <<local, ws, watched, cur>>
          /\ batch # <<>> /\ ev' = Head(batch) /\ batch' = Tail(batch)
          /\ Head(batch) # Overflow
      BY <2>2 DEF NextEvent, developer
    <3>2. ToSet(batch) = {Head(batch)} \cup ToSet(Tail(batch))
      BY <3>1, ToSetHeadTail DEF TypeInv, TypeOK
    <3>3. KeysHandled' /\ ParentsFirst(ws', cur') /\ \A p \in Path : ModifiedClosed(ws, p)'
      BY <3>1 DEF KeysInv, KeysHandled, ModifiedClosed
    <3>4. NoRootEvents'
      BY <3>1, <3>2 DEF KeysInv, NoRootEvents
    <3>5. BatchOwn'
      BY <3>1, <3>2 DEF KeysInv, BatchOwn
    <3> QED
      BY <3>3, <3>4, <3>5 DEF KeysInv
  <2>3. CASE Check \/ Notify
    <3>1. /\ UNCHANGED <<local, ws, watched, cur, batch, ev>>
          /\ pc \in {"check", "notify"}
      BY <2>3 DEF Check, Notify, developer
    <3>2. KeysHandled' /\ ParentsFirst(ws', cur') /\ \A p \in Path : ModifiedClosed(ws, p)'
      BY <3>1 DEF KeysInv, KeysHandled, ModifiedClosed
    <3> QED
      BY <3>1, <3>2 DEF KeysInv, NoRootEvents, BatchOwn
  <2> QED
    BY <1>2, <2>1, <2>2, <2>3, PollKeys, ResetKeysInv DEF Watch
<1>3. CASE Handle
  <2>1. UNCHANGED <<local, ws, watched, cur, batch, ev>> /\ pc \in Handling
    BY <1>3 DEF Handle, CreateDir, MakeParent, OpenFile, CopyFile, RemoveEntry, developer
  <2>2. KeysHandled' /\ ParentsFirst(ws', cur') /\ \A p \in Path : ModifiedClosed(ws, p)'
    BY <2>1 DEF KeysInv, KeysHandled, ModifiedClosed
  <2> QED
    BY <2>1, <2>2 DEF KeysInv, NoRootEvents, BatchOwn
<1> QED
  BY <1>1, <1>2, <1>3, DeveloperKeys, AddsKeys

-----------------------------------------------------------------------------
(***************************************************************************)
(* The handlers: FitsInv is kept.                                          *)
(***************************************************************************)

\* Every entry that is not ignored is listed at construction.
LEMMA ListedEntries ==
    ASSUME NEW p \in Path, p # Root, p \notin Ignored, local[p] # Absent
    PROVE  p \in filesToLoad
<1>1. p \in Seq(Name) /\ Root \in Seq(Name) /\ Len(Root) = 0
  BY PathAssumption DEF Root
<1>2. SubSeq(Root, 1, 0) = SubSeq(p, 1, 0)
  BY <1>1 DEF Root
<1>3. IsPrefix(Root, p)
  BY <1>1, <1>2 DEF IsPrefix
<1>4. \A a \in Upto(p) : a \notin Ignored
  BY UptoIgnored
<1> QED
  BY <1>3, <1>4 DEF filesToLoad, deepListFiles, Below

\* What is coming goes on coming, until it is taken from the batch.
LEMMA ComingKept ==
    ASSUME TypeInv, StageInv, ServiceInv(ws, cur), Alive',
           Start \/ Adds \/ Watch \/ Handle,
           NEW x \in Event, Coming(ws, cur, batch, x)
    PROVE  \/ Coming(ws', cur', batch', x)
           \/ NextEvent /\ ev' = x /\ pc' = FirstStage[x.kind]
<1>1. ws \in Service /\ batch \in Events /\ ev.path \in Path /\ NoPath \notin Key
  BY NoPathAssumption DEF TypeInv, TypeOK, Events
<1>2. CASE Start
  <2>1. UNCHANGED <<ws, cur, batch>>
    BY <1>2 DEF Start, ListFiles, TestConnections, AddRoot, AddListed, StartWatching
  <2> QED
    BY <2>1
<1>3. CASE Handle
  <2>1. UNCHANGED <<ws, cur, batch>>
    BY <1>3 DEF Handle, CreateDir, MakeParent, OpenFile, CopyFile, RemoveEntry
  <2> QED
    BY <2>1
<1>4. CASE Adds
  <2>1. UNCHANGED <<cur, batch>>
    BY <1>4 DEF Adds, Filter, AddFile, AddDirectory, Register, RegisterFails
  <2>2. CASE Register
    <3>1. \A y \in Event : Held(ws, cur, y) => Held(ws', cur, y)
      BY <1>1, <2>2, RegisteredHolds DEF Register
    <3> QED
      BY <2>1, <3>1 DEF Coming
  <2>3. CASE ~Register
    <3>1. ws' = ws
      BY <1>4, <2>3 DEF Adds, Filter, AddFile, AddDirectory, RegisterFails
    <3> QED
      BY <2>1, <3>1
  <2> QED
    BY <2>2, <2>3
<1>5. CASE Watch
  <2>1. CASE Poll
    <3>1. /\ cur \notin Key /\ batch = <<>> /\ ws.queue # <<>>
          /\ cur' = Head(ws.queue) /\ ws' = Polled(ws, cur')
          /\ batch' = ws.keys[cur'].events
      BY <1>1, <2>1 DEF Poll, StageInv
    <3>2. \A y \in Event : Held(ws, cur, y) => Coming(ws', cur', batch', y)
      BY <1>1, <3>1, PolledHolds
    <3>3. Held(ws, cur, x)
      BY <3>1 DEF Coming, ToSet
    <3> QED
      BY <3>2, <3>3
  <2>2. CASE NextEvent
    <3>1. /\ UNCHANGED <<ws, cur>> /\ batch # <<>> /\ Head(batch) # Overflow
          /\ ev' = Head(batch) /\ batch' = Tail(batch) /\ pc' = FirstStage[ev'.kind]
      BY <2>2 DEF NextEvent, developer
    <3>2. ToSet(batch) = {Head(batch)} \cup ToSet(Tail(batch))
      BY <1>1, <3>1, ToSetHeadTail DEF Events
    <3> QED
      BY <2>2, <3>1, <3>2 DEF Coming
  <2>3. CASE Reset
    <3>1. /\ cur \in Key /\ ws' = ResetKey(ws, cur) /\ cur' = NoPath /\ batch' = batch
      BY <2>3 DEF Reset, TypeInv, KeyHeld
    <3>2. \A y \in Event : Held(ws, cur, y) => Held(ws', cur', y)
      BY <1>1, <3>1, ResetKeyHolds
    <3> QED
      BY <3>1, <3>2 DEF Coming
  <2>4. CASE PollClosed \/ NextEventFails \/ Check \/ Notify
    <3>1. UNCHANGED <<ws, cur, batch>>
      BY <2>4 DEF PollClosed, NextEventFails, Check, Notify
    <3> QED
      BY <3>1
  <2> QED
    BY <1>5, <2>1, <2>2, <2>3, <2>4 DEF Watch
<1> QED
  BY <1>2, <1>3, <1>4, <1>5

\* What was coming of an entry that is there still is, after a change.
LEMMA ChangeComing ==
    ASSUME TypeInv, ServiceInv(ws, cur), NEW kind, NEW a, NEW entry,
           Changes(kind, a, entry), NEW p \in Path, local[p] # Absent,
           NEW x \in Event, x.path = p, Coming(ws, cur, batch, x)
    PROVE  Coming(ws', cur', batch', x)
<1>1. cur' = cur /\ batch' = batch
  BY ChangesFacts
<1> SUFFICES ASSUME Held(ws, cur, x) PROVE Held(ws', cur, x)
  BY <1>1 DEF Coming
<1> SUFFICES ASSUME ~Held(ws', cur, x) PROVE FALSE
  OBVIOUS
<1>2. local[a] = Dir /\ Parent(p) = a
  BY ToldHeld
<1>3. a # Root /\ Children(local, a) = {}
  BY <1>2 DEF Changes
<1>4. p # Root
  BY <1>2, <1>3, ParentFacts
<1> QED
  BY <1>2, <1>3, <1>4 DEF Children

\* An entry that exists after a change and was not missed: the change told of its
\* creation, or it was there before.
LEMMA ChangeSeen ==
    ASSUME NEW kind, NEW a, NEW entry, Changes(kind, a, entry), entry # Absent,
           a \notin unseen'
    PROVE  \/ Watched(ws, Parent(a)) /\ kind = "create"
           \/ pc = "boot"
           \/ local[a] # Absent /\ a \notin unseen
BY DEF Changes, Change

\* The creation of an entry that is to be watched stays on its way, until the
\* handler is installed.
LEMMA NewKept ==
    ASSUME TypeInv, StageInv, ServiceInv(ws, cur), Alive',
           Start \/ Adds \/ Watch \/ Handle,
           NEW p \in Path \ Ignored, local[p] # Absent,
           IsDirectory(local, p) \/ ByNameToBeWatched(p),
           New(p), ~((AddFile \/ Register) /\ ev.path = p)
    PROVE  New(p)'
<1> USE DEF Adding
<1>1. CASE NextEvent /\ ev' = Created(p)
  <2>1. pc' = "check"
    BY <1>1 DEF NextEvent, FirstStage, Created
  <2> QED
    BY <1>1, <2>1 DEF New, BeingAdded
<1>2. CASE Coming(ws, cur, batch, Created(p)) /\ ~(NextEvent /\ ev' = Created(p))
  <2>1. Coming(ws', cur', batch', Created(p))
    BY <1>2, ComingKept, OverflowIsNoEvent
  <2> QED
    BY <2>1 DEF New
<1> SUFFICES ASSUME ~Coming(ws, cur, batch, Created(p)) PROVE New(p)'
  BY <1>1, <1>2
<1>3. CASE Start
  <2>1. pc \in Starting
    BY <1>3 DEF Start, ListFiles, TestConnections, AddRoot, AddListed, StartWatching, Starting
  <2>2. p \in listed \/ pc = "boot" \/ (p = Root /\ pc \in {"connect", "root"})
    BY <2>1 DEF New, BeingAdded, Starting
  <2>3. CASE ListFiles
    BY <2>2, <2>3, ListedEntries DEF ListFiles, New
  <2>4. CASE TestConnections
    BY <2>2, <2>4 DEF TestConnections, New, Alive, Running, Stopped
  <2>5. CASE AddRoot
    BY <2>2, <2>5 DEF AddRoot, New
  <2>6. CASE AddListed
    BY <2>2, <2>6 DEF AddListed, New
  <2>7. CASE StartWatching
    BY <2>2, <2>7 DEF StartWatching, New
  <2> QED
    BY <1>3, <2>3, <2>4, <2>5, <2>6, <2>7 DEF Start
<1>4. CASE Adds
  <2>1. /\ UNCHANGED <<ev, listed>> /\ pc \in Adding
        /\ ~RegisterFails
    BY <1>4, StoppedStep
    DEF Adds, Filter, AddFile, AddDirectory, Register, RegisterFails, Alive, Running, Stopped
  <2>2. p \in listed \/ ev \in {Created(p), Add(p)}
    BY <2>1 DEF New, BeingAdded
  <2>3. CASE p \in listed
    BY <2>1, <2>3 DEF New
  <2>4. CASE ev \in {Created(p), Add(p)}
    <3>1. ev.path = p
      BY <2>4, EventOfKind
    <3>2. Filter \/ AddDirectory
      BY <1>4, <2>1, <3>1 DEF Adds
    <3>3. pc' \in Adding
      BY <3>1, <3>2 DEF Filter, AddDirectory, isToBeWatched
    <3> QED
      BY <2>1, <2>4, <3>3 DEF New, BeingAdded
  <2> QED
    BY <2>2, <2>3, <2>4
<1>5. CASE Watch
  <2>1. /\ pc \in {"poll", "next", "check", "notify"} /\ listed' = listed
    BY <1>5 DEF Watch, Poll, PollClosed, NextEvent, NextEventFails, Reset, Check, Notify
  <2>2. p \in listed \/ (pc = "check" /\ ev = Created(p))
    BY <2>1 DEF New, BeingAdded
  <2>3. CASE pc = "check" /\ ev = Created(p)
    <3>1. Check /\ ev.path = p
      BY <1>5, <2>3, EventOfKind
      DEF Watch, Poll, PollClosed, NextEvent, NextEventFails, Reset, Notify
    <3>2. pc' = "filter" /\ ev' = ev
      BY <3>1 DEF Check, isToBeWatched
    <3> QED
      BY <2>3, <3>2 DEF New, BeingAdded
  <2> QED
    BY <2>1, <2>2, <2>3 DEF New
<1>6. CASE Handle
  <2>1. pc \in Handling \ {"notify"} /\ listed' = listed
    BY <1>6 DEF Handle, CreateDir, MakeParent, OpenFile, CopyFile, RemoveEntry, Handling
  <2>2. p \in listed
    BY <2>1 DEF New, BeingAdded, Handling
  <2> QED
    BY <2>1, <2>2 DEF New
<1> QED
  BY <1>3, <1>4, <1>5, <1>6

\* Every step of a thread that serves events.
LEMMA FitsNext ==
    ASSUME TypeInv, NoneIgnored, WellFormed(local), StageInv, ServiceInv(ws, cur),
           EntriesInv, FitsInv, Alive',
           Developer \/ Start \/ Adds \/ Watch \/ Handle
    PROVE  FitsInv'
<1> SUFFICES ASSUME NEW p \in Path \ (Ignored \cup unseen')
             PROVE  HandlerFits(p)'
  BY DEF FitsInv
<1>1. /\ local \in [Path -> {Absent, Dir} \cup Content] /\ watched \in [Path -> Handler]
      /\ Dir \notin Content /\ Absent \notin Content /\ Dir # Absent
  BY ContentAssumption DEF TypeInv, TypeOK, Dir, Absent
<1>2. CASE Developer
  <2>1. PICK kind, a, entry : Changes(kind, a, entry)
    BY <1>2, DeveloperChanges DEF WellFormed
  <2>2. /\ UNCHANGED <<watched, pc, listed, cur, batch, ev>>
        /\ local'[a] = entry /\ \A q \in Path \ {a} : local'[q] = local[q]
        /\ p # a => p \notin unseen
    BY <2>1, ChangesFacts
  <2>3. local[p] # Absent /\ New(p) => New(p)'
    <3> SUFFICES ASSUME local[p] # Absent, Coming(ws, cur, batch, Created(p))
                 PROVE  Coming(ws', cur', batch', Created(p))
      BY <2>2 DEF New, BeingAdded
    <3> QED
      BY <2>1, ChangeComing, OverflowIsNoEvent
  <2>4. CASE p # a
    <3>1. HandlerFits(p) /\ local'[p] = local[p]
      BY <2>2, <2>4 DEF FitsInv
    <3> QED
      BY <1>1, <2>2, <2>3, <3>1 DEF HandlerFits, IsDirectory, ByNameToBeWatched
  <2>5. CASE p = a /\ entry # Absent
    <3>1. \/ Watched(ws, Parent(a)) /\ kind = "create"
          \/ pc = "boot"
          \/ local[a] # Absent /\ a \notin unseen
      BY <2>1, <2>5, ChangeSeen
    <3>2. CASE Watched(ws, Parent(a)) /\ kind = "create"
      <4>1. Held(ws', cur, Created(a))
        BY <2>1, <3>2, ToldNew DEF Created
      <4> QED
        BY <2>2, <2>5, <4>1 DEF HandlerFits, New, Coming
    <3>3. CASE pc = "boot"
      BY <2>2, <3>3 DEF HandlerFits, New
    <3>4. CASE local[a] # Absent /\ a \notin unseen
      <4>1. local[p] \in Content /\ local'[p] \in Content
        BY <1>1, <2>1, <2>2, <2>5, <3>4 DEF Changes
      <4>2. HandlerFits(p)
        BY <2>5, <3>4 DEF FitsInv
      <4> QED
        BY <1>1, <2>2, <2>3, <4>1, <4>2 DEF HandlerFits, IsDirectory, ByNameToBeWatched
    <3> QED
      BY <3>1, <3>2, <3>3, <3>4
  <2>6. CASE p = a /\ entry = Absent
    BY <1>1, <2>2, <2>6 DEF HandlerFits, IsDirectory
  <2> QED
    BY <2>4, <2>5, <2>6
<1>3. CASE Start \/ Adds \/ Watch \/ Handle
  <2>1. local' = local /\ unseen' = unseen
    BY <1>3
    DEF Start, ListFiles, TestConnections, AddRoot, AddListed, StartWatching,
        Adds, Filter, AddFile, AddDirectory, Register, RegisterFails,
        Watch, Poll, PollClosed, NextEvent, NextEventFails, Reset, Check, Notify,
        Handle, CreateDir, MakeParent, OpenFile, CopyFile, RemoveEntry, developer, history
  <2>2. HandlerFits(p) /\ EntryInv(p)
    BY <2>1 DEF FitsInv, EntriesInv
  <2>3. CASE ~((AddFile \/ Register) /\ ev.path = p)
    <3>1. watched'[p] = watched[p]
      <4>1. CASE Adds
        BY <1>1, <2>3, <4>1
        DEF Adds, Filter, AddFile, AddDirectory, Register, RegisterFails, HandlerFor
      <4>2. CASE Start \/ Watch \/ Handle
        BY <4>2
        DEF Start, ListFiles, TestConnections, AddRoot, AddListed, StartWatching,
            Watch, Poll, PollClosed, NextEvent, NextEventFails, Reset, Check, Notify,
            Handle, CreateDir, MakeParent, OpenFile, CopyFile, RemoveEntry
      <4> QED
        BY <1>3, <4>1, <4>2
    <3>2. /\ local[p] \in Content /\ ByNameToBeWatched(p) /\ New(p) => New(p)'
          /\ IsDirectory(local, p) /\ New(p) => New(p)'
      BY <1>1, <1>3, <2>3, NewKept DEF IsDirectory
    <3> QED
      BY <2>1, <2>2, <3>1, <3>2 DEF HandlerFits, IsDirectory, ByNameToBeWatched
  <2>4. CASE (AddFile \/ Register) /\ ev.path = p
    <3>1. CASE ev.kind = "delete" /\ local[p] # Absent
      <4>1. ev = Deleted(p) /\ pc \in Adding
        BY <2>4, <3>1, EventOfKind DEF AddFile, Register, Adding
      <4>2. Coming(ws, cur, batch, Created(p))
        BY <2>2, <3>1, <4>1 DEF EntryInv, DeletionsFollowed
      <4>3. Coming(ws', cur', batch', Created(p))
        BY <1>3, <2>4, <4>2, ComingKept, OverflowIsNoEvent
        DEF AddFile, Register, NextEvent
      <4> QED
        BY <4>3 DEF HandlerFits, New
    <3>2. CASE ev.kind # "delete" /\ AddFile
      BY <1>1, <2>1, <2>4, <3>2 DEF AddFile, HandlerFor, HandlerFits, IsDirectory
    <3>3. CASE ev.kind # "delete" /\ Register
      BY <1>1, <2>1, <2>4, <3>3 DEF Register, HandlerFor, HandlerFits, IsDirectory
    <3>4. CASE local[p] = Absent
      BY <1>1, <2>1, <3>4 DEF HandlerFits, IsDirectory
    <3> QED
      BY <2>4, <3>1, <3>2, <3>3, <3>4
  <2> QED
    BY <2>3, <2>4
<1> QED
  BY <1>2, <1>3

-----------------------------------------------------------------------------
(***************************************************************************)
(* Deletions on their way: DelSoon is kept until one is processed.         *)
(***************************************************************************)

\* A key is processed in the loop only.
LEMMA KeyInLoop ==
    ASSUME TypeInv, StageInv, Alive, cur \in Key
    PROVE  InLoop
<1>1. pc \in Stage \ Stopped /\ cur # NoPath
  BY NoPathAssumption DEF TypeInv, TypeOK, Alive, Running
<1>2. pc \notin Starting \cup {"poll"} /\ ~(pc \in Adding /\ ev.kind = "add")
  BY <1>1 DEF StageInv
<1> QED
  BY <1>1, <1>2 DEF InLoop, Stage

\* A change by the developer.
LEMMA ChangeDelSoon ==
    ASSUME TypeInv, Alive, StageInv, ServiceInv(ws, cur), KeysInv,
           NEW kind, NEW a, NEW entry, Changes(kind, a, entry),
           NEW p \in Path \ stale', DelSoon(p)
    PROVE  DelSoon(p)'
<1>1. /\ UNCHANGED <<watched, pc, cur, batch, ev>>
      /\ local'[a] = entry /\ \A q \in Path \ {a} : local'[q] = local[q]
      /\ ~Watched(ws, Parent(a)) =>
           IF entry = Absent THEN Below(a) \subseteq stale' ELSE a \in stale'
  BY ChangesFacts
<1>2. /\ a \in Path \ {Root} /\ Parent(a) \in Path /\ Parent(a) # a
      /\ local[a] = Absent => entry # Absent
      /\ local[a] = Dir => kind = "delete" /\ entry = Absent /\ Children(local, a) = {}
  BY ParentFacts DEF Changes, EventKind
<1>3. /\ Extends(ws, ws')
      /\ \A j \in ToSet(ws'.queue) \ ToSet(ws.queue) : ws.keys[j].valid
      /\ \A j \in Key :
           /\ ws'.keys[j].dir = ws.keys[j].dir
           /\ ws'.keys[j].valid <=> ws.keys[j].valid /\ ~(local[a] = Dir /\ ws.keys[j].dir = a)
  BY ToldKeys
<1>4. ToSet(ws'.queue) \subseteq Key
  <2>1. ws' \in Service
    BY ToldKeys
  <2> QED
    BY <2>1 DEF Service, ToSet
<1>5. CASE OwnDeletion(p)
  <2> SUFFICES ASSUME Held(ws, cur, Deleted(p)), ~Held(ws', cur, Deleted(p))
               PROVE  ParentsDeletion(p)'
    BY <1>1, <1>5 DEF OwnDeletion, Coming, Deleting, DelSoon
  <2>1. /\ local[a] = Dir /\ Parent(p) = a
        /\ cur \in Key /\ ws.keys[cur].valid /\ ws.keys[cur].dir = a
    BY ToldHeld, OverflowIsNoEvent
  <2>2. p # Root /\ p # a
    BY <1>2, <2>1, ParentFacts
  <2>3. InLoop' /\ watched'[a] # "none"
    BY <1>1, <2>1, KeyInLoop DEF InLoop, KeysInv, KeysHandled
  <2>4. local'[p] = Absent
    BY <1>1, <1>2, <2>1, <2>2 DEF Children
  <2>5. ~Watched(ws', a)
    BY <1>3, <2>1 DEF Watched, ValidKeys
  <2>6. Watched(ws, Parent(a))
    BY <1>1, <1>2, <2>1, UptoFacts
  <2>7. PICK v \in Key :
          /\ ws.keys[v].valid /\ ws.keys[v].dir = Parent(a)
          /\ ws'.keys[v].valid /\ Tells(ws', v, Deleted(a))
          /\ v \in ToSet(ws'.queue) \cup {cur}
    BY <1>2, <2>1, <2>6, ToldNew DEF Deleted
  <2>8. v \in ToSet(ws'.queue) /\ v # cur
    BY <1>2, <2>1, <2>7
  <2>9. ASSUME NEW j \in ToSet(ws'.queue) \ {v}, ws'.keys[j].dir = Parent(a)
        PROVE  FALSE
    <3>1. j \in Key /\ ws.keys[j].dir = Parent(a)
      BY <1>3, <1>4, <2>9
    <3>2. ~ws.keys[j].valid
      BY <2>7, <2>9, <3>1 DEF ServiceInv, OneKey
    <3>3. j \in ToSet(ws.queue)
      BY <1>3, <2>9, <3>2
    <3> QED
      BY <1>2, <2>1, <3>1, <3>2, <3>3 DEF KeysInv, ParentsFirst
  <2>10. ServedFirst(ws', cur', a)
    BY <1>1, <1>2, <1>3, <2>1, <2>7, <2>8, <2>9 DEF ServedFirst
  <2> QED
    BY <2>1, <2>2, <2>3, <2>4, <2>5, <2>10 DEF ParentsDeletion
<1>6. CASE ParentsDeletion(p)
  <2> DEFINE d == Parent(p)
  <2>1. d \in Path /\ Deleted(d) \in Event
    BY ParentFacts, OverflowIsNoEvent
  <2> SUFFICES ASSUME local[p] = Absent, ~Watched(ws, d), ServedFirst(ws, cur, d)
               PROVE  local'[p] = Absent /\ ~Watched(ws', d) /\ ServedFirst(ws', cur', d)
    BY <1>1, <1>6 DEF ParentsDeletion, InLoop, Deleting, DelSoon
  <2>2. local'[p] = Absent
    BY <1>1, <1>2
  <2>3. ~Watched(ws', d)
    BY <1>3 DEF Watched, ValidKeys
  <2>4. ServedFirst(ws', cur, d)
    <3>1. PICK q \in ToSet(ws.queue) :
            /\ ws.keys[q].dir = Parent(d) /\ Tells(ws, q, Deleted(d))
            /\ \A j \in ToSet(ws.queue) \ {q} :
                 ws.keys[j].dir = Parent(d) => Before(ws.queue, q, j)
      BY DEF ServedFirst
    <3>2. q \in Key /\ q \in ToSet(ws'.queue)
      BY <1>3, <1>4, <3>1 DEF Extends
    <3>3. Tells(ws', q, Deleted(d)) /\ ws'.keys[q].dir = Parent(d)
      BY <1>3, <2>1, <3>1, <3>2, ToldTells
    <3>4. ASSUME NEW j \in ToSet(ws'.queue) \ {q}, ws'.keys[j].dir = Parent(d)
          PROVE  Before(ws'.queue, q, j)
      <4>1. j \in Key /\ ws.keys[j].dir = Parent(d)
        BY <1>3, <1>4, <3>4
      <4>2. Before(ws.queue, q, j)
        <5>1. CASE j \in ToSet(ws.queue)
          BY <3>1, <4>1, <5>1
        <5>2. CASE j \notin ToSet(ws.queue)
          BY <5>2 DEF Before, ToSet
        <5> QED
          BY <5>1, <5>2
      <4> QED
        BY <1>3, <3>1, <4>1, <4>2 DEF Extends
    <3>5. cur \in Key => ws'.keys[cur].dir # Parent(d)
      BY <1>3 DEF ServedFirst
    <3> QED
      BY <3>2, <3>3, <3>4, <3>5 DEF ServedFirst
  <2> QED
    BY <1>1, <2>2, <2>3, <2>4
<1> QED
  BY <1>5, <1>6 DEF DelSoon

\* What is not served before a key that is registered, polled or reset stays so.
LEMMA ServedFirstKept ==
    ASSUME TypeInv, StageInv, ServiceInv(ws, cur), KeysInv, InLoop,
           Adds \/ Watch \/ Handle, NEW d \in Path, ~Watched(ws, d),
           ServedFirst(ws, cur, d)
    PROVE  \/ ~Watched(ws', d) /\ ServedFirst(ws', cur', d)
           \/ Poll /\ \E x \in ToSet(batch') : x \in {Deleted(d), Overflow}
<1>1. PICK q \in ToSet(ws.queue) :
        /\ ws.keys[q].dir = Parent(d) /\ Tells(ws, q, Deleted(d))
        /\ \A j \in ToSet(ws.queue) \ {q} :
             ws.keys[j].dir = Parent(d) => Before(ws.queue, q, j)
  BY DEF ServedFirst
<1>2. ws \in Service /\ ToSet(ws.queue) \subseteq Key /\ NoPath \notin Key
  BY NoPathAssumption DEF TypeInv, TypeOK, Service, ToSet
<1>3. cur \in Key => ws.keys[cur].dir # Parent(d)
  BY DEF ServedFirst
<1>4. \A j \in Key : ~(ws.keys[j].valid /\ ws.keys[j].dir = d)
  BY DEF Watched, ValidKeys
<1>5. CASE UNCHANGED <<ws, cur>>
  BY <1>5
<1>6. CASE Register
  <2>1. /\ cur' = cur /\ CanRegister(ws, ev.path) /\ ws' = Registered(ws, ev.path)
        /\ ev.path \in Path /\ pc \in Adding
    BY <1>6 DEF Register, TypeInv, TypeOK, Adding
  <2>2. cur \in Key /\ ev.kind # "add"
    BY <2>1 DEF InLoop, TypeInv, KeyHeld, Adding, Watching, Handling
  <2>3. ev.path # d
    BY <1>3, <2>1, <2>2 DEF KeysInv, BatchOwn
  <2>4. CASE ws' = ws
    BY <1>5, <2>1, <2>4
  <2>5. CASE ws' # ws
    <3>1. PICK k \in Key :
            /\ ws'.queue = ws.queue
            /\ \A j \in Key \ {k} : ws'.keys[j] = ws.keys[j]
            /\ k \notin ToSet(ws.queue) /\ k # cur /\ ws'.keys[k].dir = ev.path
      BY <1>2, <2>1, <2>5, RegisteredKeys
    <3>2. ~Watched(ws', d)
      BY <1>4, <2>3, <3>1 DEF Watched, ValidKeys
    <3>3. \A j \in ToSet(ws.queue) : ws'.keys[j] = ws.keys[j]
      BY <1>2, <3>1
    <3>4. Tells(ws', q, Deleted(d))
      BY <1>1, <3>3 DEF Tells
    <3>5. cur \in Key => ws'.keys[cur].dir # Parent(d)
      BY <1>3, <3>1
    <3> QED
      BY <1>1, <2>1, <3>1, <3>2, <3>3, <3>4, <3>5 DEF ServedFirst
  <2> QED
    BY <2>4, <2>5
<1>7. CASE Poll
  <2> DEFINE k == Head(ws.queue)
  <2>1. /\ cur \notin Key /\ ws.queue # <<>> /\ cur' = k /\ ws' = Polled(ws, k)
        /\ batch' = ws.keys[k].events
    BY <1>2, <1>7 DEF Poll, StageInv
  <2>2. /\ ws \in Service /\ cur \notin Key /\ ServiceInv(ws, cur)
        /\ ws.queue # <<>> /\ k = Head(ws.queue) /\ ws' = Polled(ws, k)
    BY <1>2, <2>1
  <2> HIDE DEF k
  <2>3. /\ k \in Key /\ ToSet(ws'.queue) = ToSet(ws.queue) \ {k}
        /\ \A i \in Key, j \in Key : Before(ws.queue, i, j) => Before(ws'.queue, i, j)
        /\ \A i \in ToSet(ws'.queue) : ~Before(ws.queue, i, k)
        /\ \A j \in Key \ {k} : ws'.keys[j] = ws.keys[j]
        /\ ws'.keys[k].dir = ws.keys[k].dir /\ (ws'.keys[k].valid <=> ws.keys[k].valid)
        /\ k \in ToSet(ws.queue)
    BY ONLY <2>2, PolledKeys
  <2>4. CASE k = q
    <3>1. \E x \in ToSet(ws.keys[q].events) : x \in {Deleted(d), Overflow}
      BY <1>1 DEF Tells
    <3> QED
      BY <1>7, <2>1, <2>4, <3>1
  <2>5. CASE k # q
    <3>1. q \in ToSet(ws'.queue) /\ q \in Key /\ ws'.keys[q] = ws.keys[q]
      BY <1>2, <2>3, <2>5
    <3>2. ws'.keys[k].dir # Parent(d)
      BY <1>1, <2>3, <2>5, <3>1
    <3>3. ~Watched(ws', d)
      BY <1>4, <2>3 DEF Watched, ValidKeys
    <3>4. Tells(ws', q, Deleted(d))
      BY <1>1, <3>1 DEF Tells
    <3>5. ASSUME NEW j \in ToSet(ws'.queue) \ {q}, ws'.keys[j].dir = Parent(d)
          PROVE  Before(ws'.queue, q, j)
      <4>1. j \in ToSet(ws.queue) /\ j \in Key /\ ws'.keys[j] = ws.keys[j]
        BY <1>2, <2>3
      <4> QED
        BY <1>1, <2>3, <3>1, <3>5, <4>1
    <3> QED
      BY <1>1, <2>1, <3>1, <3>2, <3>3, <3>4, <3>5 DEF ServedFirst
  <2> QED
    BY <2>4, <2>5
<1>8. CASE Reset
  <2>1. /\ cur \in Key /\ cur' = NoPath /\ ws' = ResetKey(ws, cur)
    BY <1>8 DEF Reset, TypeInv, KeyHeld
  <2>2. /\ Extends(ws, ws')
        /\ ToSet(ws'.queue) \subseteq ToSet(ws.queue) \cup {cur}
        /\ cur \notin ToSet(ws.queue)
        /\ \A j \in Key \ {cur} : ws'.keys[j] = ws.keys[j]
        /\ ws.keys[cur].valid =>
             /\ ws'.keys[cur].valid /\ ws'.keys[cur].dir = ws.keys[cur].dir
        /\ ~ws.keys[cur].valid => ws'.keys[cur] = NoKey /\ ws'.queue = ws.queue
    BY <1>2, <2>1, ResetKeys
  <2>3. ~Watched(ws', d)
    BY <1>4, <2>1, <2>2 DEF Watched, ValidKeys, NoKey
  <2>4. q # cur /\ q \in Key /\ ws'.keys[q] = ws.keys[q] /\ q \in ToSet(ws'.queue)
    BY <1>2, <2>2 DEF Extends
  <2>5. Tells(ws', q, Deleted(d))
    BY <1>1, <2>4 DEF Tells
  <2>6. ASSUME NEW j \in ToSet(ws'.queue) \ {q}, ws'.keys[j].dir = Parent(d)
        PROVE  Before(ws'.queue, q, j)
    <3>1. j # cur /\ j \in ToSet(ws.queue)
      BY <1>3, <2>1, <2>2, <2>6
    <3>2. j \in Key /\ ws.keys[j].dir = Parent(d)
      BY <1>2, <2>2, <2>6, <3>1
    <3> QED
      BY <1>1, <2>2, <3>1, <3>2 DEF Extends
  <2> QED
    BY <1>1, <1>2, <2>1, <2>3, <2>4, <2>5, <2>6 DEF ServedFirst
<1>9. UNCHANGED <<ws, cur>> \/ Register \/ Poll \/ Reset
  BY DEF Adds, Filter, AddFile, AddDirectory, RegisterFails,
         Watch, PollClosed, NextEvent, NextEventFails, Check, Notify,
         Handle, CreateDir, MakeParent, OpenFile, CopyFile, RemoveEntry
<1> QED
  BY <1>5, <1>6, <1>7, <1>8, <1>9

\* The deletion being processed is, until the handler has removed the entry.
LEMMA DeletingKept ==
    ASSUME TypeInv, StagesInv, Alive', Start \/ Adds \/ Watch \/ Handle,
           NEW d \in Path \ Ignored, Deleting(d),
           pc = "notify" => ByNameToBeWatched(d), ~(RemoveEntry /\ ev = Deleted(d))
    PROVE  Deleting(d)'
<1> USE DEF Adding
<1>1. ev = Deleted(d) /\ ev.path = d /\ ev.kind = "delete" /\ pc \in Adding \cup {"notify", "remove"}
  BY EventOfKind DEF Deleting, Deleted
<1>2. ~Start
  BY <1>1 DEF Start, ListFiles, TestConnections, AddRoot, AddListed, StartWatching
<1>3. CASE Adds
  <2>1. ev' = ev /\ ~RegisterFails
    BY <1>3, StoppedStep
    DEF Adds, Filter, AddFile, AddDirectory, Register, RegisterFails, Alive, Running, Stopped
  <2>2. pc' \in {"kind", "register"} \/ pc' = "notify"
    BY <1>1, <1>3, <2>1 DEF Adds, Filter, AddFile, AddDirectory, Register, AfterAdding
  <2> QED
    BY <1>1, <2>1, <2>2 DEF Deleting
<1>4. CASE Watch
  <2>1. Notify
    BY <1>1, <1>4
    DEF Watch, Poll, PollClosed, NextEvent, NextEventFails, Reset, Check
  <2>2. watched[d] \in Removal /\ ev' = ev
    BY <1>1, <2>1 DEF Notify, StagesInv
  <2>3. pc' = "remove"
    BY <1>1, <2>1, <2>2 DEF Notify, Removal, HandlerStage
  <2> QED
    BY <1>1, <2>2, <2>3 DEF Deleting
<1>5. CASE Handle
  <2>1. RemoveEntry
    BY <1>1, <1>5 DEF Handle, CreateDir, MakeParent, OpenFile, CopyFile
  <2> QED
    BY <1>1, <2>1
<1> QED
  BY <1>2, <1>3, <1>4, <1>5

\* The loop is left by stopping only, and what has a handler keeps one.
LEMMA LoopKept ==
    ASSUME TypeInv, StageInv, InLoop, Alive', Start \/ Adds \/ Watch \/ Handle
    PROVE  /\ InLoop' /\ ~Start
           /\ \A d \in Path : watched[d] # "none" => watched'[d] # "none"
<1> USE DEF InLoop, Watching, Handling, Adding
<1>1. ~Start
  BY DEF Start, ListFiles, TestConnections, AddRoot, AddListed, StartWatching
<1>2. CASE Adds
  <2>1. ev' = ev /\ ~RegisterFails /\ ev.kind # "add"
    BY <1>2, StoppedStep
    DEF Adds, Filter, AddFile, AddDirectory, Register, RegisterFails, Alive, Running, Stopped
  <2>2. pc' \in {"kind", "register", "notify"}
    BY <1>2, <2>1 DEF Adds, Filter, AddFile, AddDirectory, Register, AfterAdding
  <2>3. \A d \in Path : watched[d] # "none" => watched'[d] # "none"
    BY <1>2 DEF Adds, Filter, AddFile, AddDirectory, Register, RegisterFails, HandlerFor,
                TypeInv, TypeOK
  <2> QED
    BY <1>1, <2>1, <2>2, <2>3
<1>3. CASE Watch
  <2>1. watched' = watched /\ ~PollClosed /\ ~NextEventFails
    BY <1>3, StoppedStep
    DEF Watch, Poll, PollClosed, NextEvent, NextEventFails, Reset, Check, Notify,
        Alive, Running, Stopped
  <2>2. CASE Poll \/ Reset
    BY <1>1, <2>1, <2>2 DEF Poll, Reset
  <2>3. CASE NextEvent
    <3>1. Head(batch).kind \in EventKind
      BY <2>3 DEF NextEvent, TypeInv, TypeOK, Event
    <3>2. ev' = Head(batch) /\ pc' \in {"check", "notify", "filter"} /\ ev'.kind # "add"
      BY <2>3, <3>1 DEF NextEvent, EventKind, FirstStage
    <3> QED
      BY <1>1, <2>1, <3>2
  <2>4. CASE Check
    BY <1>1, <2>1, <2>4 DEF Check, StageInv
  <2>5. CASE Notify
    <3>1. pc' \in {"next", "parent", "mkdir", "remove"}
      BY <2>5, StagesType DEF Notify, TypeInv, TypeOK
    <3> QED
      BY <1>1, <2>1, <3>1
  <2> QED
    BY <1>3, <2>1, <2>2, <2>3, <2>4, <2>5 DEF Watch
<1>4. CASE Handle
  <2>1. watched' = watched /\ pc' \in {"next", "open", "copy"}
    BY <1>4 DEF Handle, CreateDir, MakeParent, OpenFile, CopyFile, RemoveEntry,
                CommandFails, Alive, Running, Stopped
  <2> QED
    BY <1>1, <2>1
<1> QED
  BY <1>1, <1>2, <1>3, <1>4

\* What is above an entry that is not ignored is not ignored.
LEMMA ParentNotIgnored ==
    ASSUME NEW p \in Path \ Ignored
    PROVE  Parent(p) \in Path \ Ignored
BY ParentFacts, UptoFacts, WatchedAssumption

\* A step of the thread.
LEMMA DelSoonKept ==
    ASSUME TypeInv, StageInv, StagesInv, ServiceInv(ws, cur), KeysInv, Alive',
           Start \/ Adds \/ Watch \/ Handle, NEW p \in Path \ Ignored, DelSoon(p),
           pc = "notify" => ByNameToBeWatched(p),
           ~(RemoveEntry /\ ev \in {Deleted(p), Deleted(Parent(p))})
    PROVE  DelSoon(p)'
<1> DEFINE d == Parent(p)
<1>1. /\ d \in Path \ Ignored /\ Deleted(d) \in Event /\ Deleted(p) \in Event
      /\ Deleted(p).kind = "delete" /\ Deleted(d).kind = "delete"
  BY ParentNotIgnored, OverflowIsNoEvent DEF Deleted
<1>2. CASE Coming(ws, cur, batch, Deleted(p))
  <2>1. CASE NextEvent /\ ev' = Deleted(p)
    <3>1. pc' = "filter"
      BY <2>1 DEF NextEvent, FirstStage, Deleted
    <3> QED
      BY <2>1, <3>1 DEF DelSoon, OwnDeletion, Deleting, Adding
  <2>2. CASE ~(NextEvent /\ ev' = Deleted(p))
    <3>1. Coming(ws', cur', batch', Deleted(p))
      BY <1>1, <1>2, <2>2, ComingKept
    <3> QED
      BY <3>1 DEF DelSoon, OwnDeletion
  <2> QED
    BY <2>1, <2>2
<1>3. CASE Deleting(p)
  <2>1. Deleting(p)'
    BY <1>3, DeletingKept
  <2> QED
    BY <2>1 DEF DelSoon, OwnDeletion
<1>4. CASE ParentsDeletion(p)
  <2>1. p # Root /\ InLoop /\ watched[d] # "none"
    BY <1>4 DEF ParentsDeletion
  <2>2. InLoop' /\ watched'[d] # "none" /\ ~Start
    BY <1>1, <2>1, LoopKept
  <2>3. local' = local
    BY DEF Start, ListFiles, TestConnections, AddRoot, AddListed, StartWatching,
        Adds, Filter, AddFile, AddDirectory, Register, RegisterFails,
        Watch, Poll, PollClosed, NextEvent, NextEventFails, Reset, Check, Notify,
        Handle, CreateDir, MakeParent, OpenFile, CopyFile, RemoveEntry, developer
  <2>4. CASE Deleting(d)
    <3>1. Deleting(d)'
      BY <1>1, <2>1, <2>4, DeletingKept DEF ByNameToBeWatched
    <3> QED
      BY <2>1, <2>2, <3>1 DEF DelSoon, ParentsDeletion
  <2>5. CASE \E x \in ToSet(batch) : x \in {Deleted(d), Overflow}
    <3>1. CASE NextEvent
      <4>1. /\ batch # <<>> /\ Head(batch) # Overflow
            /\ ev' = Head(batch) /\ batch' = Tail(batch) /\ pc' = FirstStage[ev'.kind]
        BY <3>1 DEF NextEvent
      <4>2. ToSet(batch) = {Head(batch)} \cup ToSet(Tail(batch))
        BY <4>1, ToSetHeadTail DEF TypeInv, TypeOK
      <4>3. CASE ev' = Deleted(d)
        <5>1. Deleting(d)'
          BY <1>1, <4>1, <4>3 DEF Deleting, FirstStage, Adding
        <5> QED
          BY <2>1, <2>2, <5>1 DEF DelSoon, ParentsDeletion
      <4>4. CASE ev' # Deleted(d)
        <5>1. \E x \in ToSet(batch') : x \in {Deleted(d), Overflow}
          BY <2>5, <4>1, <4>2, <4>4
        <5> QED
          BY <2>1, <2>2, <5>1 DEF DelSoon, ParentsDeletion
      <4> QED
        BY <4>3, <4>4
    <3>2. CASE ~NextEvent
      <4>1. batch # <<>>
        BY <2>5 DEF ToSet
      <4>2. batch' = batch
        BY <2>2, <3>2, <4>1
        DEF Adds, Filter, AddFile, AddDirectory, Register, RegisterFails,
            Watch, Poll, PollClosed, NextEventFails, Reset, Check, Notify, StageInv,
            Handle, CreateDir, MakeParent, OpenFile, CopyFile, RemoveEntry
      <4> QED
        BY <2>1, <2>2, <2>5, <4>2 DEF DelSoon, ParentsDeletion
    <3> QED
      BY <3>1, <3>2
  <2>6. CASE local[p] = Absent /\ ~Watched(ws, d) /\ ServedFirst(ws, cur, d)
    <3>1. \/ ~Watched(ws', d) /\ ServedFirst(ws', cur', d)
          \/ \E x \in ToSet(batch') : x \in {Deleted(d), Overflow}
      BY <1>1, <2>1, <2>2, <2>6, ServedFirstKept
    <3> QED
      BY <2>1, <2>2, <2>3, <2>6, <3>1 DEF DelSoon, ParentsDeletion
  <2> QED
    BY <1>4, <2>4, <2>5, <2>6 DEF ParentsDeletion
<1> QED
  BY <1>2, <1>3, <1>4 DEF DelSoon, OwnDeletion

-----------------------------------------------------------------------------
(***************************************************************************)
(* Removals: RemovedInv is kept.                                           *)
(***************************************************************************)

\* An entry that a change leaves there and in step with was seen to change.
LEMMA ChangeStale ==
    ASSUME NEW kind, NEW a, NEW entry, Changes(kind, a, entry), entry # Absent,
           a \notin stale'
    PROVE  /\ Watched(ws, Parent(a))
           /\ ~InTheWay(a, entry) \/ a \notin stale
           /\ InTheWay(a, entry) /\ entry = Dir => ByNameToBeWatched(a)
BY DEF Changes, Change

\* A change by the developer.
LEMMA ChangeRemoved ==
    ASSUME TypeInv, Alive, WellFormed(local), StageInv, ServiceInv(ws, cur), KeysInv,
           RemovedInv, Developer
    PROVE  RemovedInv'
<1>1. PICK kind, a, entry : Changes(kind, a, entry)
  BY DeveloperChanges DEF WellFormed
<1>2. /\ UNCHANGED <<remote, watched, pc, batch, ev>>
      /\ local'[a] = entry /\ \A q \in Path \ {a} : local'[q] = local[q]
      /\ \A q \in Path \ {a} : q \in stale => q \in stale'
      /\ ~Watched(ws, Parent(a)) =>
           IF entry = Absent THEN Below(a) \subseteq stale' ELSE a \in stale'
  BY <1>1, ChangesFacts
<1>3. /\ a \in Path /\ entry \in {Absent, Dir} \cup Content /\ (kind = "delete" <=> entry = Absent)
      /\ (local[a] = Dir => entry = Absent) /\ (entry = Dir => local[a] = Absent)
      /\ local \in [Path -> {Absent, Dir} \cup Content]
      /\ Dir \notin Content /\ Absent \notin Content /\ Dir # Absent /\ Torn # Absent
  BY <1>1, ContentAssumption DEF Changes, TypeInv, TypeOK, Dir, Absent, Torn
<1> SUFFICES ASSUME NEW p \in Path \ (Ignored \cup stale')
             PROVE  RemovalInv(p)' /\ KnownInv(p)' /\ MkdirInv(p)'
  BY DEF RemovedInv
<1>4. DelSoon(p) => DelSoon(p)'
  BY <1>1, ChangeDelSoon
<1>5. CASE p # a
  <2>1. RemovalInv(p) /\ KnownInv(p) /\ MkdirInv(p) /\ local'[p] = local[p]
    BY <1>2, <1>5 DEF RemovedInv
  <2>2. RemovalInv(p)' /\ KnownInv(p)'
    BY <1>2, <1>4, <2>1
    DEF RemovalInv, KnownInv, Named, ByNameToBeWatched, Obstacle, Blocked, IsFile
  <2>3. MkdirInv(p)'
    BY <1>2, <1>4, <2>1 DEF MkdirInv
  <2> QED
    BY <2>2, <2>3
<1>6. CASE p = a /\ entry = Absent
  <2>1. Watched(ws, Parent(a))
    BY <1>2, <1>6, UptoFacts
  <2>2. Held(ws', cur, Deleted(a))
    BY <1>1, <1>3, <1>6, <2>1, ToldNew DEF Deleted
  <2>3. DelSoon(p)'
    BY <1>1, <1>6, <2>2, ChangesFacts DEF DelSoon, OwnDeletion, Coming
  <2> QED
    BY <1>2, <1>3, <1>6, <2>3 DEF RemovalInv, KnownInv, Blocked, MkdirInv
<1>7. CASE p = a /\ entry # Absent
  <2>1. MkdirInv(p)'
    BY <1>2, <1>7 DEF MkdirInv
  <2>2. RemovalInv(p)'
    <3> SUFFICES ASSUME Named(p)', Obstacle(p)' PROVE DelSoon(p)'
      BY DEF RemovalInv
    <3>1. \/ entry \in Content /\ remote[a] = Dir
          \/ entry = Dir /\ IsFile(remote, a)
      BY <1>2, <1>3, <1>7 DEF Obstacle, Blocked, IsFile
    <3>2. InTheWay(a, entry)
      BY <1>3, <3>1 DEF InTheWay, IsDirectory
    <3>3. a \notin stale
      BY <1>1, <1>7, <3>2, ChangeStale
    <3>4. Obstacle(a)
      BY <1>3, <1>7, <3>1 DEF Obstacle, IsFile
    <3>5. Named(p)
      BY <1>2 DEF Named, ByNameToBeWatched
    <3> QED
      BY <1>4, <1>7, <3>3, <3>4, <3>5 DEF RemovedInv, RemovalInv
  <2>3. KnownInv(p)'
    <3> SUFFICES ASSUME entry = Dir, IsFile(remote, a) PROVE ByNameToBeWatched(a)
      BY <1>2, <1>7 DEF KnownInv, Blocked, IsFile, ByNameToBeWatched
    <3> QED
      BY <1>1, <1>7, ChangeStale DEF InTheWay
  <2> QED
    BY <2>1, <2>2, <2>3
<1> QED
  BY <1>5, <1>6, <1>7

\* Starting, adding and watching, which leave the trees alone.
LEMMA ServeRemoved ==
    ASSUME TypeInv, StageInv, StagesInv, ServiceInv(ws, cur), KeysInv, RemovedInv,
           Start \/ Adds \/ Watch, Alive'
    PROVE  RemovedInv'
<1>1. UNCHANGED <<local, remote, stale>>
  BY DEF Start, ListFiles, TestConnections, AddRoot, AddListed, StartWatching,
        Adds, Filter, AddFile, AddDirectory, Register, RegisterFails,
        Watch, Poll, PollClosed, NextEvent, NextEventFails, Reset, Check, Notify,
        developer, history
<1>2. /\ watched \in [Path -> Handler] /\ ev.path \in Path /\ batch \in Events
      /\ local \in [Path -> {Absent, Dir} \cup Content] /\ Dir \notin Content /\ Dir # Absent
  BY ContentAssumption DEF TypeInv, TypeOK, Events, Dir, Absent
<1> SUFFICES ASSUME NEW p \in Path \ (Ignored \cup stale)
             PROVE  RemovalInv(p)' /\ KnownInv(p)' /\ MkdirInv(p)'
  BY <1>1 DEF RemovedInv
<1>3. RemovalInv(p) /\ KnownInv(p) /\ MkdirInv(p)
  BY DEF RemovedInv
<1>4. ~RemoveEntry
  BY DEF RemoveEntry, Start, ListFiles, TestConnections, AddRoot, AddListed, StartWatching,
        Adds, Filter, AddFile, AddDirectory, Register, RegisterFails,
        Watch, Poll, PollClosed, NextEvent, NextEventFails, Reset, Check, Notify
<1>5. DelSoon(p) /\ (pc = "notify" => ByNameToBeWatched(p)) => DelSoon(p)'
  BY <1>4, DelSoonKept
<1>6. CASE Start
  <2>1. /\ UNCHANGED <<watched, batch>> /\ pc # "notify"
        /\ pc' \notin {"kind", "register", "notify", "mkdir"}
    BY <1>6 DEF Start, ListFiles, TestConnections, AddRoot, AddListed, StartWatching
  <2> QED
    BY <1>1, <1>3, <1>5, <2>1
    DEF RemovalInv, KnownInv, MkdirInv, Obstacle, Blocked, IsFile, Named, ByNameToBeWatched
<1>7. CASE Adds
  <2>1. /\ UNCHANGED <<batch, ev>> /\ pc \in Adding /\ ~RegisterFails
    BY <1>7, StoppedStep
    DEF Adds, Filter, AddFile, AddDirectory, Register, RegisterFails, Adding,
        Alive, Running, Stopped
  <2>2. RemovalInv(p)'
    <3> SUFFICES ASSUME Named(p)', Obstacle(p) PROVE Named(p)
      BY <1>1, <1>3, <1>5, <2>1 DEF RemovalInv, Obstacle, Blocked, IsFile, Adding
    <3>1. ~IsDirectory(local, p) \/ ByNameToBeWatched(p)
      BY <1>2, <1>3 DEF Obstacle, KnownInv, IsDirectory
    <3>2. CASE ev.path # p
      <4>1. watched'[p] = watched[p]
        BY <1>2, <1>7, <2>1, <3>2
        DEF Adds, Filter, AddFile, AddDirectory, Register, HandlerFor
      <4> QED
        BY <2>1, <3>2, <4>1 DEF Named, ByNameToBeWatched
    <3>3. CASE ev.path = p /\ Filter
      <4>1. watched' = watched /\ (pc' \in {"kind", "register"} => ByNameToBeWatched(p))
        BY <3>1, <3>3 DEF Filter, isToBeWatched, AfterAdding
      <4> QED
        BY <4>1 DEF Named, ByNameToBeWatched
    <3>4. CASE ev.path = p /\ ~Filter
      BY <1>7, <2>1, <3>4 DEF Named, Adds, AddFile, AddDirectory, Register
    <3> QED
      BY <3>2, <3>3, <3>4
  <2>3. MkdirInv(p)'
    <3> SUFFICES ASSUME watched'[p] = "createDir", local[p] = Absent,
                        \/ Modified(p) \in ToSet(batch)
                        \/ pc' \in {"notify", "mkdir"} /\ ev.path = p
                 PROVE  DelSoon(p)'
      BY <1>1, <2>1 DEF MkdirInv
    <3>1. watched[p] = "createDir" /\ ~((AddFile \/ Register) /\ ev.path = p)
      BY <1>2, <1>7, <2>1
      DEF Adds, Filter, AddFile, AddDirectory, Register, HandlerFor, IsDirectory
    <3>2. CASE Modified(p) \in ToSet(batch)
      BY <1>3, <1>5, <2>1, <3>1, <3>2 DEF MkdirInv, Adding
    <3>3. CASE pc' \in {"notify", "mkdir"} /\ ev.path = p
      BY <1>7, <2>1, <3>1, <3>3
      DEF Adds, Filter, AddDirectory, isToBeWatched, ByNameToBeWatched
    <3> QED
      BY <3>2, <3>3
  <2>4. KnownInv(p)'
    <3>1. watched[p] # "none" => watched'[p] # "none"
      BY <1>2, <1>7 DEF Adds, Filter, AddFile, AddDirectory, Register, RegisterFails, HandlerFor
    <3> QED
      BY <1>1, <1>3, <3>1 DEF KnownInv, Blocked, IsFile, ByNameToBeWatched
  <2> QED
    BY <2>2, <2>3, <2>4
<1>8. CASE Watch
  <2>1. UNCHANGED watched /\ ~PollClosed /\ ~NextEventFails
    BY <1>8, StoppedStep
    DEF Watch, Poll, PollClosed, NextEvent, NextEventFails, Reset, Check, Notify,
        Alive, Running, Stopped
  <2>2. pc' \notin {"kind", "register"}
    <3>1. CASE NextEvent
      <4>1. Head(batch) \in Event
        BY <1>2, <3>1 DEF NextEvent, Events
      <4> QED
        BY <3>1, <4>1, StagesType DEF NextEvent, Event
    <3>2. CASE Notify
      <4>1. watched[ev.path] \in Handler
        BY <1>2
      <4> QED
        BY <3>2, <4>1, StagesType DEF Notify
    <3> QED
      BY <1>8, <2>1, <3>1, <3>2 DEF Watch, Poll, Reset, Check
  <2>3. RemovalInv(p)' /\ KnownInv(p)'
    BY <1>1, <1>3, <1>5, <2>1, <2>2
    DEF RemovalInv, KnownInv, Obstacle, Blocked, IsFile, Named, ByNameToBeWatched
  <2>4. MkdirInv(p)'
    <3> SUFFICES ASSUME watched[p] = "createDir", local[p] = Absent,
                        \/ Modified(p) \in ToSet(batch')
                        \/ pc' \in {"notify", "mkdir"} /\ ev'.path = p
                 PROVE  DelSoon(p)'
      BY <1>1, <2>1 DEF MkdirInv
    <3>1. DelSoon(p) => DelSoon(p)'
      BY <1>5 DEF ByNameToBeWatched
    <3>2. CASE Poll
      <4>1. /\ pc' = "next" /\ batch' = ws.keys[Head(ws.queue)].events
            /\ ws.queue # <<>>
        BY <3>2 DEF Poll
      <4>2. Head(ws.queue) \in Key
        BY <4>1 DEF TypeInv, TypeOK, Service
      <4>3. Follows(batch', Modified(p), Deleted(p)) /\ Modified(p) \in ToSet(batch')
        BY <4>1, <4>2 DEF KeysInv, ModifiedClosed
      <4>4. \E x \in ToSet(batch') : x \in {Deleted(p), Overflow}
        BY <4>3 DEF Follows, ToSet
      <4> QED
        BY <4>4 DEF DelSoon, OwnDeletion, Coming
    <3>3. CASE NextEvent
      <4>1. /\ batch # <<>> /\ Head(batch) # Overflow /\ ev' = Head(batch)
            /\ batch' = Tail(batch) /\ pc' = FirstStage[ev'.kind]
        BY <3>3 DEF NextEvent
      <4>2. ToSet(batch) = {Head(batch)} \cup ToSet(Tail(batch)) /\ Head(batch) \in Event
        BY <1>2, <4>1, ToSetHeadTail DEF Events
      <4>3. pc' \in {"notify", "mkdir"} /\ ev'.path = p => ev' = Modified(p)
        BY <4>1, <4>2 DEF FirstStage, Event, EventKind, Modified
      <4>4. Modified(p) \in ToSet(batch)
        BY <4>1, <4>2, <4>3
      <4> QED
        BY <1>3, <3>1, <4>4 DEF MkdirInv
    <3>4. CASE Reset \/ Check
      <4>1. batch' = batch /\ pc' \notin {"notify", "mkdir"}
        BY <3>4 DEF Reset, Check
      <4> QED
        BY <1>3, <3>1, <4>1 DEF MkdirInv
    <3>5. CASE Notify
      <4>1. batch' = batch /\ pc = "notify" /\ ev' = ev
        BY <3>5 DEF Notify
      <4> QED
        BY <1>3, <3>1, <4>1 DEF MkdirInv
    <3> QED
      BY <1>8, <2>1, <3>2, <3>3, <3>4, <3>5 DEF Watch
  <2> QED
    BY <2>3, <2>4
<1> QED
  BY <1>6, <1>7, <1>8

\* While a handler runs, the key of the directory of its entry is held.
LEMMA HandledEntry ==
    ASSUME TypeInv, StageInv, StagesInv, KeysInv, Handle
    PROVE  /\ pc \in Handling \ {"notify"} /\ cur \in Key /\ ev.kind # "add"
           /\ ev.path \in Path \ {Root} /\ ev.kind \in EventKind
           /\ Parent(ev.path) = ws.keys[cur].dir
<1>1. pc \in Handling \ {"notify"}
  BY DEF Handle, CreateDir, MakeParent, OpenFile, CopyFile, RemoveEntry, Handling
<1>2. cur \in Key
  BY <1>1 DEF TypeInv, KeyHeld
<1>3. ev.path \in Path /\ ev.kind \in EventKind \cup {"add"}
  BY DEF TypeInv, TypeOK
<1>4. ev.kind # "add"
  BY <1>1 DEF StagesInv, Processed
<1> QED
  BY <1>1, <1>2, <1>3, <1>4 DEF KeysInv, NoRootEvents, BatchOwn, Processed

\* What changes with an entry that is removed is not an entry beside it.
LEMMA RemovedAlone ==
    ASSUME TypeInv, StageInv, StagesInv, KeysInv, RemoveEntry,
           NEW p \in Below(ev.path), NEW x \in ToSet(batch), x \in Event, x.path = p
    PROVE  p = ev.path
<1>1. Handle
  BY DEF Handle
<1>2. /\ cur \in Key /\ ev.path \in Path \ {Root} /\ Parent(ev.path) = ws.keys[cur].dir
  BY <1>1, HandledEntry
<1>3. x # Overflow
  BY OverflowIsNoEvent
<1>4. p \in Path /\ p # Root /\ Parent(p) = Parent(ev.path)
  BY <1>2, <1>3 DEF KeysInv, BatchOwn, NoRootEvents, Below
<1>5. Len(p) = Len(ev.path) /\ Len(p) \in Nat
  <2>1. Len(Parent(p)) = Len(p) - 1 /\ Len(Parent(ev.path)) = Len(ev.path) - 1
        /\ Len(p) \in Nat /\ Len(ev.path) \in Nat
    BY <1>2, <1>4, ParentFacts
  <2> QED
    BY <1>4, <2>1
<1>6. ev.path \in Upto(p)
  BY <1>2, <1>4, UptoFacts
<1>7. ev.path \notin Upto(p) \ {p}
  BY <1>4, <1>5, UptoFacts
<1> QED
  BY <1>6, <1>7

\* The handlers.
LEMMA HandleRemoved ==
    ASSUME TypeInv, WellFormed(local), StageInv, StagesInv, ServiceInv(ws, cur), KeysInv,
           RemovedInv, Handle, Alive'
    PROVE  RemovedInv'
<1> DEFINE e == ev.path
<1>1. /\ UNCHANGED <<local, watched, batch, ev>> /\ pc' \in {"next", "open", "copy"}
  BY DEF Handle, CreateDir, MakeParent, OpenFile, CopyFile, RemoveEntry, CommandFails,
         developer, Alive, Running, Stopped
<1>2. /\ pc \in Handling \ {"notify"} /\ e \in Path \ {Root} /\ remote \in Tree
      /\ local \in [Path -> {Absent, Dir} \cup Content] /\ Parent(e) \in Path
      /\ Dir \notin Content /\ Dir # Absent /\ Absent \notin Content
      /\ Torn \notin Content /\ Torn # Dir /\ Torn # Absent
  BY HandledEntry, ContentAssumption, ParentFacts DEF TypeInv, TypeOK, Dir, Absent, Torn
<1> HIDE DEF e
<1> SUFFICES ASSUME NEW p \in Path \ (Ignored \cup stale')
             PROVE  RemovalInv(p)' /\ KnownInv(p)' /\ MkdirInv(p)'
  BY DEF RemovedInv
<1>3. \* What it takes, for an entry said something of before the step.
      /\ RemovalInv(p)' <=> (ByNameToBeWatched(p) /\ Obstacle(p)' => DelSoon(p)')
      /\ KnownInv(p)' <=> (Blocked(p)' => ByNameToBeWatched(p))
      /\ MkdirInv(p)' <=>
           (watched[p] = "createDir" /\ local[p] = Absent /\ Modified(p) \in ToSet(batch)
              => DelSoon(p)')
  BY <1>1 DEF RemovalInv, KnownInv, Named, ByNameToBeWatched, MkdirInv
<1>4. p \notin stale => RemovalInv(p) /\ KnownInv(p) /\ MkdirInv(p)
  BY DEF RemovedInv
<1>5. DelSoon(p) /\ ~(RemoveEntry /\ ev \in {Deleted(p), Deleted(Parent(p))}) => DelSoon(p)'
  BY <1>2, DelSoonKept
<1>6. ASSUME p \notin stale,
             ~(RemoveEntry /\ ev \in {Deleted(p), Deleted(Parent(p))}),
             Obstacle(p)' => Obstacle(p), Blocked(p)' => Blocked(p)
      PROVE  RemovalInv(p)' /\ KnownInv(p)' /\ MkdirInv(p)'
  <2>1. RemovalInv(p)'
    BY <1>3, <1>4, <1>5, <1>6 DEF RemovalInv, Named
  <2>2. MkdirInv(p)'
    BY <1>3, <1>4, <1>5, <1>6 DEF MkdirInv
  <2>3. KnownInv(p)'
    BY <1>3, <1>4, <1>6 DEF KnownInv
  <2> QED
    BY <2>1, <2>2, <2>3
<1> USE DEF IsFile
<1>7. CASE CreateDir /\ ~UNCHANGED remote
  <2>1. /\ pc = "mkdir" /\ remote' = MkdirP(remote, e)
        /\ stale' = CASE IsDirectory(local, e) -> stale \ {e}
                      [] IsFile(local, e)      -> stale \cup InVain(e)
                      [] OTHER                 -> stale \cup InVain(Parent(e))
    BY <1>1, <1>7 DEF CreateDir, CommandFails, e
  <2>2. ~RemoveEntry
    BY <2>1 DEF RemoveEntry
  <2>3. \/ IsDirectory(local, e) /\ stale' = stale \ {e}
        \/ ~IsDirectory(local, e) /\ IsFile(local, e) /\ stale' = stale \cup InVain(e)
        \/ /\ ~IsDirectory(local, e) /\ ~IsFile(local, e) /\ local[e] = Absent
           /\ stale' = stale \cup InVain(Parent(e))
    BY <1>2, <2>1 DEF IsFile, IsDirectory
  <2>4. CASE p \in stale
    <3>1. p = e /\ local[p] = Dir
      BY <2>3, <2>4 DEF IsDirectory
    <3>2. remote'[p] = Dir
      BY <1>2, <2>1, <3>1, UptoFacts DEF MkdirP
    <3>3. ~Obstacle(p)' /\ ~Blocked(p)' /\ local[p] # Absent
      BY <1>1, <1>2, <3>1, <3>2 DEF Obstacle, Blocked
    <3> QED
      BY <1>3, <3>3
  <2>5. CASE p \notin stale /\ p \notin Upto(e)
    <3>1. remote'[p] = remote[p]
      BY <2>1, <2>5 DEF MkdirP
    <3>2. (Obstacle(p)' => Obstacle(p)) /\ (Blocked(p)' => Blocked(p))
      BY <1>1, <3>1 DEF Obstacle, Blocked
    <3> QED
      BY <1>6, <2>2, <2>5, <3>2
  <2>6. CASE p \notin stale /\ p \in Upto(e)
    <3>1. MkdirInv(p)'
      BY <1>3, <1>4, <1>5, <2>2, <2>6 DEF MkdirInv
    <3>3. ~Blocked(p)'
      BY <1>2, <2>1, <2>6 DEF MkdirP, Blocked
    <3>2. RemovalInv(p)'
      <4> SUFFICES ASSUME Obstacle(p)' PROVE DelSoon(p)'
        BY <1>3
      <4>1. local[p] # Dir
        BY <1>1, <1>2, <3>3 DEF Obstacle
      <4>2. ~IsDirectory(local, e)
        BY <1>2, <2>6, <4>1, AboveAreDirectories DEF IsDirectory
      <4>3. p \notin InVain(e) \/ ~IsFile(local, e)
        BY <2>3, <4>2
      <4>4. p \in InVain(e)
        BY <2>6, <4>1 DEF InVain, IsDirectory
      <4>5. local[e] = Absent /\ p \notin InVain(Parent(e))
        BY <2>3, <4>2, <4>3, <4>4
      <4>6. p = e
        <5>1. p \notin Upto(Parent(e))
          BY <4>1, <4>5 DEF InVain, IsDirectory
        <5> QED
          BY <1>2, <2>6, <5>1, UptoFacts
      <4>7. watched[p] = "createDir"
        BY <2>1, <4>6 DEF StagesInv, e
      <4>8. DelSoon(p)
        BY <1>4, <2>1, <2>6, <4>5, <4>6, <4>7 DEF MkdirInv, e
      <4> QED
        BY <1>5, <2>2, <4>8
    <3> QED
      BY <1>3, <3>1, <3>2, <3>3
  <2> QED
    BY <2>4, <2>5, <2>6
<1>8. CASE MakeParent /\ ~UNCHANGED remote
  <2>1. /\ pc = "parent" /\ remote' = MkdirP(remote, Parent(e))
        /\ stale' = stale \cup InVain(Parent(e))
    BY <1>1, <1>8 DEF MakeParent, CommandFails, e
  <2>2. ~RemoveEntry /\ p \notin stale
    BY <2>1 DEF RemoveEntry
  <2>3. (Obstacle(p)' => Obstacle(p)) /\ (Blocked(p)' => Blocked(p))
    <3>1. CASE p \in Upto(Parent(e))
      <4>1. local[p] = Dir /\ remote'[p] = Dir
        BY <2>1, <3>1 DEF InVain, IsDirectory, MkdirP
      <4> QED
        BY <1>1, <1>2, <4>1 DEF Obstacle, Blocked
    <3>2. CASE p \notin Upto(Parent(e))
      <4>1. remote'[p] = remote[p]
        BY <2>1, <3>2 DEF MkdirP
      <4> QED
        BY <1>1, <4>1 DEF Obstacle, Blocked
    <3> QED
      BY <3>1, <3>2
  <2> QED
    BY <1>6, <2>2, <2>3
<1>9. CASE OpenFile
  <2>1. /\ pc = "open"
        /\ \/ /\ local[e] \in Content /\ remote' = [remote EXCEPT ![e] = Torn] /\ stale' = stale
           \/ remote' = remote /\ stale \subseteq stale'
    BY <1>9 DEF OpenFile, CatTo, e
  <2>2. ~RemoveEntry /\ p \notin stale
    BY <2>1 DEF RemoveEntry
  <2>3. (Obstacle(p)' => Obstacle(p)) /\ (Blocked(p)' => Blocked(p))
    BY <1>1, <1>2, <2>1 DEF Obstacle, Blocked, Tree
  <2> QED
    BY <1>6, <2>2, <2>3
<1>10. CASE CopyFile
  <2>1. /\ pc = "copy" /\ remote[e] = Torn /\ sent \in Content
    BY <1>10 DEF CopyFile, StagesInv, e
  <2>2. \/ \E c \in {Torn} \cup Content :
             /\ remote' = [remote EXCEPT ![e] = c]
             /\ stale' = IF c = local[e] THEN stale \ {e} ELSE stale
        \/ remote' = remote /\ stale \subseteq stale'
    <3>1. \A c \in {sent} \cup (IF local[e] = sent THEN {}
                                ELSE {Torn} \cup ({local[e]} \cap Content)) :
            c \in {Torn} \cup Content
      BY <2>1
    <3> QED
      BY <1>10, <3>1 DEF CopyFile, CatTo, e
  <2>3. ~RemoveEntry
    BY <2>1 DEF RemoveEntry
  <2>4. (Obstacle(p)' => Obstacle(p)) /\ (Blocked(p)' => Blocked(p))
    BY <1>1, <1>2, <2>1, <2>2 DEF Obstacle, Blocked, Tree
  <2>5. CASE p \in stale
    <3>1. p = e /\ local[p] \in Content /\ remote'[p] \in Content
      BY <1>2, <2>2, <2>5 DEF Tree
    <3>2. ~Obstacle(p)' /\ ~Blocked(p)' /\ local[p] # Absent
      BY <1>1, <1>2, <3>1 DEF Obstacle, Blocked
    <3> QED
      BY <1>3, <3>2
  <2>6. CASE p \notin stale
    BY <1>6, <2>3, <2>4, <2>6
  <2> QED
    BY <2>5, <2>6
<1>11. CASE RemoveEntry
  <2>1. /\ pc = "remove" /\ remote' = RmRf(remote, e)
        /\ stale' = (stale \ {q \in Below(e) : local[q] = Absent})
                    \cup {q \in Below(e) \ {e} : local[q] # Absent}
    BY <1>1, <1>11 DEF RemoveEntry, CommandFails, e
  <2>2. CASE p \in Below(e)
    <3>1. remote'[p] = Absent
      BY <2>1, <2>2 DEF RmRf
    <3>2. ~Obstacle(p)' /\ ~Blocked(p)'
      BY <1>1, <1>2, <3>1 DEF Obstacle, Blocked
    <3>3. ~(watched[p] = "createDir" /\ Modified(p) \in ToSet(batch))
      <4> SUFFICES ASSUME watched[p] = "createDir", Modified(p) \in ToSet(batch)
                   PROVE  FALSE
        OBVIOUS
      <4>1. p = e
        BY <1>11, <2>2, RemovedAlone, EventsDiffer DEF e
      <4> QED
        BY <2>1, <4>1 DEF StageInv, e
    <3> QED
      BY <1>3, <3>2, <3>3
  <2>3. CASE p \notin Below(e)
    <3>1. p \notin stale /\ remote'[p] = remote[p]
      BY <2>1, <2>3 DEF RmRf
    <3>2. ev \notin {Deleted(p), Deleted(Parent(p))}
      BY <1>2, <2>3, UptoFacts, OverflowIsNoEvent, ParentFacts DEF e
    <3>3. (Obstacle(p)' => Obstacle(p)) /\ (Blocked(p)' => Blocked(p))
      BY <1>1, <3>1 DEF Obstacle, Blocked
    <3> QED
      BY <1>6, <3>1, <3>2, <3>3
  <2> QED
    BY <2>2, <2>3
<1>12. CASE (CreateDir \/ MakeParent) /\ UNCHANGED remote
  <2>1. ~RemoveEntry
    BY <1>12 DEF CreateDir, MakeParent, RemoveEntry
  <2>2. CASE p \notin stale
    BY <1>1, <1>6, <1>12, <2>1, <2>2 DEF Obstacle, Blocked
  <2>3. CASE p \in stale
    <3>1. p = e /\ local[p] = Dir /\ remote' = MkdirP(remote, e)
      BY <1>1, <1>12, <2>3 DEF CreateDir, MakeParent, CommandFails, IsDirectory, e
    <3>2. remote'[p] = Dir
      BY <1>2, <3>1, UptoFacts DEF MkdirP
    <3>3. ~Obstacle(p)' /\ ~Blocked(p)' /\ local[p] # Absent
      BY <1>1, <1>2, <3>1, <3>2 DEF Obstacle, Blocked
    <3> QED
      BY <1>3, <3>3
  <2> QED
    BY <2>2, <2>3
<1> QED
  BY <1>7, <1>8, <1>9, <1>10, <1>11, <1>12 DEF Handle

\* Every step of a thread that serves events.
LEMMA RemovedNext ==
    ASSUME TypeInv, Alive, WellFormed(local), StageInv, StagesInv, ServiceInv(ws, cur),
           KeysInv, RemovedInv, Alive', Developer \/ Start \/ Adds \/ Watch \/ Handle
    PROVE  RemovedInv'
BY ChangeRemoved, ServeRemoved, HandleRemoved

-----------------------------------------------------------------------------
(***************************************************************************)
(* Uploads: UploadedInv is kept.                                           *)
(***************************************************************************)

\* A change by the developer.
LEMMA ChangeUploaded ==
    ASSUME TypeInv, WellFormed(local), ServiceInv(ws, cur), UploadedInv, Developer
    PROVE  UploadedInv'
<1>1. PICK kind, a, entry : Changes(kind, a, entry)
  BY DeveloperChanges DEF WellFormed
<1>2. /\ UNCHANGED <<remote, watched, pc, cur, batch, ev, sent>>
      /\ local'[a] = entry /\ \A q \in Path \ {a} : local'[q] = local[q]
      /\ \A q \in Path \ {a} : (q \in stale => q \in stale') /\ (q \in unseen => q \in unseen')
  BY <1>1, ChangesFacts
<1>3. a \in Path /\ kind \in EventKind /\ (kind = "delete" <=> entry = Absent)
  BY <1>1 DEF Changes
<1> SUFFICES ASSUME NEW p \in Path, p \notin unseen', p \notin stale', p \notin Ignored
             PROVE  UploadInv(p)'
  BY DEF UploadedInv, lost
<1>4. CASE p # a
  <2>1. UploadInv(p) /\ local'[p] = local[p]
    BY <1>2, <1>4 DEF UploadedInv, lost
  <2>2. local[p] # Absent /\ UpSoon(p) => UpSoon(p)'
    <3>1. Created(p) \in Event /\ Created(p).path = p /\ Modified(p) \in Event /\ Modified(p).path = p
      BY OverflowIsNoEvent, EventsDiffer
    <3>2. \A x \in Event : local[p] # Absent /\ x.path = p /\ Coming(ws, cur, batch, x)
            => Coming(ws', cur', batch', x)
      BY <1>1, ChangeComing
    <3> QED
      BY <1>2, <3>1, <3>2 DEF UpSoon, Uploading
  <2> QED
    BY <1>2, <2>1, <2>2
    DEF UploadInv, Named, ByNameToBeWatched, IsDirectory, Copying
<1>5. CASE p = a /\ entry # Absent
  <2>1. Watched(ws, Parent(a)) /\ kind \in {"create", "modify"}
    BY <1>1, <1>3, <1>5, ChangeStale DEF EventKind
  <2>2. Held(ws', cur, Created(a)) \/ Held(ws', cur, Modified(a))
    BY <1>1, <2>1, ToldNew DEF Created, Modified
  <2> QED
    BY <1>2, <1>5, <2>2 DEF UploadInv, UpSoon, Coming
<1>6. CASE p = a /\ entry = Absent
  BY <1>2, <1>6 DEF UploadInv
<1> QED
  BY <1>4, <1>5, <1>6

\* A handler that was found unfit is about to be replaced.
LEMMA UnfitIsNew ==
    ASSUME TypeInv, StageInv, FitsInv, pc \in Handling, NEW p \in Path \ (Ignored \cup unseen),
           \/ IsDirectory(local, p) /\ watched[p] # "createDir"
           \/ local[p] \in Content /\ ByNameToBeWatched(p) /\ watched[p] # "uploadFile"
    PROVE  Coming(ws, cur, batch, Created(p))
<1>1. New(p)
  BY DEF FitsInv, HandlerFits
<1>2. listed = {} /\ pc \notin Adding /\ pc # "boot" /\ pc \notin {"connect", "root", "check"}
  BY DEF StageInv, Watching, Handling, Adding
<1> QED
  BY <1>1, <1>2 DEF New, BeingAdded

\* Starting, adding and watching, which leave the trees alone.
LEMMA ServeUploaded ==
    ASSUME TypeInv, StageInv, ServiceInv(ws, cur), FitsInv, UploadedInv,
           Start \/ Adds \/ Watch, Alive'
    PROVE  UploadedInv'
<1>1. UNCHANGED <<local, remote, stale, unseen>>
  BY DEF Start, ListFiles, TestConnections, AddRoot, AddListed, StartWatching,
        Adds, Filter, AddFile, AddDirectory, Register, RegisterFails,
        Watch, Poll, PollClosed, NextEvent, NextEventFails, Reset, Check, Notify,
        developer, history
<1>2. /\ watched \in [Path -> Handler] /\ ev.path \in Path /\ batch \in Events
      /\ local \in [Path -> {Absent, Dir} \cup Content] /\ Dir \notin Content /\ Dir # Absent
  BY ContentAssumption DEF TypeInv, TypeOK, Events, Dir, Absent
<1> SUFFICES ASSUME NEW p \in Path \ (Ignored \cup lost),
                    (IsDirectory(local, p) \/ Named(p)'), local[p] # Absent,
                    remote[p] # local[p]
             PROVE  UpSoon(p)'
  BY <1>1 DEF UploadedInv, UploadInv, lost, IsDirectory
<1>3. UploadInv(p)
  BY DEF UploadedInv
<1>4. Created(p) \in Event /\ Modified(p) \in Event /\ Created(p).kind = "create"
      /\ Modified(p).kind = "modify" /\ Modified(p).path = p /\ Created(p).path = p
  BY OverflowIsNoEvent, EventsDiffer DEF Created, Modified
<1>5. \A x \in {Created(p), Modified(p)} : Coming(ws, cur, batch, x) => UpSoon(p)'
  <2> SUFFICES ASSUME NEW x \in {Created(p), Modified(p)}, Coming(ws, cur, batch, x),
                      NextEvent, ev' = x, pc' = FirstStage[x.kind]
               PROVE  UpSoon(p)'
    BY <1>4, ComingKept DEF UpSoon
  <2>1. ev'.path = p /\ ev'.kind \in {"create", "modify"} /\ pc' \in {"check", "notify"}
    BY <1>4 DEF FirstStage
  <2> QED
    BY <2>1 DEF UpSoon, Uploading
<1>6. CASE Start
  <2>1. /\ watched' = watched /\ pc' \notin {"kind", "register"}
        /\ pc \notin {"copy", "check", "notify", "mkdir", "parent", "open"} \cup Adding
    BY <1>6 DEF Start, ListFiles, TestConnections, AddRoot, AddListed, StartWatching, Adding
  <2>2. IsDirectory(local, p) \/ Named(p)
    BY <2>1 DEF Named, ByNameToBeWatched
  <2> QED
    BY <1>3, <1>5, <2>1, <2>2 DEF UploadInv, UpSoon, Uploading, Copying
<1>7. CASE Adds
  <2>1. /\ ev' = ev /\ pc \in Adding /\ ~RegisterFails
    BY <1>7, StoppedStep
    DEF Adds, Filter, AddFile, AddDirectory, Register, RegisterFails, Adding,
        Alive, Running, Stopped
  <2>2. IsDirectory(local, p) \/ Named(p)
    <3>1. CASE ev.path # p
      <4>1. watched'[p] = watched[p]
        BY <1>2, <1>7, <2>1, <3>1
        DEF Adds, Filter, AddFile, AddDirectory, Register, HandlerFor
      <4> QED
        BY <2>1, <3>1, <4>1 DEF Named, ByNameToBeWatched
    <3>2. CASE ev.path = p /\ Filter
      <4>1. watched' = watched /\
            (pc' \in {"kind", "register"} => IsDirectory(local, p) \/ ByNameToBeWatched(p))
        BY <3>2 DEF Filter, isToBeWatched, AfterAdding
      <4> QED
        BY <4>1 DEF Named, ByNameToBeWatched
    <3>3. CASE ev.path = p /\ ~Filter
      BY <1>7, <2>1, <3>3 DEF Named, Adds, AddFile, AddDirectory, Register
    <3> QED
      BY <3>1, <3>2, <3>3
  <2>3. CASE Uploading(p)
    <3>1. ev.kind # "add" /\ ev.path = p /\ ev.kind \in {"create", "modify"}
      BY <2>3 DEF Uploading
    <3>2. pc' \in {"kind", "register", "notify"}
      BY <1>7, <2>1, <3>1 DEF Adds, Filter, AddFile, AddDirectory, Register, AfterAdding
    <3> QED
      BY <2>1, <3>1, <3>2 DEF UpSoon, Uploading, Adding
  <2> QED
    BY <1>3, <1>5, <2>1, <2>2, <2>3 DEF UploadInv, UpSoon, Copying, Adding
<1>8. CASE Watch
  <2>1. /\ watched' = watched /\ ~PollClosed /\ ~NextEventFails
        /\ pc \in {"poll", "next", "check", "notify"}
    BY <1>8, StoppedStep
    DEF Watch, Poll, PollClosed, NextEvent, NextEventFails, Reset, Check, Notify,
        Alive, Running, Stopped
  <2>2. pc' \notin {"kind", "register"}
    <3>1. CASE NextEvent
      <4>1. Head(batch) \in Event
        BY <1>2, <3>1 DEF NextEvent, Events
      <4> QED
        BY <3>1, <4>1, StagesType DEF NextEvent, Event
    <3>2. CASE Notify
      <4>1. watched[ev.path] \in Handler
        BY <1>2
      <4> QED
        BY <3>2, <4>1, StagesType DEF Notify
    <3> QED
      BY <1>8, <2>1, <3>1, <3>2 DEF Watch, Poll, Reset, Check
  <2>3. IsDirectory(local, p) \/ ByNameToBeWatched(p)
    BY <2>1, <2>2 DEF Named, ByNameToBeWatched
  <2>4. CASE Uploading(p)
    <3>1. /\ ev.path = p /\ ev.kind \in {"create", "modify"} /\ pc \in {"check", "notify"}
          /\ Check \/ Notify
      BY <1>8, <2>1, <2>4
      DEF Uploading, Adding, Watch, Poll, NextEvent, Reset
    <3>2. ev' = ev
      BY <3>1 DEF Check, Notify
    <3>3. CASE Check
      <4>1. pc' = "filter"
        BY <2>3, <3>1, <3>3 DEF Check, isToBeWatched
      <4> QED
        BY <3>1, <3>2, <4>1 DEF UpSoon, Uploading, Adding
    <3>4. CASE Notify /\ watched[p] \in {"uploadFile", "createDir"}
      <4>1. pc' \in {"parent", "mkdir"}
        BY <3>1, <3>4 DEF Notify, HandlerStage
      <4> QED
        BY <3>1, <3>2, <4>1 DEF UpSoon, Uploading
    <3>5. CASE Notify /\ watched[p] \notin {"uploadFile", "createDir"}
      <4>1. pc \in Handling
        BY <3>5 DEF Notify, Handling
      <4>2. IsDirectory(local, p) \/ (local[p] \in Content /\ ByNameToBeWatched(p))
        BY <1>2, <2>3 DEF IsDirectory
      <4>3. Coming(ws, cur, batch, Created(p))
        BY <3>5, <4>1, <4>2, UnfitIsNew DEF lost
      <4> QED
        BY <1>5, <4>3
    <3> QED
      BY <3>1, <3>3, <3>4, <3>5
  <2>5. ~Copying(p) /\ (IsDirectory(local, p) \/ Named(p))
    BY <2>1, <2>3 DEF Copying, Named
  <2> QED
    BY <1>3, <1>5, <2>4, <2>5 DEF UploadInv, UpSoon
<1> QED
  BY <1>6, <1>7, <1>8

\* The deletion of an entry that exists is followed by its creation.
LEMMA DeletionIsFollowed ==
    ASSUME ServiceInv(ws, cur), NEW p \in Path, DeletionsFollowed(p),
           Coming(ws, cur, batch, Deleted(p))
    PROVE  Coming(ws, cur, batch, Created(p))
<1>1. /\ Deleted(p) # Overflow /\ Deleted(p).path = p /\ Created(p).path = p
  BY OverflowIsNoEvent
<1>2. CASE Overflow \in ToSet(batch)
  BY <1>2 DEF Coming
<1>3. CASE Deleted(p) \in ToSet(batch)
  <2>1. CASE Followed(batch, p)
    <3>1. \E x \in ToSet(batch) : x \in {Created(p), Overflow}
      BY <1>3, <2>1 DEF Followed, ToSet
    <3> QED
      BY <3>1 DEF Coming
  <2>2. CASE Held(ws, cur, Created(p))
    BY <2>2 DEF Coming
  <2> QED
    BY <2>1, <2>2 DEF DeletionsFollowed
<1>4. CASE Held(ws, cur, Deleted(p))
  <2>1. PICK k \in Live(ws, cur) : Tells(ws, k, Deleted(p))
    BY <1>4 DEF Held
  <2>2. PICK x \in ToSet(ws.keys[k].events) :
          x = Deleted(p) \/ (x = Overflow /\ ws.keys[k].dir = Parent(p))
    BY <1>1, <2>1 DEF Tells
  <2>3. k \in Key /\ ws.keys[k].dir = Parent(p)
    BY <1>1, <2>1, <2>2 DEF Live, ServiceInv, OwnEvents
  <2>4. CASE x = Overflow
    <3>1. Held(ws, cur, Created(p))
      BY <1>1, <2>1, <2>2, <2>3, <2>4 DEF Held, Tells
    <3> QED
      BY <3>1 DEF Coming
  <2>5. CASE x = Deleted(p) /\ Followed(ws.keys[k].events, p)
    <3>1. \E y \in ToSet(ws.keys[k].events) : y \in {Created(p), Overflow}
      BY <2>2, <2>5 DEF Followed, ToSet
    <3>2. Held(ws, cur, Created(p))
      BY <1>1, <2>1, <2>3, <3>1 DEF Held, Tells
    <3> QED
      BY <3>2 DEF Coming
  <2>6. CASE ~Followed(ws.keys[k].events, p)
    <3>1. HeldValid(ws, Created(p))
      BY <2>1, <2>6 DEF DeletionsFollowed, KeysFollowed
    <3>2. PICK j \in Key : ws.keys[j].valid /\ Tells(ws, j, Created(p))
      BY <3>1 DEF HeldValid
    <3>3. ws.keys[j].events # <<>>
      BY <3>2 DEF Tells, ToSet
    <3>4. j \in Live(ws, cur)
      BY <3>2, <3>3 DEF ServiceInv, SignalledOnce, Live
    <3> QED
      BY <3>2, <3>4 DEF Coming, Held
  <2> QED
    BY <2>2, <2>4, <2>5, <2>6
<1> QED
  BY <1>2, <1>3, <1>4 DEF Coming

\* An entry whose remote copy cannot be made because an entry of the other kind is
\* in its way, which is about to be removed, is about to be created too.
LEMMA ObstacleIsOld ==
    ASSUME TypeInv, StageInv, StagesInv, ServiceInv(ws, cur), KeysInv, EntriesInv,
           RemovedInv, Handle, pc \in {"mkdir", "open"}, ev.path \notin Ignored \cup lost,
           local[ev.path] # Absent, Obstacle(ev.path)
    PROVE  Coming(ws, cur, batch, Created(ev.path))
<1> DEFINE e == ev.path
<1>1. pc \in {"mkdir", "open"}
  OBVIOUS
<1>2. /\ cur \in Key /\ ev.kind # "add" /\ e \in Path \ {Root}
      /\ Parent(e) = ws.keys[cur].dir /\ Parent(e) \in Path
  BY HandledEntry, ParentFacts
<1>3. DelSoon(e)
  <2>1. Named(e)
    BY <1>1 DEF StagesInv, Named, ByNameToBeWatched
  <2> QED
    BY <1>2, <2>1 DEF RemovedInv, RemovalInv, lost
<1>4. CASE OwnDeletion(e)
  <2>1. Coming(ws, cur, batch, Deleted(e))
    BY <1>1, <1>4 DEF OwnDeletion, Deleting, Adding
  <2>2. DeletionsFollowed(e)
    BY <1>2 DEF EntriesInv, EntryInv, lost
  <2> QED
    BY <1>2, <2>1, <2>2, DeletionIsFollowed
<1>5. CASE ParentsDeletion(e)
  <2>1. \E x \in ToSet(batch) : x \in {Deleted(Parent(e)), Overflow}
    BY <1>1, <1>2, <1>5 DEF ParentsDeletion, Deleting, Adding
  <2>2. Deleted(Parent(e)) \notin ToSet(batch)
    <3> SUFFICES ASSUME Deleted(Parent(e)) \in ToSet(batch) PROVE FALSE
      OBVIOUS
    <3>1. Parent(e) # Root /\ Parent(Parent(e)) = Parent(e)
      BY <1>2, OverflowIsNoEvent DEF KeysInv, NoRootEvents, BatchOwn
    <3> QED
      BY <1>2, <3>1, ParentsApart
  <2> QED
    BY <2>1, <2>2 DEF Coming
<1> QED
  BY <1>3, <1>4, <1>5 DEF DelSoon

\* The handlers.
LEMMA HandleUploaded ==
    ASSUME TypeInv, WellFormed(local), StageInv, StagesInv, ServiceInv(ws, cur), KeysInv,
           EntriesInv, FitsInv, RemovedInv, UploadedInv, Handle, Alive'
    PROVE  UploadedInv'
<1> DEFINE e == ev.path
<1>1. /\ UNCHANGED <<local, unseen, watched, ws, cur, batch, ev>>
      /\ pc' \in {"next", "open", "copy"}
  BY DEF Handle, CreateDir, MakeParent, OpenFile, CopyFile, RemoveEntry, CommandFails,
         developer, Alive, Running, Stopped
<1>2. /\ pc \in Handling \ {"notify"} /\ e \in Path \ {Root} /\ remote \in Tree
      /\ local \in [Path -> {Absent, Dir} \cup Content] /\ Parent(e) \in Path
      /\ Dir \notin Content /\ Dir # Absent /\ Absent \notin Content
      /\ Torn \notin Content /\ Torn # Dir /\ Torn # Absent
  BY HandledEntry, ContentAssumption, ParentFacts DEF TypeInv, TypeOK, Dir, Absent, Torn
<1> HIDE DEF e
<1> SUFFICES ASSUME NEW p \in Path, p \notin Ignored, p \notin unseen, p \notin stale',
                    IsDirectory(local, p) \/ ByNameToBeWatched(p),
                    local[p] # Absent, remote'[p] # local[p], ~Copying(p)',
                    ~Coming(ws, cur, batch, Created(p)), ~Coming(ws, cur, batch, Modified(p))
             PROVE  Uploading(p)'
  BY <1>1 DEF UploadedInv, UploadInv, UpSoon, lost, IsDirectory, Named, ByNameToBeWatched
<1>3. \* It was so before the step.
      p \notin stale /\ remote[p] # local[p] => Copying(p) \/ Uploading(p)
  BY DEF UploadedInv, UploadInv, UpSoon, lost, Named
<1>4. local[p] # Dir => local[p] \in Content
  BY <1>2
<1>10. CASE CreateDir /\ ~CanMkdirP(remote, e)
  <2>1. /\ pc = "mkdir" /\ remote' = remote
        /\ stale' = IF IsFile(remote, e) THEN stale ELSE stale \cup {e}
    BY <1>1, <1>10 DEF CreateDir, CommandFails, e
  <2>2. p = e /\ IsFile(remote, p)
    BY <1>3, <2>1 DEF Copying, Uploading, e
  <2>3. watched[p] = "createDir"
    BY <2>1, <2>2 DEF StagesInv, e
  <2>4. CASE local[p] \in Content
    BY <1>2, <2>3, <2>4, UnfitIsNew DEF ByNameToBeWatched
  <2>5. CASE local[p] = Dir
    <3>1. Obstacle(p)
      BY <2>2, <2>5 DEF Obstacle, Blocked
    <3> QED
      BY <2>1, <2>2, <3>1, ObstacleIsOld DEF lost, e
  <2> QED
    BY <1>4, <2>4, <2>5
<1>5. CASE CreateDir /\ CanMkdirP(remote, e)
  <2>1. /\ pc = "mkdir" /\ remote' = MkdirP(remote, e)
        /\ stale' = CASE IsDirectory(local, e) -> stale \ {e}
                      [] IsFile(local, e)      -> stale \cup InVain(e)
                      [] OTHER                 -> stale \cup InVain(Parent(e))
    BY <1>1, <1>5 DEF CreateDir, CommandFails, e
  <2>2. \/ IsDirectory(local, e) /\ stale' = stale \ {e}
        \/ ~IsDirectory(local, e) /\ IsFile(local, e) /\ stale' = stale \cup InVain(e)
        \/ /\ ~IsDirectory(local, e) /\ ~IsFile(local, e) /\ local[e] = Absent
           /\ stale' = stale \cup InVain(Parent(e))
    BY <1>2, <2>1 DEF IsFile, IsDirectory
  <2>3. CASE p \in Upto(e)
    <3>1. local[p] # Dir
      BY <2>1, <2>3 DEF MkdirP
    <3>2. p \in InVain(e)
      BY <2>3, <3>1 DEF InVain, IsDirectory
    <3>3. local[e] # Dir
      BY <1>2, <2>3, <3>1, AboveAreDirectories
    <3>4. local[e] = Absent /\ p \notin InVain(Parent(e))
      BY <2>2, <3>2, <3>3 DEF IsDirectory
    <3>5. p \notin Upto(Parent(e))
      BY <3>1, <3>4 DEF InVain, IsDirectory
    <3>6. p = e
      BY <1>2, <2>3, <3>5, UptoFacts
    <3> QED
      BY <3>4, <3>6
  <2>4. CASE p \notin Upto(e)
    <3>1. p # e
      BY <1>2, <2>4, UptoFacts
    <3>2. remote'[p] = remote[p] /\ p \notin stale
      BY <2>1, <2>2, <2>4, <3>1 DEF MkdirP
    <3> QED
      BY <1>3, <2>1, <3>1, <3>2 DEF Copying, Uploading, e
  <2> QED
    BY <2>3, <2>4
<1>11. CASE MakeParent /\ ~CanMkdirP(remote, Parent(e))
  <2>1. pc = "parent" /\ pc' = "open" /\ remote' = remote /\ stale' = stale
    BY <1>1, <1>11 DEF MakeParent, CommandFails, e
  <2> QED
    BY <1>1, <1>3, <2>1 DEF Copying, Uploading
<1>6. CASE MakeParent /\ CanMkdirP(remote, Parent(e))
  <2>1. /\ pc = "parent" /\ pc' = "open" /\ remote' = MkdirP(remote, Parent(e))
        /\ stale' = stale \cup InVain(Parent(e))
    BY <1>1, <1>6 DEF MakeParent, CommandFails, e
  <2>2. p \notin Upto(Parent(e))
    <3> SUFFICES ASSUME p \in Upto(Parent(e)) PROVE FALSE
      OBVIOUS
    <3>1. local[p] # Dir
      BY <2>1 DEF MkdirP
    <3> QED
      BY <2>1, <3>1 DEF InVain, IsDirectory
  <2>3. remote'[p] = remote[p] /\ p \notin stale
    BY <2>1, <2>2 DEF MkdirP
  <2> QED
    BY <1>1, <1>3, <2>1, <2>3 DEF Copying, Uploading
<1>7. CASE OpenFile
  <2>1. pc = "open"
    BY <1>7 DEF OpenFile
  <2>2. CASE /\ remote' = [remote EXCEPT ![e] = Torn] /\ stale' = stale
             /\ sent' = local[e] /\ pc' = "copy"
    <3>1. p # e
      BY <1>1, <2>2 DEF Copying, e
    <3> QED
      BY <1>2, <1>3, <2>1, <2>2, <3>1 DEF Tree, Copying, Uploading, e
  <2>3. CASE /\ local[e] \notin Content \/ IsDirectory(remote, e)
             /\ remote' = remote /\ stale' = stale
    <3>1. p = e
      BY <1>3, <2>1, <2>3 DEF Copying, Uploading, e
    <3>2. CASE IsDirectory(local, p)
      <4>1. watched[p] # "createDir"
        BY <2>1, <3>1 DEF StagesInv, e
      <4> QED
        BY <1>2, <3>2, <4>1, UnfitIsNew
    <3>3. CASE ~IsDirectory(local, p)
      <4>1. local[p] \in Content /\ remote[p] = Dir
        BY <1>4, <2>3, <3>1, <3>3 DEF IsDirectory
      <4> QED
        BY <2>1, <2>3, <3>1, <4>1, ObstacleIsOld DEF lost, Obstacle, e
    <3> QED
      BY <3>2, <3>3
  <2>4. CASE remote' = remote /\ stale' = stale \cup {e}
    BY <1>3, <2>1, <2>4 DEF Copying, Uploading, e
  <2> QED
    BY <1>7, <2>2, <2>3, <2>4 DEF OpenFile, CatTo, CanCatTo, e
<1>8. CASE CopyFile
  <2>1. pc = "copy" /\ remote[e] = Torn
    BY <1>8 DEF CopyFile, StagesInv, e
  <2>2. \/ \E c : /\ remote' = [remote EXCEPT ![e] = c]
                  /\ stale' = IF c = local[e] THEN stale \ {e} ELSE stale
                  /\ local[e] = sent => c = sent
        \/ remote' = remote /\ stale' = stale \cup {e}
    BY <1>8 DEF CopyFile, CatTo, e
  <2>3. CASE remote' = remote /\ stale' = stale \cup {e}
    BY <1>3, <2>1, <2>3 DEF Copying, Uploading, Adding, e
  <2>4. CASE ~(remote' = remote /\ stale' = stale \cup {e})
    <3>1. PICK c : /\ remote' = [remote EXCEPT ![e] = c]
                   /\ stale' = IF c = local[e] THEN stale \ {e} ELSE stale
                   /\ local[e] = sent => c = sent
      BY <2>2, <2>4
    <3>2. CASE p = e
      <4>1. c # local[e] /\ p \notin stale
        BY <1>2, <3>1, <3>2 DEF Tree
      <4>2. remote[p] # local[p]
        BY <1>2, <1>4, <2>1, <3>2
      <4>3. ~Copying(p)
        BY <3>1, <3>2, <4>1 DEF Copying
      <4> QED
        BY <1>3, <2>1, <4>1, <4>2, <4>3 DEF Uploading, Adding
    <3>3. CASE p # e
      <4>1. remote'[p] = remote[p] /\ p \notin stale
        BY <1>2, <3>1, <3>3 DEF Tree
      <4> QED
        BY <1>3, <2>1, <3>3, <4>1 DEF Copying, Uploading, Adding, e
    <3> QED
      BY <3>2, <3>3
  <2> QED
    BY <2>3, <2>4
<1>9. CASE RemoveEntry
  <2>1. /\ pc = "remove" /\ remote' = RmRf(remote, e)
        /\ stale' = (stale \ {q \in Below(e) : local[q] = Absent})
                    \cup {q \in Below(e) \ {e} : local[q] # Absent}
    BY <1>1, <1>9 DEF RemoveEntry, CommandFails, e
  <2>2. CASE p = e
    <3>1. watched[p] \in {"removeFile", "removeDir"} /\ ~BeingAdded(p)
      BY <2>1, <2>2 DEF StageInv, BeingAdded, Adding, e
    <3>2. RemovalIsOld(p)
      BY DEF EntriesInv, EntryInv
    <3> QED
      BY <3>1, <3>2 DEF RemovalIsOld
  <2>3. CASE p # e
    <3>1. p \notin Below(e)
      BY <2>1, <2>3
    <3>2. remote'[p] = remote[p] /\ p \notin stale
      BY <2>1, <3>1 DEF RmRf
    <3> QED
      BY <1>3, <2>1, <3>2 DEF Copying, Uploading, Adding
  <2> QED
    BY <2>2, <2>3
<1> QED
  BY <1>5, <1>6, <1>7, <1>8, <1>9, <1>10, <1>11 DEF Handle

\* Every step of a thread that serves events.
LEMMA UploadedNext ==
    ASSUME TypeInv, Alive, WellFormed(local), StageInv, StagesInv, ServiceInv(ws, cur),
           KeysInv, EntriesInv, FitsInv, RemovedInv, UploadedInv, Alive',
           Developer \/ Start \/ Adds \/ Watch \/ Handle
    PROVE  UploadedInv'
BY ChangeUploaded, ServeUploaded, HandleUploaded

-----------------------------------------------------------------------------
(***************************************************************************)
(* The theorems.                                                           *)
(***************************************************************************)

\* A process that has just started knows of nothing that is out of step.
LEMMA BootSync ==
    ASSUME pc = "boot", ws = EmptyService, cur = NoPath, batch = <<>>, ev = Idle,
           stale = {p \in Path : remote[p] # local[p]}
    PROVE  StagesInv /\ KeysInv /\ FitsInv /\ RemovedInv /\ UploadedInv
<1> USE DEF Processed, Handling, Adding
<1>1. StagesInv
  BY DEF StagesInv
<1>2. /\ \A k \in Key : ~ws.keys[k].valid /\ ws.keys[k].events = <<>>
      /\ ws.queue = <<>> /\ cur \notin Key
  BY NoPathAssumption DEF EmptyService, NoKey
<1>3. KeysInv
  <2>1. KeysHandled /\ NoRootEvents /\ BatchOwn
    BY <1>2 DEF KeysHandled, NoRootEvents, BatchOwn, ToSet
  <2>2. ParentsFirst(ws, cur)
    BY <1>2 DEF ParentsFirst
  <2>3. \A p \in Path : ModifiedClosed(ws, p)
    BY <1>2 DEF ModifiedClosed, Follows
  <2> QED
    BY <2>1, <2>2, <2>3 DEF KeysInv
<1>4. FitsInv
  BY DEF FitsInv, HandlerFits, New
<1>5. RemovedInv
  <2>1. Dir \notin Content /\ Dir # Torn
    BY ContentAssumption DEF Dir, Torn
  <2> QED
    BY <2>1 DEF RemovedInv, RemovalInv, KnownInv, Obstacle, Blocked, IsFile, MkdirInv, ToSet
<1>6. UploadedInv
  BY DEF UploadedInv, UploadInv, lost
<1> QED
  BY <1>1, <1>3, <1>4, <1>5, <1>6

\* The invariant holds when DEVMaid starts.
LEMMA SyncInit == Init => SyncInv
<1> SUFFICES ASSUME Init PROVE SyncInv
  OBVIOUS
<1>1. StagesInv /\ KeysInv /\ FitsInv /\ RemovedInv /\ UploadedInv
  BY BootSync DEF Init
<1> QED
  BY <1>1 DEF Init, SyncInv

\* Every step keeps the invariant.
LEMMA SyncNext ==
    TypeInv /\ NoneIgnored /\ HandlersInv /\ SyncInv /\ [Next]_vars => SyncInv'
<1> SUFFICES ASSUME TypeInv, NoneIgnored, HandlersInv, SyncInv, [Next]_vars
             PROVE  SyncInv'
  OBVIOUS
<1>1. WellFormed(local) /\ WellFormed(local)' /\ local[Root] = Dir
  BY TreeNext DEF SyncInv, WellFormed
<1> SUFFICES ASSUME Alive'
             PROVE  (StagesInv /\ KeysInv /\ FitsInv /\ RemovedInv /\ UploadedInv)'
  BY <1>1 DEF SyncInv
<1>2. CASE Restart
  <2>1. (/\ pc = "boot" /\ ws = EmptyService /\ cur = NoPath /\ batch = <<>> /\ ev = Idle
         /\ stale = {p \in Path : remote[p] # local[p]})'
    BY <1>2 DEF Restart, developer
  <2>2. (pc = "boot" /\ ws = EmptyService /\ cur = NoPath /\ batch = <<>> /\ ev = Idle
          /\ stale = {p \in Path : remote[p] # local[p]}
           => StagesInv /\ KeysInv /\ FitsInv /\ RemovedInv /\ UploadedInv)'
    BY BootSync, PTL
  <2> QED
    BY <2>1, <2>2
<1>3. CASE ~Restart /\ vars' # vars
  <2>1. Alive /\ (Developer \/ Start \/ Adds \/ Watch \/ Handle)
    BY <1>3, AliveSteps
  <2>2. /\ StageInv /\ ServiceInv(ws, cur) /\ EntriesInv
        /\ StagesInv /\ KeysInv /\ FitsInv /\ RemovedInv /\ UploadedInv
    BY <2>1 DEF HandlersInv, SyncInv
  <2>3. StagesInv'
    BY <1>1, <2>1, <2>2, StagesNext
  <2>4. KeysInv'
    BY <1>1, <2>1, <2>2, KeysNext
  <2>5. FitsInv'
    BY <1>1, <2>1, <2>2, FitsNext
  <2>6. RemovedInv'
    BY <1>1, <2>1, <2>2, RemovedNext
  <2>7. UploadedInv'
    BY <1>1, <2>1, <2>2, UploadedNext
  <2> QED
    BY <2>3, <2>4, <2>5, <2>6, <2>7
<1>4. CASE vars' = vars
  <2> USE <1>4 DEF vars
  <2>1. StagesInv /\ KeysInv /\ FitsInv /\ RemovedInv /\ UploadedInv
    BY DEF SyncInv, Alive, Running
  <2>2. StagesInv'
    BY <2>1 DEF StagesInv, ByNameToBeWatched
  <2>3. KeysInv'
    BY <2>1 DEF KeysInv, KeysHandled, NoRootEvents, BatchOwn, ModifiedClosed
  <2>4. FitsInv'
    BY <2>1 DEF FitsInv, HandlerFits, New, BeingAdded, ByNameToBeWatched
  <2>5. \A p \in Path : DelSoon(p)' <=> DelSoon(p)
    BY DEF DelSoon, OwnDeletion, ParentsDeletion, Deleting, InLoop
  <2>6. RemovedInv'
    <3>1. \A p \in Path : /\ RemovalInv(p)' <=> RemovalInv(p)
                          /\ KnownInv(p)' <=> KnownInv(p)
                          /\ MkdirInv(p)' <=> MkdirInv(p)
      BY <2>5
      DEF RemovalInv, KnownInv, MkdirInv, Named, Obstacle, Blocked, IsFile, ByNameToBeWatched
    <3> QED
      BY <2>1, <3>1 DEF RemovedInv
  <2>7. UploadedInv'
    BY <2>1 DEF UploadedInv, UploadInv, UpSoon, Uploading, Copying, Named, ByNameToBeWatched,
                lost
  <2> QED
    BY <2>2, <2>3, <2>4, <2>6, <2>7
<1> QED
  BY <1>2, <1>3, <1>4

\* The invariant, in every behaviour.
LEMMA SyncAlways == Spec => [](TypeInv /\ NoneIgnored /\ HandlersInv /\ SyncInv)
BY HandlersAlways, SyncInit, SyncNext, PTL DEF Spec

\* As long as no OVERFLOW is on its way, what a key tells of is queued, and so is
\* what is coming.
LEMMA ComingQueued ==
    ASSUME Serving, NEW x, NEW kinds, x.kind \in kinds
    PROVE  /\ \A k \in LiveKeys : Tells(ws, k, x) => Queued(kinds, x.path)
           /\ Coming(ws, cur, batch, x) => Queued(kinds, x.path)
<1>1. Live(ws, cur) = LiveKeys
  BY DEF Live, LiveKeys
<1>2. \A k \in LiveKeys : Tells(ws, k, x) => Queued(kinds, x.path)
  BY DEF Serving, Overflowed, Tells, Queued
<1>3. Coming(ws, cur, batch, x) => Queued(kinds, x.path)
  BY <1>1, <1>2 DEF Serving, Overflowed, Coming, Held, Queued
<1> QED
  BY <1>2, <1>3

\* An entry that differs from its remote copy is about to be uploaded: no
\* interleaving of the developer with the watching thread, no merging of events, no
\* reuse of a name and no loss of a key leaves a stale copy behind.
THEOREM UploadsPending == Spec => []UploadPending
<1>1. TypeInv /\ HandlersInv /\ SyncInv => UploadPending
  <2> SUFFICES ASSUME SyncInv, Serving, NEW p \in Path \ lost, isToBeWatched(p),
                      local[p] # Absent, remote[p] # local[p], ~Copying(p)
               PROVE  Pending(EventKind, p)
    BY DEF UploadPending
  <2>1. UploadInv(p)
    BY DEF SyncInv, Serving, Alive, UploadedInv, isToBeWatched
  <2>2. UpSoon(p)
    BY <2>1 DEF UploadInv, isToBeWatched, Named
  <2>3. /\ Created(p).kind \in EventKind /\ Created(p).path = p
        /\ Modified(p).kind \in EventKind /\ Modified(p).path = p
    BY DEF Created, Modified, EventKind
  <2>4. CASE Coming(ws, cur, batch, Created(p)) \/ Coming(ws, cur, batch, Modified(p))
    <3>1. Queued(EventKind, p)
      BY <2>3, <2>4, ComingQueued
    <3> QED
      BY <3>1 DEF Pending
  <2>5. CASE Uploading(p)
    BY <2>5 DEF Uploading, Pending, InHand, Adding, EventKind
  <2> QED
    BY <2>2, <2>4, <2>5 DEF UpSoon
<1> QED
  BY <1>1, SyncAlways, PTL

\* A remote entry whose local one has gone, or is of the other kind, is about to be
\* removed: its own deletion, or that of the directory it was in, is still to be
\* processed, even when the kernel dropped the key that had collected it.
THEOREM RemovalsPending == Spec => []RemovalPending
<1>1. TypeInv /\ HandlersInv /\ SyncInv => RemovalPending
  <2> SUFFICES ASSUME TypeInv, SyncInv, Serving, NEW p \in Path \ lost, isToBeWatched(p),
                      remote[p] # Absent, local[p] = Absent \/ InTheWay(p, local[p])
               PROVE  \E d \in Upto(p) : Pending({"delete"}, d)
    BY DEF RemovalPending
  <2>1. RemovalInv(p) /\ KnownInv(p)
    BY DEF SyncInv, Serving, Alive, RemovedInv, isToBeWatched, lost
  <2>2. DelSoon(p)
    <3>1. local[p] \in {Absent, Dir} \cup Content
      BY DEF TypeInv, TypeOK
    <3>2. Obstacle(p) /\ (IsDirectory(local, p) => Blocked(p))
      BY <3>1 DEF Obstacle, Blocked, InTheWay, IsDirectory, Absent, Dir
    <3>3. Named(p)
      BY <2>1, <3>2 DEF KnownInv, Named, isToBeWatched
    <3> QED
      BY <2>1, <3>2, <3>3 DEF RemovalInv
  <2>3. p \in Upto(p) /\ Parent(p) \in Upto(p) /\ Parent(p) \in Path
    BY UptoFacts, ParentFacts
  <2>4. \A d \in Path : Deleted(d).kind = "delete" /\ Deleted(d).path = d
    BY DEF Deleted
  <2>5. \A d \in Path : Deleting(d) => Pending({"delete"}, d)
    BY DEF Deleting, Deleted, Pending, InHand, Adding
  <2>6. \A d \in Path : Coming(ws, cur, batch, Deleted(d)) => Pending({"delete"}, d)
    BY <2>4, ComingQueued DEF Pending
  <2>7. CASE OwnDeletion(p)
    BY <2>3, <2>5, <2>6, <2>7 DEF OwnDeletion
  <2>8. CASE ParentsDeletion(p)
    <3> DEFINE d == Parent(p)
    <3>1. CASE \E x \in ToSet(batch) : x \in {Deleted(d), Overflow}
      BY <2>3, <2>6, <3>1 DEF Coming
    <3>2. CASE Deleting(d)
      BY <2>3, <2>5, <3>2
    <3>3. CASE ServedFirst(ws, cur, d)
      <4>1. PICK q \in ToSet(ws.queue) : Tells(ws, q, Deleted(d))
        BY <3>3 DEF ServedFirst
      <4>2. q \in Key
        BY DEF TypeInv, TypeOK, Service, ToSet
      <4>3. q \in LiveKeys
        BY <4>1, <4>2 DEF LiveKeys
      <4> QED
        BY <2>3, <2>4, <4>1, <4>3, ComingQueued DEF Pending
    <3> QED
      BY <2>8, <3>1, <3>2, <3>3 DEF ParentsDeletion
  <2> QED
    BY <2>2, <2>7, <2>8 DEF DelSoon
<1> QED
  BY <1>1, SyncAlways, PTL
==============================================================================
