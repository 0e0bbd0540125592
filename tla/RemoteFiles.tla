----------------------------- MODULE RemoteFiles -----------------------------
(***************************************************************************)
(* The remote files as the web interface sees them: RemoteFile.java caches *)
(* what ls over SSH answered, FileRepository.java holds one object per     *)
(* path for all requests, RemoteFsVolume.java looks paths up in that cache *)
(* and the command executors answer the requests of the browser.  Requests *)
(* are served by threads that share the cache without a lock: a thread is  *)
(* modelled at the grain of its SSH commands and of its accesses to shared *)
(* state.  The synchroniser changes the remote tree at any time.           *)
(***************************************************************************)
EXTENDS FileTree

CONSTANTS
    Thread,      \* the request threads of the server
    Server,      \* the thread that makes the volumes
    Request,     \* the requests the browser may send
    Found,       \* the remote trees the server may find when it starts
    Upload,      \* the changes made to the remote tree by others
    Volume,      \* the path of the volume's root on the remote machine
    PrefixOf,    \* <<m, n>> when m, a name, is a proper prefix of n, another
    SshMayFail,  \* whether SSH commands may fail
    MaxUploads,  \* BOUND: changes made to the remote tree by others
    MaxRequests, \* BOUND: requests the browser sends
    NoObject

ASSUME ThreadAssumption == Server \notin Thread
\* The remote machine's own root is no volume.
ASSUME VolumeAssumption == Volume \in Seq(Name) \ {Root}
ASSUME PrefixAssumption == PrefixOf \subseteq Name \X Name
ASSUME FlagAssumption == SshMayFail \in BOOLEAN
ASSUME BoundAssumption == MaxUploads \in Nat /\ MaxRequests \in Nat

\* What identifies a remote file: ls -F ends the name of a directory with "/",
\* so a file and a directory of one name are two different paths.
Item     == [path : Path, dir : BOOLEAN]
RootItem == [path |-> Root, dir |-> TRUE]
File(p)  == [path |-> p, dir |-> FALSE]
Dirc(p)  == [path |-> p, dir |-> TRUE]
ItemOf(t, p) == [path |-> p, dir |-> IsDirectory(t, p)]

\* What fromPath makes an object for when its lookup fails: the path of the root,
\* twice, and that of the item.
Ghost(i) == [i EXCEPT !.path = Volume \o @]

\* The Java objects: what they stand for and the thread that made them.
Object     == [item : Item, by : Thread \cup {Server}]
RootObject == [item |-> RootItem, by |-> Server]
ASSUME NoObjectAssumption == NoObject \notin Object

Listing  == {"open", "parents"}     \* commands that describe directories
Reading  == {"file", "get"}         \* commands that send a file
Commands == Listing \cup Reading \cup {"put", "paste", "search"}

\* name: the local file that is pasted, or the keyword that is searched.  What a
\* directory of that name holds is taken to lie in the root.
ASSUME RequestAssumption ==
    /\ Name # {}
    /\ Request \subseteq [cmd : Commands, target : Item, name : Name]
    /\ \A q \in Request : q.target.path = Root => q.target.dir
    /\ \A q \in Request : Volume \o q.target.path \in Path
    /\ \A q \in Request : q.cmd = "paste" => Append(q.target.path, q.name) \in Path
    /\ \A q \in Request, c \in Path \ {Root} :
         q.cmd = "search" /\ Parent(c) # Root /\ Last(Parent(c)) = q.name => <<Last(c)>> \in Path
ASSUME FoundAssumption == Found \subseteq {t \in Tree : WellFormed(t)}
ASSUME UploadAssumption == Upload \subseteq [path : Path \ {Root}, entry : Entry]

Described == [item : Item, phash : Path]

VARIABLES
    remote,     \* the remote tree
    was,        \* HISTORY: the items it has held
    repo,       \* FileRepository._fileRepoMap
    parent,     \* RemoteFile._parent
    kids,       \* RemoteFile._allChildrens, when it is not null ...
    listed,     \* ... for these objects
    req,        \* the request each thread is serving
    leftover,   \* commands whose requests left a temporary file behind
    uploads,    \* BOUND: changes made by others so far
    asked       \* BOUND: requests sent so far

world == <<remote, was>>
cache == <<repo, parent, kids, listed>>
bounds == <<uploads, asked>>
vars   == <<world, cache, req, leftover, uploads, asked>>

Finished == {"done", "failed", "overflow"}
Stage == {"walk", "missing", "ghost", "list", "find", "found", "info", "subdirs", "scp", "send",
          "write", "paste", "ls", "fill", "new"} \cup Finished
Back  == {"walk", "list", "found", "subdirs", "done"}

\* A request being served.
Served == [
    cmd    : Commands,
    target : Item,
    name   : Name,
    pc     : Stage,
    back   : Back,                  \* where listing a directory goes on
    seek   : Item,                  \* what is looked up: the target or its parent
    at     : Object,                \* the object being looked at or listed
    obj    : Object,                \* the object the target was found to be
    rows   : SUBSET Item,           \* lines of ls still to be gone through
    new    : Item,                  \* the line an object is being made for
    made   : SUBSET Object,         \* the list being made
    todo   : SUBSET Object,         \* what is still to be looked into, or described
    items  : SUBSET Described,      \* the answer so far
    there  : SUBSET Path]           \* HISTORY: what the target held when asked

Idle == [cmd |-> "open", target |-> RootItem, name |-> CHOOSE n \in Name : TRUE,
          pc |-> "done", back |-> "done", seek |-> RootItem, at |-> RootObject, obj |-> RootObject,
          rows |-> {}, new |-> RootItem, made |-> {}, todo |-> {}, items |-> {},
          there |-> {}]

TypeOK ==
    /\ remote \in Tree
    /\ was \subseteq Item
    /\ repo \in [Item -> Object \cup {NoObject}]
    /\ parent \in [Object -> Object \cup {NoObject}]
    /\ kids \in [Object -> SUBSET Object]
    /\ listed \subseteq Object
    /\ req \in [Thread -> Served]
    /\ leftover \subseteq Reading
    /\ uploads \in 0 .. MaxUploads
    /\ asked \in 0 .. MaxRequests

-----------------------------------------------------------------------------
\* What the tree holds, and what it held before.
Items(t) == {ItemOf(t, p) : p \in {p \in Path : t[p] # Absent}}
Becomes(t) == remote' = t /\ was' = was \cup Items(t)

\* createFsService: one volume, whose root the repository holds.
Init ==
    /\ remote \in Found /\ was = Items(remote)
    /\ repo = [i \in Item |-> IF i = RootItem THEN RootObject ELSE NoObject]
    /\ parent = [o \in Object |-> NoObject]
    /\ kids = [o \in Object |-> {}]
    /\ listed = {}
    /\ req = [t \in Thread |-> Idle]
    /\ leftover = {}
    /\ uploads = 0 /\ asked = 0

\* The synchroniser, or a user of a terminal, changes the remote tree.
Uploaded(u) ==
    /\ uploads < MaxUploads
    /\ remote[Parent(u.path)] = Dir
    /\ remote[u.path] # u.entry
    /\ u.entry = Dir => remote[u.path] = Absent
    /\ u.entry \notin {Dir, Absent} => ~IsDirectory(remote, u.path)
    /\ Becomes(IF u.entry = Absent THEN RmRf(remote, u.path)
               ELSE [remote EXCEPT ![u.path] = u.entry])
    /\ uploads' = uploads + 1
    /\ UNCHANGED <<cache, req, leftover, asked>>

-----------------------------------------------------------------------------
\* The steps of a thread.

At(t, stage) == req[t].pc = stage
GoTo(t, stage) == req' = [req EXCEPT ![t].pc = stage]
GoOn(t, r)     == req' = [req EXCEPT ![t] = r]

\* A request ends: the thread keeps nothing of it but, for what is said of it here,
\* the answer.
Ends(t, stage) == GoOn(t, [Idle EXCEPT !.pc = stage, !.items = req[t].items,
                                       !.there = req[t].there])

\* What each command does with the object its target was found to be.
Begin(cmd) ==
    CASE cmd \in Listing -> "list"
      [] cmd \in Reading -> "scp"
      [] cmd = "put"     -> "write"
      [] cmd = "paste"   -> "paste"

\* A thread that has answered takes the next request.
Receive(t, q) ==
    /\ req[t].pc \in Finished
    /\ asked < MaxRequests /\ asked' = asked + 1
    /\ GoOn(t, [Idle EXCEPT
                !.cmd = q.cmd, !.target = q.target, !.seek = q.target, !.name = q.name,
                !.there = IF q.cmd = "open" THEN Children(remote, q.target.path) ELSE {},
                !.pc = IF q.cmd = "search" THEN "find"
                       ELSE IF q.target = RootItem THEN Begin(q.cmd) ELSE "walk"])
    /\ UNCHANGED <<world, cache, leftover, uploads>>

\* findChilden compares strings: item i occurs in the path of j, anywhere in it.
\* The path of a directory ends with "/", that of a file may go on as a longer name.
Occurs(i, j) ==
    LET p == Volume \o i.path  q == Volume \o j.path  n == Len(p) IN
    \E k \in 0 .. Len(q) - n :
        /\ \A m \in 1 .. n - 1 : p[m] = q[k + m]
        /\ IF i.dir THEN p[n] = q[k + n] /\ (k + n = Len(q) => j.dir)
           ELSE p[n] = q[k + n] \/ <<p[n], q[k + n]>> \in PrefixOf

\* What the lookup will look into: children of what it is at, and what it left.
Ahead(r) == r.todo \cup {k \in kids[r.at] : Occurs(k.item, r.seek)}

\* The deepest come first; ls lists a name before those it begins.
First(objects) == {k \in objects : \A m \in objects :
    \/ Len(m.item.path) < Len(k.item.path)
    \/ /\ Len(m.item.path) = Len(k.item.path)
       /\ <<Last(m.item.path), Last(k.item.path)>> \notin PrefixOf}

\* findChilden, from the root: lists what it goes through, and never comes back
\* from a file that lists itself as its child.
Walk(t) ==
    LET r == req[t] IN
    /\ At(t, "walk")
    /\ \/ /\ r.at \notin listed
          /\ GoOn(t, [r EXCEPT !.pc = "ls", !.back = "walk"])
       \/ /\ r.at \in listed /\ r.at \in kids[r.at]
          /\ Ends(t, "overflow")
       \/ /\ r.at \in listed /\ r.at \notin kids[r.at]
          /\ \E k \in First(Ahead(r)) :
                /\ k.item # r.seek
                /\ GoOn(t, [r EXCEPT !.at = k, !.todo = Ahead(r) \ {k}])
    /\ UNCHANGED <<world, cache, leftover, bounds>>

\* fromPath: the target was found or not, or the parent of an object made for it.
Finds(t, k) ==
    LET r == req[t] IN
    \/ /\ r.seek = r.target /\ k # NoObject
       /\ GoOn(t, [r EXCEPT !.obj = k, !.at = RootObject, !.todo = {}, !.pc = Begin(r.cmd)])
       /\ UNCHANGED parent
    \/ /\ r.seek = r.target /\ k = NoObject
       /\ GoTo(t, "missing")
       /\ UNCHANGED parent
    \/ /\ r.seek # r.target
       /\ GoOn(t, [r EXCEPT !.at = RootObject, !.todo = {}, !.pc = Begin(r.cmd)])
       /\ parent' = [parent EXCEPT ![r.obj] = k]

\* findChilden returns.
Looked(t) ==
    LET r == req[t] IN
    /\ At(t, "walk")
    /\ r.at \in listed /\ r.at \notin kids[r.at]
    /\ \/ \E k \in First(Ahead(r)) : k.item = r.seek /\ Finds(t, k)
       \/ Ahead(r) = {} /\ Finds(t, NoObject)
    /\ UNCHANGED <<world, repo, kids, listed, leftover, bounds>>

\* The parent is looked up without the "/" a directory's path ends with.
SeekParent(r, o) ==
    [r EXCEPT !.obj = o, !.seek = File(Parent(r.target.path)), !.at = RootObject,
              !.todo = {}, !.pc = "walk"]

\* fromPath, when nothing was found: the repository is asked for an object ...
Missing(t) ==
    LET o == repo[Ghost(req[t].target)] IN
    /\ At(t, "missing")
    /\ \/ o # NoObject /\ GoOn(t, SeekParent(req[t], o))
       \/ o = NoObject /\ GoTo(t, "ghost")
    /\ UNCHANGED <<world, cache, leftover, bounds>>

\* ... or given one.
MakeGhost(t) ==
    LET g == Ghost(req[t].target)  o == [item |-> g, by |-> t] IN
    /\ At(t, "ghost")
    /\ repo' = [repo EXCEPT ![g] = o]
    /\ GoOn(t, SeekParent(req[t], o))
    /\ UNCHANGED <<world, parent, kids, listed, leftover, bounds>>

-----------------------------------------------------------------------------
\* Listing (construct, find): ls or find over SSH, then one object per line.

\* ls -laF i answers with lines; else with a message, on which parse throws.
Lists(i) == IsDirectory(remote, i.path) \/ (~i.dir /\ IsFile(remote, i.path))

\* MUTANT: parse takes "./" for a child.
LsRowsAndSelf(i) ==
    IF IsDirectory(remote, i.path)
    THEN {ItemOf(remote, p) : p \in Children(remote, i.path)} \cup {i} ELSE {i}

\* The lines: a file is listed as itself, unless it has become a directory.
LsRows(i) ==
    IF IsDirectory(remote, i.path)
    THEN {ItemOf(remote, p) : p \in Children(remote, i.path)} ELSE {i}

\* MUTANT: the path of a file found is joined to that of the directory searched.
FindRowsJoined(n) ==
    {[path |-> Parent(p) \o p, dir |-> FALSE] :
        p \in {p \in Path \ {Root} : Last(p) = n /\ IsFile(remote, p)}}

\* find -iname n -exec ls -laF: a directory of that name answers with lines of
\* what it holds, which are taken for lines of the directory searched.
FindRows(n) ==
    LET named == {p \in Path \ {Root} : Last(p) = n} IN
    {File(p) : p \in {p \in named : IsFile(remote, p)}}
    \cup {[path |-> <<Last(c)>>, dir |-> IsDirectory(remote, c)] :
             c \in {c \in Path \ {Root} : remote[c] # Absent /\ Parent(c) \in named}}

Ls(t) ==
    /\ At(t, "ls")
    /\ \/ /\ Lists(req[t].at.item)
          /\ GoOn(t, [req[t] EXCEPT !.pc = "fill", !.made = {},
                                    !.rows = LsRows(req[t].at.item)])
       \/ /\ ~Lists(req[t].at.item)
          /\ Ends(t, "failed")
    /\ UNCHANGED <<world, cache, leftover, bounds>>

Find(t) ==
    /\ At(t, "find")
    /\ GoOn(t, [req[t] EXCEPT !.pc = "fill", !.back = "found", !.rows = FindRows(req[t].name)])
    /\ UNCHANGED <<world, cache, leftover, bounds>>

\* The objects of some lines become children of what is listed.
Adopt(t, objects, rows) ==
    /\ parent' = [o \in Object |-> IF o \in objects THEN req[t].at ELSE parent[o]]
    /\ GoOn(t, [req[t] EXCEPT !.pc = "fill", !.rows = @ \ rows, !.new = RootItem,
                              !.made = @ \cup objects])

\* getFile: the repository is asked whether it holds the path ...
TakeRow(t) ==
    LET known == {row \in req[t].rows : repo[row] # NoObject} IN
    /\ At(t, "fill")
    /\ \/ /\ known # {}
          /\ Adopt(t, {repo[row] : row \in known}, known)
          /\ UNCHANGED <<repo, kids, listed>>
       \/ /\ known = {}
          /\ \E row \in req[t].rows :
                GoOn(t, [req[t] EXCEPT !.pc = "new", !.new = row])
          /\ UNCHANGED cache
    /\ UNCHANGED <<world, leftover, bounds>>

\* ... and if it did not, given an object for it: by now it may hold another.
PutNew(t) ==
    LET row == req[t].new
        o   == [item |-> row, by |-> t]
    IN
    /\ At(t, "new")
    /\ repo' = [repo EXCEPT ![row] = o]
    /\ Adopt(t, {o}, {row})
    /\ UNCHANGED <<world, kids, listed, leftover, bounds>>

\* MUTANT: what a search found is kept as the children of its directory.
FilledAlways(t) ==
    LET r == req[t] IN
    /\ At(t, "fill") /\ r.rows = {}
    /\ kids' = [kids EXCEPT ![r.at] = r.made]
    /\ listed' = listed \cup {r.at}
    /\ GoOn(t, [r EXCEPT !.pc = IF r.back = "found" THEN "info" ELSE r.back,
                         !.back = "done", !.made = {}])
    /\ UNCHANGED <<world, repo, parent, leftover, bounds>>

\* MUTANT: the list is returned and never assigned.
FilledUnassigned(t) ==
    /\ At(t, "fill") /\ req[t].rows = {}
    /\ GoOn(t, [req[t] EXCEPT !.pc = req[t].back, !.made = {}])
    /\ UNCHANGED <<world, cache, leftover, bounds>>

\* The list is done: what a search found is its answer, any other is assigned
\* to _allChildrens.
Filled(t) ==
    LET r == req[t] IN
    /\ At(t, "fill") /\ r.rows = {}
    /\ \/ /\ r.back = "found"
          /\ GoOn(t, [r EXCEPT !.pc = "info", !.back = "done", !.todo = r.made, !.made = {}])
          /\ UNCHANGED <<kids, listed>>
       \/ /\ r.back # "found"
          /\ kids' = [kids EXCEPT ![r.at] = r.made]
          /\ listed' = listed \cup {r.at}
          /\ GoOn(t, [r EXCEPT !.pc = r.back, !.back = "done", !.made = {}])
    /\ UNCHANGED <<world, repo, parent, leftover, bounds>>

\* SSH fails: the exception is the answer, and nothing is assigned.
SshFails(t) ==
    /\ SshMayFail
    /\ req[t].pc \in {"ls", "find"}
    /\ Ends(t, "failed")
    /\ UNCHANGED <<world, cache, leftover, bounds>>

-----------------------------------------------------------------------------
\* Describing (open, tree, parents, search).

\* addChildren: what the object lists, and for "parents" what all that lie
\* above it list.
List(t) ==
    LET r == req[t] IN
    /\ At(t, "list")
    /\ \/ /\ r.cmd = "parents" /\ r.obj = RootObject
          /\ GoTo(t, "info")
       \/ /\ r.cmd = "open" \/ r.obj # RootObject
          /\ r.obj \notin listed
          /\ GoOn(t, [r EXCEPT !.pc = "ls", !.at = r.obj, !.back = "list"])
       \/ /\ r.cmd = "open" /\ r.obj \in listed
          /\ GoOn(t, [r EXCEPT !.pc = "info",
                               !.todo = kids[r.obj] \cup ({r.obj} \ {RootObject})])
       \/ /\ r.cmd = "parents" /\ r.obj # RootObject /\ r.obj \in listed
          /\ IF parent[r.obj] = NoObject THEN Ends(t, "failed")
             ELSE GoOn(t, [r EXCEPT !.todo = @ \cup kids[r.obj], !.obj = parent[r.obj]])
    /\ UNCHANGED <<world, cache, leftover, bounds>>

\* getFsItemInfo: the hash of the parent, and whether a directory contains
\* another, for which it is listed.  What was not found is taken for a directory.
Describe(t) ==
    LET r == req[t]
        dirs == {o \in r.todo : o.item.dir \/ (r.cmd = "put" /\ o.item # r.target)}
    IN
    /\ At(t, "info")
    /\ IF \E o \in r.todo : parent[o] = NoObject THEN Ends(t, "failed")
       ELSE GoOn(t, [r EXCEPT !.pc = IF dirs = {} THEN "done" ELSE "subdirs",
                      !.todo  = dirs,
                      !.items = {[item |-> o.item, phash |-> parent[o].item.path] :
                                   o \in r.todo}])
    /\ UNCHANGED <<world, cache, leftover, bounds>>

HasChildFolder(t) ==
    LET r == req[t] IN
    /\ At(t, "subdirs")
    /\ \/ /\ r.todo \subseteq listed
          /\ Ends(t, "done")
       \/ \E o \in r.todo \ listed :
             GoOn(t, [r EXCEPT !.pc = "ls", !.at = o, !.back = "subdirs"])
    /\ UNCHANGED <<world, cache, leftover, bounds>>

-----------------------------------------------------------------------------
\* Sending a file ("file" downloads it, "get" opens it in the editor).

\* openInputStream: nobody looks at what scp returned, and what it copied, if
\* only a part, is opened.
Scp(t) ==
    /\ At(t, "scp")
    /\ \/ /\ IsFile(remote, req[t].obj.item.path)
          /\ GoTo(t, "send")
       \/ /\ SshMayFail \/ ~IsFile(remote, req[t].obj.item.path)
          /\ Ends(t, "failed")
    /\ UNCHANGED <<world, cache, leftover, bounds>>

\* MUTANT: the temporary file of a download is removed after the copy, not in
\* the finally.
SendOrLeave(t) ==
    /\ At(t, "send")
    /\ \/ Ends(t, "done") /\ UNCHANGED leftover
       \/ Ends(t, "failed") /\ leftover' = leftover \cup {req[t].cmd}
    /\ UNCHANGED <<world, cache, bounds>>

\* The stream is read to its end or the browser is gone before.  A download is
\* closed in a finally and its temporary file removed; the editor's stays.
Send(t) ==
    /\ At(t, "send")
    /\ Ends(t, "done") \/ Ends(t, "failed")
    /\ leftover' = IF req[t].cmd = "file" THEN leftover ELSE leftover \cup {req[t].cmd}
    /\ UNCHANGED <<world, cache, bounds>>

-----------------------------------------------------------------------------
\* Saving an edited file and pasting a local one.

\* echo > target: nobody looks at what it answers.
Write(t) ==
    LET r == req[t]  p == r.obj.item.path IN
    /\ At(t, "write")
    /\ \/ /\ CanCatTo(remote, p)
          /\ \E c \in Content : Becomes(CatTo(remote, p, c))
       \/ /\ SshMayFail \/ ~CanCatTo(remote, p)
          /\ UNCHANGED world
    /\ GoOn(t, [r EXCEPT !.pc = "info", !.todo = {r.obj}])
    /\ UNCHANGED <<cache, leftover, bounds>>

\* scpFrom: nobody looks at what it returned; then the target is listed anew.
Paste(t) ==
    LET r == req[t]  p == Append(r.obj.item.path, r.name) IN
    /\ At(t, "paste")
    /\ \/ /\ CanCatTo(remote, p)
          /\ \E c \in Content : Becomes(CatTo(remote, p, c))
       \/ /\ SshMayFail \/ ~CanCatTo(remote, p)
          /\ UNCHANGED world
    /\ GoOn(t, [r EXCEPT !.pc = "ls", !.at = r.obj, !.back = "done"])
    /\ UNCHANGED <<cache, leftover, bounds>>

Serve(t) ==
    \/ Walk(t) \/ Looked(t) \/ Missing(t) \/ MakeGhost(t)
    \/ Ls(t) \/ Find(t) \/ TakeRow(t) \/ PutNew(t) \/ Filled(t)
    \/ SshFails(t)
    \/ List(t) \/ Describe(t) \/ HasChildFolder(t)
    \/ Scp(t) \/ Send(t)
    \/ Write(t) \/ Paste(t)

Next ==
    \/ \E t \in Thread : Serve(t) \/ \E q \in Request : Receive(t, q)
    \/ \E u \in Upload : Uploaded(u)

\* The threads of the server run; the browser need not send anything.
Spec == Init /\ [][Next]_vars /\ \A t \in Thread : WF_vars(Serve(t))

-----------------------------------------------------------------------------
(***************************************************************************)
(* What holds.                                                             *)
(***************************************************************************)

\* Where item j is said to lie: in its directory or, once a search has found it,
\* in the root.  A file that has been listed lies in itself, and an object made for
\* what was not found may lie in the file that is where its directory was.
LiesIn(j, p) ==
    \/ p \in {Parent(j.path), Root}
    \/ ~j.dir /\ p = j.path
    \/ Parent(j.path) = Volume \o p

\* Whichever listing, search or lookup set it last, the parent of a cached object
\* is where it lies, so that climbing from directories to the root ("parents") ends.
ParentsAbove ==
    \A o \in Object : parent[o] # NoObject =>
        o.item # RootItem /\ LiesIn(o.item, parent[o].item.path)

\* A cached list shows what the directory holds or has held, and nothing else,
\* although searches, failed lookups and races between requests add objects to the
\* repository that no directory lists.  A file lists itself.
ListsWereReal ==
    \A o \in listed : \A k \in kids[o] :
        \/ k.item \in was /\ k.item.path # Root /\ Parent(k.item.path) = o.item.path
        \/ ~o.item.dir /\ k.item = o.item

\* The browser is told that an item lies where it lies, or in the root: never in a
\* third directory.
PlacedWhereItLies ==
    \A t \in Thread : \A i \in req[t].items : LiesIn(i.item, i.phash)

\* What the server keeps of the remote tree and what it tells the browser of it
\* are, or were, true of that tree.
ListingsTrue == ListsWereReal /\ PlacedWhereItLies

\* A download removes its temporary file however it ends: only the editor's
\* stay.
DownloadsLeaveNothing == leftover \subseteq {"get"}

\* Every request is answered, as long as its SSH commands are and the browser
\* sends finitely many.
Answered == <>[](\A t \in Thread : req[t].pc \in Finished)

-----------------------------------------------------------------------------
(***************************************************************************)
(* What documents and comments say and the code does not do.               *)
(***************************************************************************)

\* README.md:57, "This interface helps us look at all the source/destination
\* files": opening a directory shows what it held when it was asked for.
FilesShown ==
    \A t \in Thread : At(t, "done") =>
        req[t].there \subseteq {i.item.path : i \in req[t].items}

\* RemoteFsVolume.java:141, "looking for the specified children given the relative
\* path If nothing is found, return null": every lookup returns.
LookupsReturn == \A t \in Thread : ~At(t, "overflow")
=============================================================================
