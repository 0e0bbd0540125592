------------------------------- MODULE Finder -------------------------------
(***************************************************************************)
(* elFinder in the browser: the files it knows, the directory it shows,    *)
(* where the user has been, and the requests that are on their way.  Each  *)
(* request is answered by the server at one moment and its answer handled  *)
(* at a later one.  Every "open" silently aborts one that is pending.      *)
(***************************************************************************)
EXTENDS Naturals, Sequences, FiniteSets

CONSTANTS
    Dir, File,      \* hashes
    Root,           \* the hash of the volume's root
    ParentOf,       \* phash: the directory a file lies in
    None,           \* undefined
    RemoteVolume    \* volumes of RemoteFsVolume list files as "subfolders"

Node == Dir \cup File

ASSUME NodeAssumption == Root \in Dir /\ Dir \cap File = {} /\ None \notin Node
ASSUME ParentAssumption ==
    /\ ParentOf \in [Node -> Dir \cup {None}]
    /\ \A h \in Node : ParentOf[h] = None <=> h = Root
ASSUME VolumeAssumption == IsFiniteSet(Dir)
ASSUME RemoteAssumption == RemoteVolume \in BOOLEAN

\* A file is its hash; what elFinder holds of one is a row, of which the kind matters.
Kind == {"none", "file", "dir", "dirs"}   \* "dirs": a directory that holds one
Rows == [Node -> Kind]
IsDir(kind) == kind \in {"dir", "dirs"}

\* h and the directories it lies in: Above[n] goes up n times.
Chain(h) ==
    LET Above[n \in 0 .. Cardinality(Dir)] ==
            IF n = 0 THEN {h}
            ELSE Above[n - 1] \cup ({ParentOf[p] : p \in Above[n - 1] \ {None}} \ {None})
    IN  Above[Cardinality(Dir)]

Children(disk, d) == {h \in disk : ParentOf[h] = d}

-----------------------------------------------------------------------------
\* The server, as OpenCommandExecutor.java and the like answer.

\* getFsItemInfo.  What is gone is described like a file.
Row(disk, h) ==
    IF h \notin disk \/ h \in File THEN "file"
    ELSE IF Children(disk, h) \cap Dir # {} THEN "dirs" ELSE "dir"

Described(disk, hashes) == [h \in Node |-> IF h \in hashes THEN Row(disk, h) ELSE "none"]

\* addSubfolders.
Subfolders(disk, d) ==
    IF RemoteVolume THEN Children(disk, d) ELSE Children(disk, d) \cap Dir

\* open: the directory and what it holds, with tree=1 the root and its subfolders.
OpenRows(disk, d, tree) ==
    Described(disk, {d} \cup Children(disk, d)
                    \cup (IF tree THEN {Root} \cup Subfolders(disk, Root) ELSE {}))

\* parents: the subfolders of all directories up to the root, without its own.
ParentsRows(disk, d) ==
    Described(disk, UNION {Subfolders(disk, p) : p \in Chain(d) \ {Root}})

TreeRows(disk, d) == Described(disk, Subfolders(disk, d))

-----------------------------------------------------------------------------
\* elFinder's cache.

\* cache.
Cached(c, rows) == [h \in Node |-> IF rows[h] = "none" THEN c[h] ELSE rows[h]]

\* MUTANT: files of the directory that is left stay.
PurgedNothing(c, cwd, remember) == c

\* open, before it caches: the files of the directory that is left go, except
\* those of the clipboard.  What goes with it in the code, the directories in a
\* collapsed one that has more than 100, is left out: no directory here has so many.
Purged(c, cwd, remember) ==
    [h \in Node |-> IF ~IsDir(c[h]) /\ ParentOf[h] = cwd /\ h \notin remember
                    THEN "none" ELSE c[h]]

\* The handler of "remove": with a directory that has directories goes what is
\* cached of it.
Gone(c, removed) ==
    LET Below[n \in 0 .. Cardinality(Dir)] ==
            IF n = 0 THEN removed
            ELSE Below[n - 1] \cup {h \in Node : ParentOf[h] \in Below[n - 1]
                                              /\ c[ParentOf[h]] = "dirs"}
    IN  Below[Cardinality(Dir)]

Removed(c, removed) == [h \in Node |-> IF h \in Gone(c, removed) THEN "none" ELSE c[h]]

\* The handler of "change": a row that is not cached throws.
Changed(c, changed, rows) == [h \in Node |-> IF h \in changed THEN rows[h] ELSE c[h]]

\* diff: what goes, what comes, and what is not as it was -- with the parents of
\* directories that go.
Missing(c, rows)  == {h \in Node : c[h] # "none" /\ rows[h] = "none"}
Incoming(c, rows) == {h \in Node : c[h] = "none" /\ rows[h] # "none"}
Different(c, rows) ==
    {h \in Node : c[h] # "none" /\ rows[h] # "none" /\ c[h] # rows[h]}
    \cup {h \in Node : /\ rows[h] # "none" /\ h \notin Missing(c, rows)
                       /\ \E m \in Missing(c, rows) : IsDir(c[m]) /\ ParentOf[m] = h}

-----------------------------------------------------------------------------
(***************************************************************************)
(* The state of a manager.                                                 *)
(***************************************************************************)

CONSTANTS
    MaxChanges,   \* BOUND: changes on the volume by others
    MaxClicks,    \* BOUND: requests of the user
    MaxSyncs      \* BOUND: syncs

ASSUME BoundAssumption == MaxChanges \in Nat /\ MaxClicks \in Nat /\ MaxSyncs \in Nat

VARIABLES
    disk,       \* the files of the volume
    phase,      \* whether elFinder has loaded
    files,      \* elFinder's cache
    cwd,        \* the hash of the current directory
    shown,      \* the files of the cwd view
    remember,   \* the files in the clipboard
    kept,       \* HISTORY: the files that ever were
    mishaps,    \* HISTORY: what the properties excuse, see there
    visited, at, update,    \* history, current and update of elFinder.history
    queue,      \* the "open" requests that are pending
    syncs,      \* the syncs so far
    branch,     \* a "tree" request
    deed,       \* an "rm" or "mkdir" request
    changes, clicks   \* BOUNDS

view   == <<files, cwd, shown>>
past   == <<visited, at, update>>
bounds == <<changes, clicks>>
clip   == <<remember, kept, mishaps>>
vars   == <<disk, phase, view, clip, past, queue, syncs, branch, deed, bounds>>

\* A request has no answer, an error for one, or rows.
NoAnswer == [h \in Node |-> "pending"]
Error    == [h \in Node |-> "error"]
Answer == Rows \cup {NoAnswer, Error}
Opener == {"init", "click", "history", "popstate", "sync", "fallback"}
Opening == [by : Opener, target : Dir \cup {None}, sync : 0 .. MaxSyncs, answer : Answer]
Sync == [target : Dir, open : Answer, parents : Answer, live : BOOLEAN]
Branch == [target : Dir \cup {None}, answer : Answer]
NoBranch == [target |-> None, answer |-> NoAnswer]
Deed == [cmd : {"rm", "mkdir", "nothing"}, target : Node \cup {None}, answer : {"pending", "error", "done"}]
NoDeed == [cmd |-> "nothing", target |-> None, answer |-> "pending"]

TypeOK ==
    /\ disk \subseteq Node
    /\ phase \in {"loading", "ready", "dead"}
    /\ files \in Rows
    /\ cwd \in Dir \cup {None}
    /\ shown \subseteq Node
    /\ remember \subseteq kept /\ kept \subseteq Node 
    /\ visited \in Seq(Dir \cup {None})
    /\ at \in 0 .. Len(visited) /\ (at = 0 => phase # "ready")
    /\ update \in BOOLEAN /\ mishaps \subseteq {"sync", "removal", "stray"}
    /\ queue \in Seq(Opening) /\ Len(queue) <= 1
    /\ syncs \in Seq(Sync) /\ Len(syncs) <= MaxSyncs
    /\ branch \in Branch
    /\ deed \in Deed
    /\ changes \in 0 .. MaxChanges /\ clicks \in 0 .. MaxClicks

Init ==
    /\ disk = Node
    /\ phase = "loading"
    /\ files = [h \in Node |-> "none"]
    /\ cwd = None /\ shown = {} /\ remember = {} /\ kept = {} /\ mishaps = {}
    /\ visited = <<>> /\ at = 0 /\ update = TRUE
    /\ \E d \in Dir : queue = <<[by |-> "init", target |-> d, sync |-> 0, answer |-> NoAnswer]>>
    /\ syncs = <<>> /\ branch = NoBranch /\ deed = NoDeed
    /\ changes = 0 /\ clicks = 0

-----------------------------------------------------------------------------
\* fm.cwd().hash: undefined when the current directory is not in the cache.
CwdHash == IF cwd # None /\ files[cwd] # "none" THEN cwd ELSE None

Click == phase = "ready" /\ clicks < MaxClicks /\ clicks' = clicks + 1

\* MUTANT: what was visited is forgotten and the place in it is kept.
ResetVisited(hash) == visited' = <<hash>> /\ at' = at /\ update' = TRUE
\* history.reset, when the "open" of history.go fails.
Reset(hash) == visited' = <<hash>> /\ at' = 1 /\ update' = TRUE

\* request, for "open": those that are pending fail with no message.  What
\* that does depends on who sent them.
Pending(by) == \E i \in DOMAIN queue : queue[i].by = by
\* MUTANT: those that are pending go on.
SendBesides(by, target, sync) ==
    queue' = Append(queue, [by |-> by, target |-> target, sync |-> sync, answer |-> NoAnswer])
Send(by, target, sync) ==
    queue' = <<[by |-> by, target |-> target, sync |-> sync, answer |-> NoAnswer]>>
Dropped == [i \in DOMAIN syncs |->
    IF \E k \in DOMAIN queue : queue[k].sync = i THEN [syncs[i] EXCEPT !.live = FALSE] ELSE syncs[i]]
Abort ==
    /\ IF Pending("history") THEN Reset(CwdHash) ELSE UNCHANGED past
    /\ syncs' = Dropped

\* The answer to the k-th has been handled.
Take(k) == queue' = [i \in 1 .. Len(queue) - 1 |-> IF i < k THEN queue[i] ELSE queue[i + 1]]

\* sync: two requests about the current directory.
StartSync ==
    /\ Len(syncs) < MaxSyncs
    /\ IF Pending("history") THEN Reset(CwdHash) ELSE UNCHANGED past
    /\ Send("sync", cwd, Len(syncs) + 1)
    /\ syncs' = Append(Dropped, [target |-> cwd, open |-> NoAnswer, parents |-> NoAnswer, live |-> TRUE])

-----------------------------------------------------------------------------
\* The user.

\* A directory of the view, the tree or the path is clicked (commands.open).
Open(d) ==
    /\ Click /\ IsDir(files[d])
    /\ Abort
    /\ Send("click", d, 0)
    /\ UNCHANGED <<disk, phase, view, clip, branch, deed, changes>>

\* history.go: it moves at once.  "open" of a row that is no directory opens a
\* window for it; of none at all fails.
Go(to) ==
    /\ Click /\ to \in 1 .. Len(visited)
    /\ LET d == visited[to] IN
       \/ /\ d # None /\ IsDir(files[d])
          /\ IF Pending("history") THEN visited' = <<CwdHash>> /\ at' = 1 /\ update' = TRUE
             ELSE visited' = visited /\ at' = to /\ update' = FALSE
          /\ syncs' = Dropped /\ Send("history", d, 0) /\ UNCHANGED mishaps
       \/ /\ d # None /\ files[d] = "file"
          /\ at' = to /\ update' = FALSE /\ mishaps' = mishaps \cup {"stray"}
          /\ UNCHANGED <<visited, syncs, queue>>
       \/ /\ d = None \/ files[d] = "none"
          /\ Reset(CwdHash)
          /\ UNCHANGED <<syncs, queue, mishaps>>
    /\ UNCHANGED <<disk, phase, view, remember, kept, branch, deed, changes>>

Back    == at > 1 /\ Go(at - 1)
Forward == Go(at + 1)

\* The browser's own back button: any directory opened in this window.
PopState(d) ==
    /\ Click /\ \E h \in Node : files[h] # "none"
    /\ Abort
    /\ Send("popstate", d, 0)
    /\ UNCHANGED <<disk, phase, view, clip, branch, deed, changes>>

Reload ==
    /\ Click /\ StartSync
    /\ UNCHANGED <<disk, phase, view, clip, branch, deed, changes>>

\* The tree asks for the subfolders of a directory.
Expand(d) ==
    /\ Click /\ branch = NoBranch /\ IsDir(files[d])
    /\ branch' = [NoBranch EXCEPT !.target = d]
    /\ UNCHANGED <<disk, phase, view, clip, past, queue, syncs, deed, changes>>

\* clipboard, by "copy" or "cut" of a file of the view, or emptied by Escape.
Copy(hashes) ==
    /\ Click /\ hashes \subseteq shown
    /\ remember' = {h \in hashes : files[h] # "none"}
    /\ kept' = kept \cup remember' /\ UNCHANGED mishaps
    /\ UNCHANGED <<disk, phase, view, past, queue, syncs, branch, deed, changes>>

Do(cmd, h) ==
    /\ Click /\ deed = NoDeed
    /\ IF cmd = "rm" THEN h \in shown ELSE h \in Dir /\ ParentOf[h] = CwdHash
    /\ deed' = [NoDeed EXCEPT !.cmd = cmd, !.target = h]
    /\ UNCHANGED <<disk, phase, view, clip, past, queue, syncs, branch, changes>>

-----------------------------------------------------------------------------
\* The volume and its server.

Subtree(h) == {n \in Node : h \in Chain(n)}

\* Others change the volume.
Change ==
    /\ changes < MaxChanges /\ changes' = changes + 1
    /\ \E h \in Node \ {Root} :
          disk' = IF h \in disk THEN disk \ Subtree(h)
                  ELSE IF ParentOf[h] \in disk THEN disk \cup {h} ELSE disk
    /\ UNCHANGED <<phase, view, clip, past, queue, syncs, branch, deed, clicks>>

\* What is gone is an error or, on a local volume, described like a file.
ServeOpen ==
    /\ \E k \in DOMAIN queue :
          /\ queue[k].answer = NoAnswer
          /\ \E a \in {Error, OpenRows(disk, queue[k].target, queue[k].by \in {"init", "sync", "fallback"})} :
                queue' = [queue EXCEPT ![k].answer = a]
    /\ UNCHANGED <<disk, phase, view, clip, past, syncs, branch, deed, bounds>>

ServeParents ==
    /\ \E i \in DOMAIN syncs :
          /\ syncs[i].live /\ syncs[i].parents = NoAnswer
          /\ \E a \in {Error, ParentsRows(disk, syncs[i].target)} :
                syncs' = [syncs EXCEPT ![i].parents = a]
    /\ UNCHANGED <<disk, phase, view, clip, past, queue, branch, deed, bounds>>

ServeTree ==
    /\ branch.target # None /\ branch.answer = NoAnswer
    /\ \E a \in {Error, TreeRows(disk, branch.target)} : branch' = [branch EXCEPT !.answer = a]
    /\ UNCHANGED <<disk, phase, view, clip, past, queue, syncs, deed, bounds>>

\* RmCommandExecutor, MkdirCommandExecutor.
ServeDeed ==
    /\ deed.cmd # "nothing" /\ deed.answer = "pending"
    /\ \/ deed' = [deed EXCEPT !.answer = "error"] /\ UNCHANGED disk
       \/ /\ deed.cmd = "rm" \/ ParentOf[deed.target] \in disk
          /\ deed' = [deed EXCEPT !.answer = "done"]
          /\ disk' = IF deed.cmd = "rm" THEN disk \ Subtree(deed.target) ELSE disk \cup {deed.target}
    /\ UNCHANGED <<phase, view, clip, past, queue, syncs, branch, bounds>>

-----------------------------------------------------------------------------
\* Answers are handled.

\* MUTANT: it does not go back to recording.
RecordedOnce(d) ==
    /\ IF update
       THEN LET trail == IF Len(visited) > at THEN SubSeq(visited, 1, at) ELSE visited IN
            /\ visited' = IF trail # <<>> /\ trail[Len(trail)] = d THEN trail ELSE Append(trail, d)
            /\ at' = Len(visited')
       ELSE UNCHANGED <<visited, at>>
    /\ update' = update
\* history's handler of "open", when the current directory is d.
Recorded(d) ==
    /\ IF update
       THEN LET trail == IF Len(visited) > at THEN SubSeq(visited, 1, at) ELSE visited IN
            /\ visited' = IF trail # <<>> /\ trail[Len(trail)] = d THEN trail ELSE Append(trail, d)
            /\ at' = Len(visited')
       ELSE UNCHANGED <<visited, at>>
    /\ update' = TRUE

\* open, then the handlers of "open": history and the cwd view.
Opened(k) ==
    /\ queue[k].by \in {"init", "click", "history", "popstate"} /\ queue[k].answer \in Rows
    /\ LET d == queue[k].target  rows == queue[k].answer IN
       /\ files' = Cached(IF queue[k].by = "init" THEN [h \in Node |-> "none"]
                          ELSE Purged(files, cwd, remember), rows)
       /\ cwd' = d
       /\ shown' = {h \in Node : rows[h] # "none" /\ ParentOf[h] = d}
       /\ Recorded(d)
    /\ mishaps' = mishaps \ {"removal"}
    /\ Take(k) /\ phase' = "ready"
    /\ UNCHANGED <<disk, remember, kept, syncs, branch, deed, bounds>>

\* The first "open" fails: elFinder removes all its handlers.
InitFails(k) ==
    /\ queue[k].by = "init" /\ queue[k].answer = Error
    /\ Take(k) /\ phase' = "dead"
    /\ UNCHANGED <<disk, view, clip, past, syncs, branch, deed, bounds>>

\* syncOnFail.
OpenFails(k) ==
    /\ queue[k].by \in {"click", "history", "popstate"} /\ queue[k].answer = Error
    /\ \/ StartSync
       \/ /\ Len(syncs) = MaxSyncs   \* BOUND
          /\ IF Pending("history") THEN Reset(CwdHash) ELSE UNCHANGED past
          /\ Take(k) /\ UNCHANGED syncs
    /\ UNCHANGED <<disk, phase, view, clip, branch, deed, bounds>>

\* What the fallback answers is looked at by nobody.
FallbackEnds(k) ==
    /\ queue[k].by = "fallback" /\ queue[k].answer # NoAnswer
    /\ Take(k)
    /\ UNCHANGED <<disk, phase, view, clip, past, syncs, branch, deed, bounds>>

\* One of the two requests of a sync fails first: the directory of the last
\* visit, or the root, is opened and the answer thrown away.
SyncFails(i) ==
    /\ syncs[i].live
    /\ \/ syncs[i].parents = Error
       \/ \E k \in DOMAIN queue : queue[k].sync = i /\ queue[k].answer = Error
    /\ IF Pending("history") THEN Reset(CwdHash) ELSE UNCHANGED past
    /\ \E d \in Dir : Send("fallback", d, 0)
    /\ syncs' = [Dropped EXCEPT ![i].live = FALSE]
    /\ UNCHANGED <<disk, phase, view, clip, branch, deed, bounds>>

\* The listing of a sync arrives, before its parents or after.
SyncListed(k) ==
    /\ queue[k].by = "sync" /\ queue[k].answer \in Rows
    /\ syncs' = [syncs EXCEPT ![queue[k].sync].open = queue[k].answer]
    /\ Take(k)
    /\ UNCHANGED <<disk, phase, view, clip, past, branch, deed, bounds>>

\* Both are there: what differs from the cache, as it is now, is removed, added
\* and changed -- whatever the directory is now.  A change of a row that is not
\* cached any more throws, and those after it are not made.
Synced(i) ==
    LET s    == syncs[i]
        rows == Cached(s.open, s.parents)
        gone == Missing(files, rows)
        left == Removed(files, gone)
        new  == Incoming(files, rows) \cup {s.target}
        diff == Different(files, rows)
        lost == {h \in diff \ new : left[h] = "none"}
    IN
    /\ s.live /\ s.open \in Rows /\ s.parents \in Rows
    /\ cwd' = cwd
    /\ \E made \in IF lost = {} THEN {diff} ELSE SUBSET (diff \ lost) :
          files' = Changed(left, new \cup made, rows)
    /\ shown' = (shown \ gone) \cup {h \in new \cup diff : ParentOf[h] = CwdHash'}
    /\ syncs' = [syncs EXCEPT ![i].live = FALSE]
    /\ mishaps' = mishaps \cup (IF s.target # cwd THEN {"sync"} ELSE {})
                          \cup (IF left[cwd] = "none" THEN {"removal"} ELSE {})
    /\ UNCHANGED <<disk, phase, remember, kept, past, queue, branch, deed, bounds>>

\* "tree" is only cached.
TreeListed ==
    /\ branch.answer # NoAnswer
    /\ files' = IF branch.answer = Error THEN files ELSE Cached(files, branch.answer)
    /\ branch' = NoBranch
    /\ UNCHANGED <<disk, phase, cwd, shown, clip, past, queue, syncs, deed, bounds>>

Orphaned == IF CwdHash' = None THEN {"removal"} ELSE {}

\* What the server did is done to the cache and shown.
DeedDone ==
    /\ deed.answer = "done" /\ cwd' = cwd
    /\ files' = IF deed.cmd = "rm" THEN Removed(files, {deed.target})
                ELSE [files EXCEPT ![deed.target] = "dir"]
    /\ shown' = IF deed.cmd = "rm" THEN shown \ {deed.target}
                ELSE shown \cup ({deed.target} \cap {h \in Dir : ParentOf[h] = CwdHash'})
    /\ deed' = NoDeed
    /\ mishaps' = mishaps \cup Orphaned
    /\ UNCHANGED <<disk, phase, remember, kept, past, queue, syncs, branch, bounds>>

DeedFails ==
    /\ deed.answer = "error"
    /\ \/ StartSync
       \/ Len(syncs) = MaxSyncs /\ UNCHANGED <<past, queue, syncs>>   \* BOUND
    /\ deed' = NoDeed
    /\ UNCHANGED <<disk, phase, view, clip, branch, bounds>>

Serve == ServeOpen \/ ServeParents \/ ServeTree \/ ServeDeed
Handle ==
    \/ \E k \in DOMAIN queue :
          Opened(k) \/ InitFails(k) \/ OpenFails(k) \/ FallbackEnds(k) \/ SyncListed(k)
    \/ \E i \in DOMAIN syncs : SyncFails(i) \/ Synced(i)
    \/ TreeListed \/ DeedDone \/ DeedFails
User ==
    \/ \E d \in Dir : Open(d) \/ PopState(d) \/ Expand(d)
    \/ Back \/ Forward \/ Reload
    \/ \E hashes \in SUBSET shown : Copy(hashes)
    \/ \E h \in Node : Do("rm", h) \/ Do("mkdir", h)

Next == Change \/ Serve \/ Handle \/ User

Spec == Init /\ [][Next]_vars

-----------------------------------------------------------------------------
(***************************************************************************)
(* What holds.  Not held against the code here are: a sync that meets a    *)
(* directory other than the one it asked about ("sync"); that nobody goes  *)
(* up when the current directory is removed, also when it is added again   *)
(* at once, without what it holds ("removal"); and that going              *)
(* back to a directory that has become a file opens a window ("stray").    *)
(***************************************************************************)
Ready == phase = "ready"

\* No file of the current directory is cached and not shown, but for those the
\* clipboard held: what the user cannot see is not acted on.
CachedFilesShown ==
    Ready /\ "sync" \notin mishaps =>
        \A h \in File : files[h] # "none" /\ ParentOf[h] = CwdHash => h \in shown \cup kept

\* All that is shown is known to the commands that act on it.
ShownCached ==
    Ready /\ mishaps \cap {"sync", "removal"} = {} => \A h \in shown : files[h] # "none"

\* What is cached and what is shown agree, both ways (open, cache, the view's content).
CacheAgrees == CachedFilesShown /\ ShownCached

\* History points at the current directory unless it is on its way to another.
HistoryAtCwd ==
    Ready /\ "stray" \notin mishaps =>
        IF update THEN visited[at] \in {cwd, None} ELSE Pending("history")

\* The view goes nowhere but to the last directory the user asked for.
Asked == {k \in DOMAIN queue : queue[k].by \in {"click", "history", "popstate", "init"}}
Heading == IF Asked = {} THEN None ELSE queue[CHOOSE k \in Asked : \A j \in Asked : j <= k].target
Nav == INSTANCE Navigation WITH place <- cwd, heading <- Heading
Navigates == Nav!Spec
=============================================================================
