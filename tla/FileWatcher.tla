---------------------------- MODULE FileWatcher ----------------------------
(***************************************************************************)
(* One DEVMaid synchroniser: Application.scala starts it, FileWatcher.scala *)
(* watches one source root, HandlerFactory.scala and SshManager.scala carry *)
(* what it sees to the remote host.  The watching thread is modelled at the *)
(* grain of its reads of the local tree and its SSH commands: between any  *)
(* two of them the developer may change the local tree, the process may be *)
(* told to stop, and an SSH command may fail.                              *)
(***************************************************************************)
EXTENDS WatchService

CONSTANTS
    HasWatchedType, \* paths whose extension is in fileTypesToBeWatched
    Ignored,        \* paths under a directory of fileTypesToBeIgnored
    Routed,         \* paths for which searchForSourceIndex finds the root
    SshMayFail,     \* whether SSH commands may fail
    MayStop,        \* whether the process may be told to stop and restarted
    Deeds,          \* the kinds of change the developer makes
    MaxChanges      \* BOUND: changes the developer makes in a behaviour

ASSUME WatchedAssumption ==
    /\ HasWatchedType \subseteq Path /\ Ignored \subseteq Path
    /\ Routed \subseteq Path
    /\ \A d \in Ignored : Below(d) \subseteq Ignored
ASSUME SwitchAssumption == SshMayFail \in BOOLEAN /\ MayStop \in BOOLEAN
ASSUME DeedsAssumption ==
    Deeds \subseteq {"create", "replace", "write", "delete", "mkdir", "rmdir"}
ASSUME MaxChangesAssumption == MaxChanges \in Nat

VARIABLES
    local,    \* the tree under the source root
    remote,   \* the tree under the destination root
    ws,       \* the watch service
    watched,  \* FileWatcher.watchedFiles: the handler of each path
    pc,       \* where the main thread is
    listed,   \* filesArray: paths listed at construction, still to be added
    cur,      \* the key being processed
    batch,    \* its events still to be processed
    ev,       \* the event, or the path to add, being processed
    sent,     \* what the upload in progress opened
    closed,   \* whether the shutdown hook closed the watch service
    unseen,   \* HISTORY: paths created while no key watched their directory
    stale,    \* HISTORY: paths whose remote copy is wrong and not to be mended
    changes   \* BOUND: changes made by the developer so far

developer == <<local, changes>>
history   == <<unseen, stale>>
vars == <<local, remote, ws, watched, pc, listed, cur, batch, ev, sent, closed,
          unseen, stale, changes>>

Handler == {"none", "uploadFile", "removeFile", "createDir", "removeDir"}

Starting  == {"boot", "connect", "root", "list"}
Adding    == {"filter", "kind", "register"}
Handling  == {"notify", "mkdir", "parent", "open", "copy", "remove"}
Watching  == {"poll", "next", "check"} \cup Handling
Stopped   == {"dead", "exited", "halted"}
Stage     == Starting \cup Adding \cup Watching \cup Stopped

Add(p)  == [kind |-> "add", path |-> p]     \* addToWatched from Application
Idle    == Add(Root)                        \* ev before anything is processed

TypeOK ==
    /\ local \in [Path -> {Absent, Dir} \cup Content]
    /\ remote \in Tree
    /\ ws \in Service
    /\ watched \in [Path -> Handler]
    /\ pc \in Stage
    /\ listed \subseteq Path
    /\ cur \in Key \cup {NoPath}
    /\ batch \in Seq(Event \cup {Overflow})
    /\ ev \in [kind : EventKind \cup {"add"}, path : Path]
    /\ sent \in Content \cup {Absent}
    /\ closed \in BOOLEAN
    /\ unseen \subseteq Path /\ stale \subseteq Path
    /\ changes \in 0 .. MaxChanges

\* A key is held from poll to reset, through whatever its events call for.
KeyHeld ==
    \/ pc \in {"next", "check"} \cup Handling
    \/ pc \in Adding /\ ev.kind # "add"
    => cur \in Key

\* No ignored path has a handler, and none is being added or handled.
NoneIgnored ==
    /\ \A p \in Ignored : watched[p] = "none"
    /\ pc \in {"kind", "register"} \cup (Handling \ {"notify"}) =>
         ev.path \notin Ignored

-----------------------------------------------------------------------------
\* The program's own tests.

\* isToBeWatched, but for its test for directories.
ByNameToBeWatched(p) == watched[p] # "none" \/ p \in HasWatchedType

\* MUTANT: fileTypesToBeIgnored is not consulted.
isToBeWatchedByName(p) == IsDirectory(local, p) \/ ByNameToBeWatched(p)

isToBeWatched(p) ==
    /\ p \notin Ignored
    /\ IsDirectory(local, p) \/ ByNameToBeWatched(p)

\* Everything below dir, but for the entries of dir itself that are ignored and
\* what they contain: the recursive call passes no filters on.
deepListFiles(dir) ==
    {p \in Below(dir) \ {dir} :
        /\ local[p] # Absent
        /\ \A a \in Upto(p) : Len(a) = Len(dir) + 1 => a \notin Ignored}

filesToLoad == deepListFiles(Root)

Running == pc \notin Stopped

-----------------------------------------------------------------------------
Init ==
    /\ local \in [Path -> {Absent, Dir} \cup Content] /\ WellFormed(local)
    /\ remote \in {local, [p \in Path |-> IF p = Root THEN Dir ELSE Absent]}
    /\ ws = EmptyService
    /\ watched = [p \in Path |-> "none"]
    /\ pc = "boot"
    /\ listed = {} /\ cur = NoPath /\ batch = <<>> /\ ev = Idle
    /\ sent = Absent
    /\ closed = FALSE
    /\ unseen = {} /\ stale = {p \in Path : remote[p] # local[p]}
    /\ changes = 0

-----------------------------------------------------------------------------
\* The developer.  What the kernel reports to no key leaves its mark in the
\* history variables: an entry created then is unseen, one changed or deleted
\* then is stale, with all that was ever below it.  Seeing a path created or changed
\* anew mends what is stale, unless the remote entry is of the other kind: then its
\* deletion went unseen, or was never looked for, and it stays in the way.

InTheWay(p, entry) ==
    IF entry = Dir THEN IsFile(remote, p) ELSE IsDirectory(remote, p)

Change(deed, kind, p, entry) ==
    /\ deed \in Deeds
    /\ changes < MaxChanges
    /\ changes' = changes + 1
    /\ local' = [local EXCEPT ![p] = entry]
    /\ LET seen    == Watched(ws, Parent(p))
           created == entry # Absent /\ local[p] = Absent
       IN
       /\ unseen' = IF ~seen /\ created /\ pc # "boot" THEN unseen \cup {p}
                    ELSE IF entry = Absent \/ (seen /\ kind = "create")
                    THEN unseen \ {p}
                    ELSE unseen
       /\ stale' = IF ~seen THEN stale \cup (IF entry = Absent THEN Below(p) ELSE {p})
                   ELSE IF kind # "delete" /\ ~InTheWay(p, entry) THEN stale \ {p}
                   ELSE IF entry = Dir /\ ~ByNameToBeWatched(p) THEN stale \cup {p}
                   ELSE stale
    /\ UNCHANGED <<remote, watched, pc, listed, cur, batch, ev, sent, closed>>

\* A new file.
CreateFile(p, c) ==
    /\ p # Root /\ local[p] = Absent /\ IsDirectory(local, Parent(p))
    /\ ws' = Deliver(ws, [kind |-> "create", path |-> p])
    /\ Change("create", "create", p, c)

\* A file moved over another, as editors that save to a temporary file do.
ReplaceFile(p, c) ==
    /\ local[p] \in Content \ {c}
    /\ ws' = Deliver(ws, [kind |-> "create", path |-> p])
    /\ Change("replace", "create", p, c)

WriteFile(p, c) ==
    /\ local[p] \in Content \ {c}
    /\ ws' = Deliver(ws, [kind |-> "modify", path |-> p])
    /\ Change("write", "modify", p, c)

DeleteFile(p) ==
    /\ local[p] \in Content
    /\ ws' = Deliver(ws, [kind |-> "delete", path |-> p])
    /\ Change("delete", "delete", p, Absent)

MakeDirectory(p) ==
    /\ p # Root /\ local[p] = Absent /\ IsDirectory(local, Parent(p))
    /\ ws' = Deliver(ws, [kind |-> "create", path |-> p])
    /\ Change("mkdir", "create", p, Dir)

RemoveDirectory(p) ==
    /\ p # Root /\ IsDirectory(local, p) /\ Children(local, p) = {}
    /\ ws' = Invalidate(Deliver(ws, [kind |-> "delete", path |-> p]), p)
    /\ Change("rmdir", "delete", p, Absent)

Developer ==
    \E p \in Path :
        \/ \E c \in Content :
              CreateFile(p, c) \/ ReplaceFile(p, c) \/ WriteFile(p, c)
        \/ DeleteFile(p) \/ MakeDirectory(p) \/ RemoveDirectory(p)

-----------------------------------------------------------------------------
\* Application: construction and run.

\* The files are listed when the Application is constructed ...
ListFiles ==
    /\ pc = "boot"
    /\ listed' = filesToLoad
    /\ pc' = "connect"
    /\ UNCHANGED <<developer, remote, ws, watched, cur, batch, ev, sent, closed,
                   history>>

\* ... before the connection is tested, ...
TestConnections ==
    /\ pc = "connect"
    /\ \/ pc' = "root"
       \/ SshMayFail /\ pc' = "dead"
    /\ UNCHANGED <<developer, remote, ws, watched, listed, cur, batch, ev, sent,
                   closed, history>>

\* ... and then added, the source root first.
AddRoot ==
    /\ pc = "root"
    /\ ev' = Add(Root)
    /\ pc' = "filter"
    /\ UNCHANGED <<developer, remote, ws, watched, listed, cur, batch, sent,
                   closed, history>>

\* A directory comes before what it contains.
AddListed ==
    /\ pc = "list"
    /\ \E p \in listed :
        /\ Upto(p) \cap listed = {p}
        /\ ev' = Add(p)
        /\ listed' = listed \ {p}
    /\ pc' = "filter"
    /\ UNCHANGED <<developer, remote, ws, watched, cur, batch, sent, closed, history>>

StartWatching ==
    /\ pc = "list" /\ listed = {}
    /\ pc' = "poll"
    /\ UNCHANGED <<developer, remote, ws, watched, listed, cur, batch, ev, sent,
                   closed, history>>

-----------------------------------------------------------------------------
\* addToWatched: three looks at the path, each at the tree of that moment.

AfterAdding == IF ev.kind = "add" THEN "list" ELSE "notify"

Filter ==
    /\ pc = "filter"
    /\ pc' = IF isToBeWatched(ev.path) THEN "kind" ELSE AfterAdding
    /\ UNCHANGED <<developer, remote, ws, watched, listed, cur, batch, ev, sent,
                   closed, history>>

\* A DELETE event installs the handler that removes, any other that uploads.
HandlerFor(upload, removal) ==
    [watched EXCEPT ![ev.path] = IF ev.kind = "delete" THEN removal ELSE upload]

AddFile ==
    /\ pc = "kind" /\ ~IsDirectory(local, ev.path)
    /\ watched' = HandlerFor("uploadFile", "removeFile")
    /\ pc' = AfterAdding
    /\ UNCHANGED <<developer, remote, ws, listed, cur, batch, ev, sent, closed, history>>

\* MUTANT: only directories that have no handler yet are registered.
AddNewDirectory ==
    /\ pc = "kind" /\ IsDirectory(local, ev.path)
    /\ pc' = IF watched[ev.path] = "none" THEN "register" ELSE AfterAdding
    /\ UNCHANGED <<developer, remote, ws, watched, listed, cur, batch, ev, sent,
                   closed, history>>

AddDirectory ==
    /\ pc = "kind" /\ IsDirectory(local, ev.path)
    /\ pc' = "register"
    /\ UNCHANGED <<developer, remote, ws, watched, listed, cur, batch, ev, sent,
                   closed, history>>

Register ==
    /\ pc = "register" /\ ~closed /\ IsDirectory(local, ev.path)
    /\ CanRegister(ws, ev.path)
    /\ ws' = Registered(ws, ev.path)
    /\ watched' = HandlerFor("createDir", "removeDir")
    /\ pc' = AfterAdding
    /\ UNCHANGED <<developer, remote, listed, cur, batch, ev, sent, closed, history>>

\* Registering throws when the directory has gone meanwhile, which nothing
\* catches, or when the service is closed, which only run() catches.
RegisterFails ==
    /\ pc = "register" /\ (closed \/ ~IsDirectory(local, ev.path))
    /\ pc' = IF closed /\ ev.kind # "add" THEN "exited" ELSE "dead"
    /\ UNCHANGED <<developer, remote, ws, watched, listed, cur, batch, ev, sent,
                   closed, history>>

-----------------------------------------------------------------------------
\* startWatching.

Poll ==
    /\ pc = "poll" /\ ~closed /\ ws.queue # <<>>
    /\ cur' = Head(ws.queue)
    /\ batch' = ws.keys[Head(ws.queue)].events
    /\ ws' = Polled(ws, Head(ws.queue))
    /\ pc' = "next"
    /\ UNCHANGED <<developer, remote, watched, listed, ev, sent, closed, history>>

\* ClosedWatchServiceException ends run().
PollClosed ==
    /\ pc = "poll" /\ closed
    /\ pc' = "exited"
    /\ UNCHANGED <<developer, remote, ws, watched, listed, cur, batch, ev, sent,
                   closed, history>>

\* MUTANTS: addToWatched missing from a CREATE event, from a DELETE event.
CreateNotAdded == [create |-> "notify", modify |-> "notify", delete |-> "filter"]
DeleteNotAdded == [create |-> "check", modify |-> "notify", delete |-> "notify"]

\* The stage that begins the handling of each kind of event.
FirstStage == [create |-> "check", modify |-> "notify", delete |-> "filter"]

\* MUTANT: an OVERFLOW event, whose path is none, is handled like the others.
NextEventOfAnyKind ==
    /\ pc = "next" /\ batch # <<>>
    /\ ev' = Head(batch)
    /\ batch' = Tail(batch)
    /\ pc' = IF Head(batch) = Overflow THEN "notify" ELSE FirstStage[Head(batch).kind]
    /\ UNCHANGED <<developer, remote, ws, watched, listed, cur, sent, closed, history>>

\* MUTANT: one event of each path is taken from a batch.
NextEventOncePerPath ==
    /\ pc = "next" /\ batch # <<>>
    /\ Head(batch) # Overflow /\ Head(batch).path \in Routed
    /\ ev' = Head(batch)
    /\ batch' = SelectSeq(Tail(batch), LAMBDA e : e.path # Head(batch).path)
    /\ pc' = FirstStage[Head(batch).kind]
    /\ UNCHANGED <<developer, remote, ws, watched, listed, cur, sent, closed, history>>

NextEvent ==
    /\ pc = "next" /\ batch # <<>>
    /\ Head(batch) # Overflow /\ Head(batch).path \in Routed
    /\ ev' = Head(batch)
    /\ batch' = Tail(batch)
    /\ pc' = FirstStage[Head(batch).kind]
    /\ UNCHANGED <<developer, remote, ws, watched, listed, cur, sent, closed, history>>

\* The path of an OVERFLOW event, resolve(null), is a NullPointerException;
\* a path without a source root is a NonExistSourceRootForTheGivenPath.
NextEventFails ==
    /\ pc = "next" /\ batch # <<>>
    /\ Head(batch) = Overflow \/ Head(batch).path \notin Routed
    /\ pc' = "dead"
    /\ UNCHANGED <<developer, remote, ws, watched, listed, cur, batch, ev, sent,
                   closed, history>>

\* MUTANT: key.reset forgotten.
ResetForgotten ==
    /\ pc = "next" /\ batch = <<>>
    /\ cur' = NoPath
    /\ pc' = "poll"
    /\ UNCHANGED <<developer, remote, ws, watched, listed, batch, ev, sent, closed,
                   history>>

Reset ==
    /\ pc = "next" /\ batch = <<>>
    /\ ws' = ResetKey(ws, cur)
    /\ cur' = NoPath
    /\ pc' = "poll"
    /\ UNCHANGED <<developer, remote, watched, listed, batch, ev, sent, closed, history>>

\* The test a CREATE event passes before addToWatched makes it again.
Check ==
    /\ pc = "check"
    /\ pc' = IF isToBeWatched(ev.path) THEN "filter" ELSE "next"
    /\ UNCHANGED <<developer, remote, ws, watched, listed, cur, batch, ev, sent,
                   closed, history>>

\* notifyHandlerAssignedTo: the stage that begins each handler.
HandlerStage == [none |-> "next", uploadFile |-> "parent", createDir |-> "mkdir",
                 removeFile |-> "remove", removeDir |-> "remove"]

Notify ==
    /\ pc = "notify"
    /\ pc' = HandlerStage[watched[ev.path]]
    /\ UNCHANGED <<developer, remote, ws, watched, listed, cur, batch, ev, sent,
                   closed, history>>

-----------------------------------------------------------------------------
\* The handlers.  Each SSH command opens a connection of its own.

\* A session that fails throws; only upload's exceptions are caught.  A command
\* that ends with an error does not throw (Shell.Plain), but in upload (Shell.Safe).
CommandFails == SshMayFail /\ pc' = "dead" /\ UNCHANGED <<remote, stale>>

\* What mkdir -p of directory d makes that is no local directory.
InVain(d) == {a \in Upto(d) : ~IsDirectory(local, a)}

\* createDir: mkdir -p of the directory.  A file in the way refuses it, and it is not
\* tried again; if the file had its name, the deletion is still to be processed.
CreateDir ==
    /\ pc = "mkdir"
    /\ \/ /\ CanMkdirP(remote, ev.path)
          /\ remote' = MkdirP(remote, ev.path)
          /\ stale' = CASE IsDirectory(local, ev.path) -> stale \ {ev.path}
                        [] IsFile(local, ev.path)      -> stale \cup InVain(ev.path)
                        [] OTHER                       -> stale \cup InVain(Parent(ev.path))
          /\ pc' = "next"
       \/ /\ ~CanMkdirP(remote, ev.path)
          /\ stale' = IF IsFile(remote, ev.path) THEN stale ELSE stale \cup {ev.path}
          /\ pc' = "next"
          /\ UNCHANGED remote
       \/ CommandFails
    /\ UNCHANGED <<developer, unseen, ws, watched, listed, cur, batch, ev, sent, closed>>

\* uploadFile: mkdir -p of the parent, refused or not, ...
MakeParent ==
    /\ pc = "parent"
    /\ \/ /\ CanMkdirP(remote, Parent(ev.path))
          /\ remote' = MkdirP(remote, Parent(ev.path))
          /\ stale' = stale \cup InVain(Parent(ev.path))
          /\ pc' = "open"
       \/ /\ ~CanMkdirP(remote, Parent(ev.path))
          /\ pc' = "open"
          /\ UNCHANGED <<remote, stale>>
       \/ CommandFails
    /\ UNCHANGED <<developer, unseen, ws, watched, listed, cur, batch, ev, sent, closed>>

\* ... then the local file is opened and the remote one truncated, which fails below
\* a file, ...
OpenFile ==
    /\ pc = "open"
    /\ \/ /\ local[ev.path] \in Content /\ CanCatTo(remote, ev.path)
          /\ sent' = local[ev.path]
          /\ remote' = CatTo(remote, ev.path, Torn)
          /\ pc' = "copy"
          /\ UNCHANGED stale
       \/ /\ local[ev.path] \notin Content \/ ~CanCatTo(remote, ev.path)
          /\ stale' = IF local[ev.path] \in Content /\ ~IsDirectory(remote, Parent(ev.path))
                      THEN stale \cup {ev.path} ELSE stale
          /\ pc' = "next"
          /\ UNCHANGED <<remote, sent>>
       \/ /\ SshMayFail
          /\ stale' = stale \cup {ev.path}
          /\ pc' = "next"
          /\ UNCHANGED <<remote, sent>>
    /\ UNCHANGED <<developer, unseen, ws, watched, listed, cur, batch, ev, closed>>

\* ... and the content sent: what was opened, or, when the file changed under
\* the reader, what it holds now or a mixture.
CopyFile ==
    /\ pc = "copy"
    /\ sent' = Absent
    /\ pc' = "next"
    /\ \/ \E c \in {sent} \cup
               IF local[ev.path] = sent THEN {}
               ELSE {Torn} \cup ({local[ev.path]} \cap Content) :
            /\ remote' = CatTo(remote, ev.path, c)
            /\ stale' = IF c = local[ev.path] THEN stale \ {ev.path} ELSE stale
       \/ SshMayFail /\ stale' = stale \cup {ev.path} /\ UNCHANGED remote
    /\ UNCHANGED <<developer, unseen, ws, watched, listed, cur, batch, ev, closed>>

\* removeFile and removeDir: rm -rf.
RemoveEntry ==
    /\ pc = "remove"
    /\ \/ /\ remote' = RmRf(remote, ev.path)
          /\ stale' = (stale \ {p \in Below(ev.path) : local[p] = Absent})
                      \cup {p \in Below(ev.path) \ {ev.path} : local[p] # Absent}
          /\ pc' = "next"
       \/ CommandFails
    /\ UNCHANGED <<developer, unseen, ws, watched, listed, cur, batch, ev, sent, closed>>

-----------------------------------------------------------------------------
\* The shutdown hook, on a thread of its own, and what follows it.

Close ==
    /\ MayStop /\ ~closed /\ pc \notin {"boot"} \cup Stopped
    /\ closed' = TRUE
    /\ ws' = Closed(ws)
    /\ UNCHANGED <<developer, remote, watched, pc, listed, cur, batch, ev, sent, history>>

\* The process ends once its hooks have, wherever the main thread is.
Halt ==
    /\ closed /\ Running
    /\ pc' = "halted"
    /\ UNCHANGED <<developer, remote, ws, watched, listed, cur, batch, ev, sent,
                   closed, history>>

\* A new process knows nothing of the old one's and compares nothing.
Restart ==
    /\ MayStop /\ pc \in Stopped
    /\ ws' = EmptyService
    /\ watched' = [p \in Path |-> "none"]
    /\ pc' = "boot"
    /\ listed' = {} /\ cur' = NoPath /\ batch' = <<>> /\ ev' = Idle
    /\ sent' = Absent
    /\ closed' = FALSE
    /\ unseen' = {} /\ stale' = {p \in Path : remote[p] # local[p]}
    /\ UNCHANGED <<developer, remote>>

-----------------------------------------------------------------------------
Start   == ListFiles \/ TestConnections \/ AddRoot \/ AddListed \/ StartWatching
Adds    == Filter \/ AddFile \/ AddDirectory \/ Register \/ RegisterFails
Watch   == Poll \/ PollClosed \/ NextEvent \/ NextEventFails \/ Reset \/ Check \/ Notify
Handle  == CreateDir \/ MakeParent \/ OpenFile \/ CopyFile \/ RemoveEntry
Program == Start \/ Adds \/ Watch \/ Handle

Next == Developer \/ Program \/ Close \/ Halt \/ Restart

Spec     == Init /\ [][Next]_vars
FairSpec == Spec /\ WF_vars(Program)

-----------------------------------------------------------------------------
(***************************************************************************)
(* Properties.                                                             *)
(***************************************************************************)

\* The keys whose events will still be processed: the queued ones and, as
\* reset queues it again only while it is valid, the one being processed.
LiveKeys ==
    {k \in Key : \/ k \in ToSet(ws.queue)
                 \/ k = cur /\ ws.keys[k].valid}

\* The thread goes on serving events: it is not closed, and has not lost count
\* of them to an OVERFLOW, which will kill it.
Overflowed ==
    \/ Overflow \in ToSet(batch)
    \/ \E k \in LiveKeys : Overflow \in ToSet(ws.keys[k].events)

Serving == Running /\ ~closed /\ ~Overflowed

\* Events of a kind in kinds for path p that are still to be taken up.
Queued(kinds, p) ==
    \/ \E e \in ToSet(batch) : e.kind \in kinds /\ e.path = p
    \/ \E k \in LiveKeys :
         \E e \in ToSet(ws.keys[k].events) : e.kind \in kinds /\ e.path = p

\* The event being processed is one of a kind in kinds for p, and the local
\* tree is still to be looked at for it.
InHand(kinds, p) ==
    /\ pc \in {"check", "filter", "kind", "register", "notify", "mkdir", "parent",
                "open", "remove"}
    /\ ev.kind \in kinds /\ ev.path = p

Pending(kinds, p) == Queued(kinds, p) \/ InHand(kinds, p)

Copying(p) == pc = "copy" /\ ev.path = p /\ sent = local[p]

\* What the watching thread cannot be expected to bring in step.
lost == unseen \cup stale

\* An entry that differs from its remote copy is about to be synchronised: some
\* event of it is still to be processed.  No interleaving of the developer
\* with the watching thread, no merging of events and no reuse of a name
\* leaves a stale copy behind, but for the files that are lost.
UploadPending ==
    Serving =>
        \A p \in Path \ lost :
            isToBeWatched(p) /\ local[p] # Absent /\ remote[p] # local[p] =>
                Copying(p) \/ Pending(EventKind, p)

\* A remote entry whose local one has gone, or is of the other kind, is about to be
\* removed: its own deletion, or that of a directory it was in, is still to be
\* processed.  Only until then is a file in the way of the mkdir of a directory.
RemovalPending ==
    Serving =>
        \A p \in Path \ lost :
            isToBeWatched(p) /\ remote[p] # Absent
            /\ (local[p] = Absent \/ InTheWay(p, local[p])) =>
                \E d \in Upto(p) : Pending({"delete"}, d)

\* Once watching, every directory that is not ignored has a key, or its
\* creation is still to be processed.
DirectoriesWatched ==
    pc \in Watching /\ Serving =>
        \A d \in Path \ (unseen \cup Ignored) :
            IsDirectory(local, d) => Watched(ws, d) \/ Pending({"create"}, d)

\* The handler of an existing file uploads it, unless its creation is still
\* to be processed.
HandlerUploads ==
    Serving =>
        \A p \in Path \ unseen :
            local[p] \in Content /\ watched[p] \in {"removeFile", "removeDir"} =>
                Pending({"create"}, p)

\* What the thread keeps of an entry fits what the entry is: no directory is
\* deaf, and no later MODIFY may run a handler that removes an existing file.
HandlersFit == DirectoriesWatched /\ HandlerUploads

\* rm -rf is run on an entry that exists locally only when the creation of
\* that entry is still to be processed, so that it comes back.
RemovalsAreUndone ==
    [][\A p \in Path \ unseen :
        RemoveEntry /\ ev.path = p /\ local[p] # Absent /\ remote' # remote /\ Serving =>
            Pending({"create"}, p)]_vars

\* The copy of an ignored path is never written, and never removed but with
\* a directory above it that is not ignored.
IgnoredUntouched ==
    [][\A p \in Ignored : remote'[p] # remote[p] =>
        RemoveEntry /\ ev.path \notin Ignored]_remote

\* Fair scheduling of the watching thread brings every entry in step, once the
\* developer rests, but for those that are lost or when the thread has died.
Converges ==
    <>[](Running => \A p \in Path \ lost : isToBeWatched(p) => remote[p] = local[p])

\* The files are in step when the thread first waits, the developer having
\* left them alone so far.
Steady == pc = "poll" /\ changes = 0 /\ remote = local

-----------------------------------------------------------------------------
(***************************************************************************)
(* What documents and comments say and the code does not do.               *)
(***************************************************************************)

\* README.md:10, "have all those files get synchronized (i.e. updated) to the
\* remote host(s) AUTOMATICALLY": after a steady start they always come in step
\* again, or the thread has died.
AllFilesSynchronized == [](Steady => []<>(pc = "dead" \/ remote = local))
=============================================================================
