-------------------------- MODULE FileWatcherProofs --------------------------
(***************************************************************************)
(* Proofs about FileWatcher, for every tree, every set of keys and every   *)
(* bound.                                                                  *)
(***************************************************************************)
EXTENDS FileWatcher, SequenceTheorems, TLAPS

-----------------------------------------------------------------------------
\* The remote commands turn trees into trees.

\* rm -rf leaves a tree.
LEMMA RmRfType ==
    ASSUME NEW t \in Tree, NEW p
    PROVE  RmRf(t, p) \in Tree
BY DEF RmRf, Tree, Entry

\* mkdir -p leaves a tree.
LEMMA MkdirPType ==
    ASSUME NEW t \in Tree, NEW p
    PROVE  MkdirP(t, p) \in Tree
BY DEF MkdirP, Tree, Entry

\* cat > p leaves a tree.
LEMMA CatToType ==
    ASSUME NEW t \in Tree, NEW p \in Path, NEW c \in Entry
    PROVE  CatTo(t, p, c) \in Tree
BY DEF CatTo, Tree

-----------------------------------------------------------------------------
\* The watch service stays one.

Events == Seq(Event \cup {Overflow})

\* Adding, merging or dropping an event leaves a list of events.
LEMMA AddEventType ==
    ASSUME NEW evs \in Events, NEW e \in Event
    PROVE  AddEvent(evs, e) \in Events
<1>1. <<Overflow>> \in Events
  BY DEF Events
<1>2. Append(evs, e) \in Events
  BY DEF Events
<1> QED
  BY <1>1, <1>2 DEF AddEvent

\* A key that is free has the type of a key.
LEMMA NoKeyType == NoKey \in KeyState
BY DEF NoKey, KeyState

\* Signalling a key leaves a watch service.
LEMMA SignalKeyType ==
    ASSUME NEW s \in Service, NEW k \in Key, NEW ks \in KeyState
    PROVE  SignalKey(s, k, ks) \in Service
<1>1. [ks EXCEPT !.signalled = TRUE] \in KeyState
  BY DEF KeyState
<1>2. [s.keys EXCEPT ![k] = [ks EXCEPT !.signalled = TRUE]] \in [Key -> KeyState]
  BY <1>1 DEF Service
<1>3. (IF s.keys[k].signalled THEN s.queue ELSE Append(s.queue, k)) \in Seq(Key)
  BY DEF Service
<1> QED
  BY <1>2, <1>3 DEF SignalKey, Service

\* Delivering an event, to a key or to none, leaves a watch service.
LEMMA DeliverType ==
    ASSUME NEW s \in Service, NEW e \in Event
    PROVE  Deliver(s, e) \in Service
<1> DEFINE K == ValidKeys(s, Parent(e.path))
           k == CHOOSE x \in K : TRUE
           ks == [s.keys[k] EXCEPT !.events = AddEvent(@, e)]
<1>1. CASE K # {}
  <2>1. k \in Key
    BY <1>1 DEF ValidKeys
  <2>2. s.keys[k] \in KeyState /\ s.keys[k].events \in Events
    BY <2>1 DEF Service, KeyState, Events
  <2>3. AddEvent(s.keys[k].events, e) \in Events
    BY <2>2, AddEventType
  <2>4. ks \in KeyState
    BY <2>2, <2>3 DEF KeyState, Events
  <2>5. SignalKey(s, k, ks) \in Service
    BY <2>1, <2>4, SignalKeyType
  <2> QED
    BY <1>1, <2>5 DEF Deliver, Watched
<1>2. CASE K = {}
  BY <1>2 DEF Deliver, Watched
<1> QED
  BY <1>1, <1>2

\* Deleting a directory leaves a watch service.
LEMMA InvalidateType ==
    ASSUME NEW s \in Service, NEW p
    PROVE  Invalidate(s, p) \in Service
<1> DEFINE K == ValidKeys(s, p)
           k == CHOOSE x \in K : TRUE
           ks == [s.keys[k] EXCEPT !.valid = FALSE]
<1>1. CASE K # {}
  <2>1. k \in Key
    BY <1>1 DEF ValidKeys
  <2>2. ks \in KeyState
    BY <2>1 DEF Service, KeyState
  <2>3. SignalKey(s, k, ks) \in Service
    BY <2>1, <2>2, SignalKeyType
  <2> QED
    BY <1>1, <2>3 DEF Invalidate, Watched
<1>2. CASE K = {}
  BY <1>2 DEF Invalidate, Watched
<1> QED
  BY <1>1, <1>2

\* Registering a directory, whether or not it has a key, leaves a watch service.
LEMMA RegisteredType ==
    ASSUME NEW s \in Service, NEW p \in Path, CanRegister(s, p)
    PROVE  Registered(s, p) \in Service
<1> DEFINE k == CHOOSE x \in FreeKeys(s) : TRUE
<1>1. [NoKey EXCEPT !.dir = p, !.valid = TRUE] \in KeyState
  BY NoKeyType DEF KeyState
<1>2. CASE Watched(s, p)
  BY <1>2 DEF Registered
<1>3. CASE ~Watched(s, p)
  <2>1. k \in Key
    BY <1>3 DEF CanRegister, FreeKeys
  <2> QED
    BY <1>1, <1>3, <2>1 DEF Registered, Service
<1> QED
  BY <1>2, <1>3

\* Polling the first of the queued keys leaves a watch service.
LEMMA PolledType ==
    ASSUME NEW s \in Service, s.queue # <<>>
    PROVE  Polled(s, Head(s.queue)) \in Service
<1>1. Head(s.queue) \in Key /\ Tail(s.queue) \in Seq(Key)
  BY DEF Service
<1>2. ASSUME NEW k \in Key
      PROVE  [s.keys EXCEPT ![k].events = <<>>] \in [Key -> KeyState]
  <2>1. s.keys \in [Key -> KeyState]
    BY DEF Service
  <2>2. <<>> \in Seq(Event \cup {Overflow})
    OBVIOUS
  <2>3. [s.keys[k] EXCEPT !.events = <<>>] \in KeyState
    BY <2>1, <2>2 DEF KeyState
  <2> QED
    BY <2>1, <2>3
<1> QED
  BY <1>1, <1>2 DEF Polled, Service

\* Resetting a key, valid or not, leaves a watch service.
LEMMA ResetKeyType ==
    ASSUME NEW s \in Service, NEW k \in Key
    PROVE  ResetKey(s, k) \in Service
<1>1. [s EXCEPT !.keys[k] = NoKey] \in Service
  BY NoKeyType DEF Service
<1>2. [s EXCEPT !.keys[k].signalled = FALSE] \in Service
  BY DEF Service, KeyState
<1>3. [s EXCEPT !.queue = Append(@, k)] \in Service
  <2>1. Append(s.queue, k) \in Seq(Key)
    BY DEF Service
  <2> QED
    BY <2>1 DEF Service
<1> QED
  BY <1>1, <1>2, <1>3 DEF ResetKey

\* Closing the service leaves a watch service.
LEMMA ClosedType ==
    ASSUME NEW s \in Service
    PROVE  Closed(s) \in Service
BY DEF Closed, Service, KeyState

\* A new watch service is one.
LEMMA EmptyServiceType == EmptyService \in Service
BY NoKeyType DEF EmptyService, Service
-----------------------------------------------------------------------------
(***************************************************************************)
(* Type correctness.  TypeOK is not inductive alone: Reset needs the key   *)
(* that is being processed to be one, which is what KeyHeld says.          *)
(***************************************************************************)

TypeInv == TypeOK /\ KeyHeld

\* Every variable has its type when DEVMaid starts.
LEMMA TypeInit == Init => TypeInv
<1> SUFFICES ASSUME Init PROVE TypeInv
  OBVIOUS
<1>1. Idle \in [kind : EventKind \cup {"add"}, path : Path]
  BY PathAssumption DEF Idle, Add, EventKind
<1>2. remote \in Tree
  BY DEF Init, Tree, Entry
<1>3. ws \in Service
  BY EmptyServiceType DEF Init
<1>4. <<>> \in Seq(Event \cup {Overflow})
  OBVIOUS
<1>5. 0 \in 0 .. MaxChanges
  BY MaxChangesAssumption
<1>6. TypeOK
  BY <1>1, <1>2, <1>3, <1>4, <1>5 DEF Init, TypeOK, Handler, Stage, Starting
<1>7. KeyHeld
  BY DEF Init, KeyHeld, Handling, Adding
<1> QED
  BY <1>6, <1>7 DEF TypeInv

\* A change by the developer, whatever it is.
LEMMA ChangeType ==
    ASSUME TypeInv, NEW deed, NEW kind, NEW p \in Path,
           NEW entry \in {Absent, Dir} \cup Content,
           Change(deed, kind, p, entry), ws' \in Service
    PROVE  TypeInv'
<1>1. local' \in [Path -> {Absent, Dir} \cup Content]
  BY DEF TypeInv, TypeOK, Change
<1>2. changes' \in 0 .. MaxChanges
  BY MaxChangesAssumption DEF TypeInv, TypeOK, Change
<1>3. unseen' \subseteq Path /\ stale' \subseteq Path
  <2>1. Below(p) \subseteq Path
    BY DEF Below
  <2> QED
    BY <2>1, Zenon DEF TypeInv, TypeOK, Change
<1>4. UNCHANGED <<remote, watched, pc, listed, cur, batch, ev, sent, closed>>
  BY DEF Change
<1>5. TypeOK'
  BY <1>1, <1>2, <1>3, <1>4 DEF TypeInv, TypeOK
<1>6. KeyHeld'
  BY <1>4 DEF TypeInv, KeyHeld
<1> QED
  BY <1>5, <1>6 DEF TypeInv

\* Whatever the developer does to the tree, and the kernel reports of it.
LEMMA DeveloperType ==
    ASSUME TypeInv, Developer
    PROVE  TypeInv'
<1>1. ws \in Service
  BY DEF TypeInv, TypeOK
<1>2. ASSUME NEW kind \in EventKind, NEW p \in Path
      PROVE  Deliver(ws, [kind |-> kind, path |-> p]) \in Service
  BY <1>1, DeliverType DEF Event
<1> USE DEF EventKind
<1>3. ASSUME NEW p \in Path, NEW c \in Content,
             CreateFile(p, c) \/ ReplaceFile(p, c) \/ WriteFile(p, c)
      PROVE  TypeInv'
  <2>1. CASE CreateFile(p, c)
    BY <2>1, <1>2, ChangeType DEF CreateFile
  <2>2. CASE ReplaceFile(p, c)
    BY <2>2, <1>2, ChangeType DEF ReplaceFile
  <2>3. CASE WriteFile(p, c)
    BY <2>3, <1>2, ChangeType DEF WriteFile
  <2> QED
    BY <1>3, <2>1, <2>2, <2>3
<1>4. ASSUME NEW p \in Path, DeleteFile(p)
      PROVE  TypeInv'
  BY <1>4, <1>2, ChangeType DEF DeleteFile
<1>5. ASSUME NEW p \in Path, MakeDirectory(p)
      PROVE  TypeInv'
  BY <1>5, <1>2, ChangeType DEF MakeDirectory
<1>6. ASSUME NEW p \in Path, RemoveDirectory(p)
      PROVE  TypeInv'
  <2>1. ws' \in Service
    BY <1>6, <1>2, InvalidateType DEF RemoveDirectory
  <2> QED
    BY <1>6, <2>1, ChangeType DEF RemoveDirectory
<1> QED
  BY <1>3, <1>4, <1>5, <1>6 DEF Developer

\* Starting leaves the service and the trees alone.
LEMMA StartType ==
    ASSUME TypeInv, Start
    PROVE  TypeInv'
<1> USE DEF Stage, Starting, Adding, Watching, Handling, Stopped
<1>1. CASE ListFiles
  <2>1. filesToLoad \subseteq Path
    BY DEF filesToLoad, deepListFiles, Below
  <2> QED
    BY <1>1, <2>1 DEF TypeInv, TypeOK, KeyHeld, ListFiles, developer, history
<1>2. CASE TestConnections
  BY <1>2 DEF TypeInv, TypeOK, KeyHeld, TestConnections, developer, history
<1>3. CASE AddRoot
  BY <1>3, PathAssumption
  DEF TypeInv, TypeOK, KeyHeld, AddRoot, Add, EventKind, developer, history
<1>4. CASE AddListed
  BY <1>4
  DEF TypeInv, TypeOK, KeyHeld, AddListed, Add, EventKind, developer, history
<1>5. CASE StartWatching
  BY <1>5 DEF TypeInv, TypeOK, KeyHeld, StartWatching, developer, history
<1> QED
  BY <1>1, <1>2, <1>3, <1>4, <1>5 DEF Start

\* addToWatched installs handlers, and registers directories, of the types there are.
LEMMA AddsType ==
    ASSUME TypeInv, Adds
    PROVE  TypeInv'
<1> USE DEF Stage, Starting, Adding, Watching, Handling, Stopped
<1>1. AfterAdding \in {"list", "notify"} /\ (AfterAdding = "notify" => ev.kind # "add")
  BY DEF AfterAdding
<1>2. ASSUME NEW upload \in Handler, NEW removal \in Handler
      PROVE  HandlerFor(upload, removal) \in [Path -> Handler]
  BY DEF HandlerFor, TypeInv, TypeOK
<1>3. CASE Filter
  BY <1>1, <1>3 DEF TypeInv, TypeOK, KeyHeld, Filter, developer, history
<1>4. CASE AddFile
  <2>1. watched' \in [Path -> Handler]
    BY <1>2, <1>4 DEF AddFile, Handler
  <2> QED
    BY <1>1, <1>4, <2>1 DEF TypeInv, TypeOK, KeyHeld, AddFile, developer, history
<1>5. CASE AddDirectory
  BY <1>5 DEF TypeInv, TypeOK, KeyHeld, AddDirectory, developer, history
<1>6. CASE Register
  <2>1. watched' \in [Path -> Handler]
    BY <1>2, <1>6 DEF Register, Handler
  <2>2. ws' \in Service
    BY <1>6, RegisteredType DEF Register, TypeInv, TypeOK
  <2> QED
    BY <1>1, <1>6, <2>1, <2>2
    DEF TypeInv, TypeOK, KeyHeld, Register, developer, history
<1>7. CASE RegisterFails
  BY <1>7 DEF TypeInv, TypeOK, KeyHeld, RegisterFails, developer, history
<1> QED
  BY <1>3, <1>4, <1>5, <1>6, <1>7 DEF Adds

\* The handlers of each kind lead to a stage of theirs.
LEMMA StagesType ==
    /\ \A kind \in EventKind : FirstStage[kind] \in {"check", "notify", "filter"}
    /\ \A h \in Handler : HandlerStage[h] \in {"next", "parent", "mkdir", "remove"}
BY DEF FirstStage, HandlerStage, EventKind, Handler

\* The loop of startWatching takes keys from the queue, events from their list,
\* and gives the service back a key it got from it.
LEMMA WatchType ==
    ASSUME TypeInv, Watch
    PROVE  TypeInv'
<1> USE DEF Stage, Starting, Adding, Watching, Handling, Stopped
<1>1. CASE Poll
  <2>1. ws \in Service /\ ws.queue # <<>> /\ Head(ws.queue) \in Key
    BY <1>1 DEF Poll, TypeInv, TypeOK, Service
  <2>2. ws' \in Service
    BY <1>1, <2>1, PolledType DEF Poll
  <2>3. ASSUME NEW k \in Key
        PROVE  ws.keys[k].events \in Seq(Event \cup {Overflow})
    BY <2>1 DEF Service, KeyState
  <2>4. batch' \in Seq(Event \cup {Overflow})
    BY <1>1, <2>1, <2>3 DEF Poll
  <2>5. cur' \in Key
    BY <1>1, <2>1 DEF Poll
  <2> QED
    BY <1>1, <2>2, <2>4, <2>5 DEF TypeInv, TypeOK, KeyHeld, Poll, developer, history
<1>2. CASE PollClosed
  BY <1>2 DEF TypeInv, TypeOK, KeyHeld, PollClosed, developer, history
<1>3. CASE NextEvent
  <2>1. Head(batch) \in Event /\ Tail(batch) \in Seq(Event \cup {Overflow})
    BY <1>3 DEF NextEvent, TypeInv, TypeOK
  <2>2. /\ Head(batch).kind \in EventKind
        /\ Head(batch) \in [kind : EventKind \cup {"add"}, path : Path]
    BY <2>1 DEF Event
  <2>3. FirstStage[Head(batch).kind] \in {"check", "notify", "filter"}
    BY <2>2, StagesType
  <2>4. Head(batch).kind # "add" /\ cur \in Key
    BY <1>3, <2>2 DEF NextEvent, EventKind, TypeInv, KeyHeld
  <2>5. /\ ev' \in [kind : EventKind \cup {"add"}, path : Path]
        /\ batch' \in Seq(Event \cup {Overflow})
        /\ pc' \in {"check", "notify", "filter"}
        /\ cur' \in Key
    BY <1>3, <2>1, <2>2, <2>3, <2>4 DEF NextEvent
  <2> QED
    BY <1>3, <2>5 DEF TypeInv, TypeOK, KeyHeld, NextEvent, developer, history
<1>4. CASE NextEventFails
  BY <1>4 DEF TypeInv, TypeOK, KeyHeld, NextEventFails, developer, history
<1>5. CASE Reset
  <2>1. cur \in Key /\ ws \in Service
    BY <1>5 DEF Reset, TypeInv, TypeOK, KeyHeld
  <2>2. ws' \in Service
    BY <1>5, <2>1, ResetKeyType DEF Reset
  <2> QED
    BY <1>5, <2>2 DEF TypeInv, TypeOK, KeyHeld, Reset, developer, history
<1>6. CASE Check
  BY <1>6 DEF TypeInv, TypeOK, KeyHeld, Check, developer, history
<1>7. CASE Notify
  <2>1. watched[ev.path] \in Handler
    BY DEF TypeInv, TypeOK
  <2>2. pc' \in {"next", "parent", "mkdir", "remove"}
    BY <1>7, <2>1, StagesType DEF Notify
  <2> QED
    BY <1>7, <2>2 DEF TypeInv, TypeOK, KeyHeld, Notify, developer, history
<1> QED
  BY <1>1, <1>2, <1>3, <1>4, <1>5, <1>6, <1>7 DEF Watch

\* The handlers change the remote tree into one.
LEMMA HandleType ==
    ASSUME TypeInv, Handle
    PROVE  TypeInv'
<1> USE DEF Stage, Starting, Adding, Watching, Handling, Stopped
<1>1. remote \in Tree /\ ev.path \in Path /\ stale \subseteq Path /\ cur \in Key
  BY DEF TypeInv, TypeOK, KeyHeld, Handle, CreateDir, MakeParent, OpenFile,
         CopyFile, RemoveEntry
<1>2. /\ local \in [Path -> {Absent, Dir} \cup Content]
      /\ sent \in Content \cup {Absent}
      /\ Content \subseteq Entry /\ Torn \in Entry
  BY DEF TypeInv, TypeOK, Entry
<1>3. /\ UNCHANGED <<developer, unseen, ws, watched, listed, cur, batch, ev, closed>>
      /\ pc' \in {"dead", "next", "open", "copy"}
      /\ remote' \in Tree
      /\ stale' \subseteq Path
      /\ sent' \in Content \cup {Absent}
  <2>1. CASE CreateDir
    BY <1>1, <1>2, <2>1, MkdirPType DEF CreateDir, CommandFails, InVain, Upto
  <2>2. CASE MakeParent
    <3>1. InVain(Parent(ev.path)) \subseteq Path
      BY DEF InVain, Upto
    <3> QED
      BY <1>1, <1>2, <2>2, <3>1, MkdirPType DEF MakeParent, CommandFails
  <2>3. CASE OpenFile
    <3>1. CatTo(remote, ev.path, Torn) \in Tree
      BY <1>1, <1>2, CatToType
    <3> QED
      BY <1>1, <1>2, <2>3, <3>1 DEF OpenFile
  <2>4. CASE CopyFile
    <3> DEFINE C == {sent} \cup IF local[ev.path] = sent THEN {}
                                ELSE {Torn} \cup ({local[ev.path]} \cap Content)
    <3>1. C \subseteq Entry
      BY <1>2 DEF Entry
    <3>2. \A c \in C : CatTo(remote, ev.path, c) \in Tree
      BY <1>1, <3>1, CatToType
    <3>3. remote' \in Tree
      BY <1>1, <2>4, <3>2 DEF CopyFile
    <3>4. stale' \subseteq Path
      BY <1>1, <2>4 DEF CopyFile
    <3> QED
      BY <2>4, <3>3, <3>4 DEF CopyFile
  <2>5. CASE RemoveEntry
    <3>1. Below(ev.path) \subseteq Path
      BY DEF Below
    <3> QED
      BY <1>1, <1>2, <2>5, <3>1, RmRfType DEF RemoveEntry, CommandFails
  <2> QED
    BY <2>1, <2>2, <2>3, <2>4, <2>5 DEF Handle
<1>4. cur' \in Key
  BY <1>1, <1>3
<1> QED
  BY <1>3, <1>4 DEF TypeInv, TypeOK, KeyHeld, developer

\* Stopping, and starting anew.
LEMMA StopType ==
    ASSUME TypeInv, Close \/ Halt \/ Restart
    PROVE  TypeInv'
<1> USE DEF Stage, Starting, Adding, Watching, Handling, Stopped
<1>1. CASE Close
  <2>1. ws' \in Service
    BY <1>1, ClosedType DEF Close, TypeInv, TypeOK
  <2> QED
    BY <1>1, <2>1 DEF TypeInv, TypeOK, KeyHeld, Close, developer, history
<1>2. CASE Halt
  BY <1>2 DEF TypeInv, TypeOK, KeyHeld, Halt, developer, history
<1>3. CASE Restart
  <2>1. ws' \in Service
    BY <1>3, EmptyServiceType DEF Restart
  <2>2. Idle \in [kind : EventKind \cup {"add"}, path : Path]
    BY PathAssumption DEF Idle, Add
  <2>3. <<>> \in Seq(Event \cup {Overflow})
    OBVIOUS
  <2>4. TypeOK'
    BY <1>3, <2>1, <2>2, <2>3 DEF TypeInv, TypeOK, Restart, developer, Handler
  <2>5. KeyHeld'
    BY <1>3 DEF Restart, KeyHeld
  <2> QED
    BY <2>4, <2>5 DEF TypeInv
<1> QED
  BY <1>1, <1>2, <1>3

\* Every step keeps the types.
LEMMA TypeNext == TypeInv /\ [Next]_vars => TypeInv'
<1>1. ASSUME TypeInv, Next
      PROVE  TypeInv'
  BY <1>1, DeveloperType, StartType, AddsType, WatchType, HandleType, StopType
  DEF Next, Program
<1>2. ASSUME TypeInv, UNCHANGED vars
      PROVE  TypeInv'
  BY <1>2 DEF TypeInv, TypeOK, KeyHeld, vars
<1> QED
  BY <1>1, <1>2

\* Every variable of the synchroniser keeps its type, and a key that is being
\* processed is one of the watch service's until it is reset.
THEOREM TypeCorrect == Spec => []TypeOK
<1>1. TypeInv => TypeOK
  BY DEF TypeInv
<1> QED
  BY <1>1, TypeInit, TypeNext, PTL DEF Spec

-----------------------------------------------------------------------------
(***************************************************************************)
(* Ignored paths.  IgnoredUntouched is about single steps; that they do no *)
(* harm rests on NoneIgnored, which relates the handlers installed earlier *)
(* to the path being handled now.                                          *)
(***************************************************************************)

\* What contains the parent of a path contains the path.
LEMMA UptoParent ==
    ASSUME NEW p \in Path
    PROVE  Upto(Parent(p)) \subseteq Upto(p)
<1> SUFFICES ASSUME NEW d \in Path, IsPrefix(d, Front(p))
             PROVE  IsPrefix(d, p)
  BY DEF Upto, Parent
<1>1. p \in Seq(Name) /\ d \in Seq(Name)
  BY PathAssumption
<1>2. CASE p = <<>>
  <2>1. Len(p) - 1 < 1 /\ Front(p) = <<>>
    BY <1>2 DEF Front
  <2> QED
    BY <1>2, <2>1
<1>3. CASE p # <<>>
  <2>1. /\ Front(p) \in Seq(Name)
        /\ Len(Front(p)) = Len(p) - 1
        /\ \A i \in 1 .. Len(p) - 1 : Front(p)[i] = p[i]
    <3>1. Len(p) \in Nat \ {0} /\ \A i \in 1 .. Len(p) : p[i] \in Name
      BY <1>1, <1>3
    <3>2. Len(p) - 1 \in Int /\ \A i \in 1 .. Len(p) - 1 : p[i] \in Name
      BY <3>1
    <3> DEFINE n == Len(p) - 1
               q == SubSeq(p, 1, n)
    <3>3. /\ n \in Int /\ 1 \in Int
          /\ \A i \in 1 .. n : p[i] \in Name
      BY <3>2
    <3> HIDE DEF n
    <3>4. /\ q \in Seq(Name)
          /\ Len(q) = IF 1 <= n THEN n - 1 + 1 ELSE 0
          /\ \A i \in 1 .. n - 1 + 1 : q[i] = p[1 + i - 1]
      BY <3>3, SubSeqProperties
    <3>5. n \in Nat
      BY <3>1 DEF n
    <3> HIDE DEF q
    <3>6. Len(q) = n
      BY <3>4, <3>5
    <3>7. n - 1 + 1 = n /\ \A i \in 1 .. n : 1 + i - 1 = i
      BY <3>5
    <3>8. \A i \in 1 .. n : q[i] = p[i]
      BY <3>4, <3>7
    <3> QED
      BY <3>4, <3>6, <3>8 DEF Front, n, q
  <2>2. Len(d) <= Len(p) - 1
    BY <2>1 DEF IsPrefix
  <2>3. SubSeq(Front(p), 1, Len(d)) = SubSeq(p, 1, Len(d))
    BY <1>1, <2>1, <2>2
  <2> QED
    BY <1>1, <1>3, <2>2, <2>3 DEF IsPrefix
<1> QED
  BY <1>2, <1>3

\* A path that is not ignored lies in no ignored directory.
LEMMA UptoIgnored ==
    ASSUME NEW p \in Path \ Ignored
    PROVE  Upto(p) \cap Ignored = {}
BY WatchedAssumption DEF Upto, Below

\* NoneIgnored holds when DEVMaid starts: nothing has a handler.
LEMMA NoneIgnoredInit == Init => NoneIgnored
BY WatchedAssumption DEF Init, NoneIgnored, Handling

\* Every step keeps NoneIgnored: a path is looked up in fileTypesToBeIgnored
\* before a handler is installed for it, and only installed handlers are run.
LEMMA NoneIgnoredNext == TypeInv /\ NoneIgnored /\ [Next]_vars => NoneIgnored'
<1> SUFFICES ASSUME TypeInv, NoneIgnored, [Next]_vars
             PROVE  NoneIgnored'
  OBVIOUS
<1> USE DEF Handling
<1>1. ev.path \in Path /\ watched \in [Path -> Handler] /\ Ignored \subseteq Path
  BY WatchedAssumption DEF TypeInv, TypeOK
<1>2. AfterAdding \in {"list", "notify"}
  BY DEF AfterAdding
<1>3. CASE Developer
  BY <1>3 DEF Developer, CreateFile, ReplaceFile, WriteFile, DeleteFile,
              MakeDirectory, RemoveDirectory, Change, NoneIgnored
<1>4. CASE Start
  BY <1>4 DEF Start, ListFiles, TestConnections, AddRoot, AddListed,
              StartWatching, NoneIgnored
<1>5. CASE Adds
  <2>1. CASE Filter
    BY <1>2, <2>1 DEF Filter, isToBeWatched, NoneIgnored
  <2>2. ASSUME NEW u, NEW r, pc \in {"kind", "register"},
               watched' = HandlerFor(u, r)
        PROVE  \A p \in Ignored : watched'[p] = "none"
    BY <1>1, <2>2 DEF HandlerFor, NoneIgnored
  <2>3. CASE AddFile
    BY <1>2, <2>2, <2>3 DEF AddFile, NoneIgnored
  <2>4. CASE AddDirectory
    BY <2>4 DEF AddDirectory, NoneIgnored
  <2>5. CASE Register
    BY <1>2, <2>2, <2>5 DEF Register, NoneIgnored
  <2>6. CASE RegisterFails
    BY <2>6 DEF RegisterFails, NoneIgnored
  <2> QED
    BY <1>5, <2>1, <2>3, <2>4, <2>5, <2>6 DEF Adds
<1>6. CASE Watch
  <2>1. CASE Poll \/ PollClosed \/ NextEventFails \/ Reset \/ Check
    BY <2>1 DEF Poll, PollClosed, NextEventFails, Reset, Check, NoneIgnored
  <2>2. CASE NextEvent
    <3>1. Head(batch).kind \in EventKind
      BY <2>2 DEF NextEvent, TypeInv, TypeOK, Event
    <3>2. pc' \in {"check", "notify", "filter"}
      BY <2>2, <3>1, StagesType DEF NextEvent
    <3> QED
      BY <2>2, <3>2 DEF NextEvent, NoneIgnored
  <2>3. CASE Notify
    <3>1. ev.path \in Ignored => pc' = "next"
      BY <2>3 DEF Notify, NoneIgnored, HandlerStage
    <3> QED
      BY <2>3, <3>1 DEF Notify, NoneIgnored
  <2> QED
    BY <1>6, <2>1, <2>2, <2>3 DEF Watch
<1>7. CASE Handle
  <2>1. UNCHANGED <<watched, ev>> /\ pc \in Handling \ {"notify"}
    BY <1>7 DEF Handle, CreateDir, MakeParent, OpenFile, CopyFile, RemoveEntry
  <2> QED
    BY <2>1 DEF NoneIgnored
<1>8. CASE Close \/ Halt \/ Restart
  BY <1>1, <1>8 DEF Close, Halt, Restart, NoneIgnored
<1>9. CASE UNCHANGED vars
  BY <1>9 DEF vars, NoneIgnored
<1> QED
  BY <1>3, <1>4, <1>5, <1>6, <1>7, <1>8, <1>9 DEF Next, Program

\* Only the handlers change the remote tree.
LEMMA OnlyHandlersWrite ==
    ASSUME [Next]_vars, remote' # remote
    PROVE  Handle
<1>1. ASSUME Developer PROVE remote' = remote
  BY <1>1 DEF Developer, CreateFile, ReplaceFile, WriteFile, DeleteFile,
              MakeDirectory, RemoveDirectory, Change
<1>2. ASSUME Start PROVE remote' = remote
  BY <1>2 DEF Start, ListFiles, TestConnections, AddRoot, AddListed, StartWatching
<1>3. ASSUME Adds PROVE remote' = remote
  BY <1>3 DEF Adds, Filter, AddFile, AddDirectory, Register, RegisterFails
<1>4. ASSUME Watch PROVE remote' = remote
  BY <1>4 DEF Watch, Poll, PollClosed, NextEvent, NextEventFails, Reset, Check, Notify
<1>5. ASSUME Close \/ Halt \/ Restart PROVE remote' = remote
  BY <1>5 DEF Close, Halt, Restart
<1> QED
  BY <1>1, <1>2, <1>3, <1>4, <1>5 DEF Next, Program, vars

\* A step from a state in which nothing ignored is handled leaves the copies of
\* ignored paths alone, unless it is an rm -rf of something not ignored.
LEMMA IgnoredStep ==
    ASSUME TypeInv, NoneIgnored, [Next]_vars, NEW p \in Ignored,
           remote'[p] # remote[p]
    PROVE  RemoveEntry /\ ev.path \notin Ignored
<1>1. Handle /\ ev.path \in Path /\ remote \in Tree /\ p \in Path
  BY OnlyHandlersWrite, WatchedAssumption DEF TypeInv, TypeOK
<1>2. ev.path \notin Ignored
  BY <1>1 DEF Handle, CreateDir, MakeParent, OpenFile, CopyFile, RemoveEntry,
              NoneIgnored, Handling
<1>3. p \notin Upto(ev.path) /\ p \notin Upto(Parent(ev.path)) /\ p # ev.path
  BY <1>1, <1>2, UptoIgnored, UptoParent
<1>4. CASE CreateDir
  BY <1>1, <1>3, <1>4 DEF CreateDir, CommandFails, MkdirP, Tree
<1>5. CASE MakeParent
  BY <1>1, <1>3, <1>5 DEF MakeParent, CommandFails, MkdirP, Tree
<1>6. CASE OpenFile
  BY <1>1, <1>3, <1>6 DEF OpenFile, CatTo, Tree
<1>7. CASE CopyFile
  BY <1>1, <1>3, <1>7 DEF CopyFile, CatTo, Tree
<1> QED
  BY <1>1, <1>2, <1>4, <1>5, <1>6, <1>7 DEF Handle

\* No interleaving of the developer with the watching thread, no handler left
\* from an earlier event and no restart makes DEVMaid write the copy of a path
\* in an ignored directory.
THEOREM IgnoredSafe == Spec => IgnoredUntouched
<1>1. TypeInv /\ NoneIgnored /\ [Next]_vars
        => [\A p \in Ignored : remote'[p] # remote[p] =>
              RemoveEntry /\ ev.path \notin Ignored]_remote
  BY IgnoredStep
<1>2. Spec => []TypeInv
  BY TypeInit, TypeNext, PTL DEF Spec
<1>3. Spec => []NoneIgnored
  BY <1>2, NoneIgnoredInit, NoneIgnoredNext, PTL DEF Spec
<1> QED
  BY <1>1, <1>2, <1>3, PTL DEF Spec, IgnoredUntouched

-----------------------------------------------------------------------------
(***************************************************************************)
(* What the watching thread keeps of an entry fits what the entry is: the  *)
(* proofs of HandlersFit and RemovalsAreUndone, for every tree, every set  *)
(* of keys and every bound.                                                *)
(*                                                                         *)
(* Both are about events that are still to be processed, so the invariant  *)
(* follows an event through the key that collects it, the queue, the batch *)
(* and the stages of its handling, past everything that can merge or drop  *)
(* it: a repeated event, a full list, a key that is deleted with its       *)
(* directory while it is queued or while it is being processed.            *)
(***************************************************************************)

Created(p) == [kind |-> "create", path |-> p]
Deleted(p) == [kind |-> "delete", path |-> p]

\* Every deletion of p in a list is followed by its creation, or by the loss
\* of all events.
Followed(evs, p) ==
    \A i \in DOMAIN evs : evs[i] = Deleted(p) =>
        \E j \in DOMAIN evs : j > i /\ evs[j] \in {Created(p), Overflow}

\* The keys of service s whose events will be processed, c being the one that
\* is being processed.
Live(s, c) ==
    {k \in Key : \/ k \in ToSet(s.queue)
                 \/ k = c /\ s.keys[k].valid}

\* Key k has collected event e, or has lost count of its directory's events.
Tells(s, k, e) ==
    \E x \in ToSet(s.keys[k].events) :
        x = e \/ (x = Overflow /\ s.keys[k].dir = Parent(e.path))

Held(s, c, e) == \E k \in Live(s, c) : Tells(s, k, e)

\* A key that will go on collecting events has e.
HeldValid(s, e) == \E k \in Key : s.keys[k].valid /\ Tells(s, k, e)

\* Every deletion of p that a key holds is followed by its creation, there or
\* in the key that the directory of p has now.
KeysFollowed(s, c, p) ==
    \A k \in Live(s, c) :
        \/ Followed(s.keys[k].events, p)
        \/ ~s.keys[k].valid /\ HeldValid(s, Created(p))

\* Event e is in the batch or held by a key.
Coming(s, c, b, e) == (\E x \in ToSet(b) : x \in {e, Overflow}) \/ Held(s, c, e)

-----------------------------------------------------------------------------
\* The watch service.

\* A directory has one valid key.
OneKey(s) ==
    \A k1, k2 \in Key :
        s.keys[k1].valid /\ s.keys[k2].valid /\ s.keys[k1].dir = s.keys[k2].dir
            => k1 = k2

\* A key is queued once, and not while it is being processed.
QueuedOnce(s, c) ==
    /\ \A m, n \in DOMAIN s.queue : s.queue[m] = s.queue[n] => m = n
    /\ c \notin ToSet(s.queue)

\* A key is signalled from its first event until it is reset.
SignalledOnce(s, c) ==
    \A k \in Key :
        /\ s.keys[k].signalled <=> (k \in ToSet(s.queue) \/ k = c)
        /\ ~s.keys[k].signalled => s.keys[k].events = <<>>

\* A key collects the events of its directory's entries.
OwnEvents(s) ==
    \A k \in Key : \A x \in ToSet(s.keys[k].events) :
        x = Overflow \/ Parent(x.path) = s.keys[k].dir

\* A directory's earlier keys are served before the one it has now.
OldKeysFirst(s) ==
    \A m, n \in DOMAIN s.queue :
        m < n /\ s.keys[s.queue[m]].dir = s.keys[s.queue[n]].dir
            => ~s.keys[s.queue[m]].valid

ServiceInv(s, c) ==
    OneKey(s) /\ QueuedOnce(s, c) /\ SignalledOnce(s, c) /\ OwnEvents(s) /\ OldKeysFirst(s)

-----------------------------------------------------------------------------
\* The thread.

\* What holds at each stage of the thread.
StageInv ==
    /\ pc \in Starting \cup {"poll"} \/ (pc \in Adding /\ ev.kind = "add")
         => cur = NoPath /\ batch = <<>>
    /\ pc \in Watching \/ (pc \in Adding /\ ev.kind # "add") => listed = {}
    /\ pc = "boot" => ws = EmptyService /\ watched = [p \in Path |-> "none"]
    /\ pc = "check" => ev.kind = "create"
    /\ pc = "remove" => watched[ev.path] \in {"removeFile", "removeDir"}

\* The creation of an existing p follows every deletion of it.
DeletionsFollowed(p) ==
    /\ KeysFollowed(ws, cur, p)
    /\ Followed(batch, p) \/ Held(ws, cur, Created(p))
    /\ pc \in Adding /\ ev = Deleted(p) => Coming(ws, cur, batch, Created(p))

\* The creation of p is being processed, its handler still to be installed.
BeingAdded(p) == pc \in {"check"} \cup Adding /\ ev = Created(p)

\* An existing p whose handler would remove it is about to get another.
RemovalIsOld(p) ==
    watched[p] \in {"removeFile", "removeDir"} =>
        Coming(ws, cur, batch, Created(p)) \/ BeingAdded(p)

\* Directory p has a key or is about to get one.
Registering(p) ==
    \/ Watched(ws, p)
    \/ Coming(ws, cur, batch, Created(p)) \/ BeingAdded(p)
    \/ p \in listed \/ (pc \in Adding /\ ev = Add(p))
    \/ pc = "boot" \/ (p = Root /\ pc \in {"connect", "root"})

EntryInv(p) ==
    /\ local[p] # Absent => DeletionsFollowed(p) /\ RemovalIsOld(p)
    /\ IsDirectory(local, p) /\ p \notin Ignored => Registering(p)

\* What is said of entries holds of those whose creation was not missed.
EntriesInv == \A p \in Path \ unseen : EntryInv(p)

Alive == Running /\ ~closed

\* The invariant, which a thread that has stopped need not keep.
HandlersInv ==
    /\ local[Root] = Dir
    /\ Alive => StageInv /\ ServiceInv(ws, cur) /\ EntriesInv

-----------------------------------------------------------------------------
\* Lists of events.

\* What a list with one more element contains.
LEMMA ToSetAppend ==
    ASSUME NEW S, NEW q \in Seq(S), NEW x \in S
    PROVE  ToSet(Append(q, x)) = ToSet(q) \cup {x}
<1>1. /\ Len(Append(q, x)) = Len(q) + 1
      /\ \A m \in 1 .. Len(q) : Append(q, x)[m] = q[m]
      /\ Append(q, x)[Len(q) + 1] = x
  OBVIOUS
<1>2. DOMAIN q = 1 .. Len(q) /\ DOMAIN Append(q, x) = 1 .. Len(q) + 1 /\ Len(q) \in Nat
  BY <1>1
<1>3. DOMAIN Append(q, x) = DOMAIN q \cup {Len(q) + 1}
  BY <1>2
<1> QED
  BY <1>1, <1>2, <1>3 DEF ToSet

\* What a list consists of.
LEMMA ToSetHeadTail ==
    ASSUME NEW S, NEW q \in Seq(S), q # <<>>
    PROVE  /\ ToSet(q) = {Head(q)} \cup ToSet(Tail(q))
           /\ Tail(q) \in Seq(S) /\ Len(Tail(q)) = Len(q) - 1 /\ Len(q) \in Nat \ {0}
           /\ Head(q) = q[1]
           /\ \A m \in 1 .. Len(q) - 1 : Tail(q)[m] = q[m + 1]
<1>1. /\ Tail(q) \in Seq(S) /\ Len(Tail(q)) = Len(q) - 1 /\ Len(q) \in Nat \ {0}
      /\ Head(q) = q[1]
      /\ \A m \in 1 .. Len(q) - 1 : Tail(q)[m] = q[m + 1]
  OBVIOUS
<1>2. /\ DOMAIN q = 1 .. Len(q) /\ DOMAIN Tail(q) = 1 .. Len(q) - 1
  BY <1>1
<1>3. ASSUME NEW m \in DOMAIN q
      PROVE  q[m] = Head(q) \/ \E n \in DOMAIN Tail(q) : q[m] = Tail(q)[n]
  <2>1. CASE m = 1
    BY <1>1, <2>1
  <2>2. CASE m # 1
    <3>1. m - 1 \in 1 .. Len(q) - 1 /\ (m - 1) + 1 = m
      BY <1>1, <1>2, <2>2
    <3>2. Tail(q)[m - 1] = q[m]
      BY <1>1, <3>1
    <3> QED
      BY <1>2, <3>1, <3>2
  <2> QED
    BY <2>1, <2>2
<1>4. \A m \in DOMAIN Tail(q) : m + 1 \in DOMAIN q /\ Tail(q)[m] = q[m + 1]
  BY <1>1, <1>2
<1>5. 1 \in DOMAIN q
  BY <1>1, <1>2
<1>6. ToSet(q) \subseteq {Head(q)} \cup ToSet(Tail(q))
  BY <1>3 DEF ToSet
<1>7. {Head(q)} \cup ToSet(Tail(q)) \subseteq ToSet(q)
  BY <1>1, <1>4, <1>5 DEF ToSet
<1> QED
  BY <1>1, <1>6, <1>7

\* An OVERFLOW is no event of a path.
LEMMA OverflowIsNoEvent ==
    /\ Overflow \notin Event
    /\ \A p \in Path : /\ Created(p) \in Event /\ Deleted(p) \in Event
                       /\ Created(p) # Deleted(p)
                       /\ Created(p) # Overflow /\ Deleted(p) # Overflow
                       /\ Created(p).path = p /\ Deleted(p).path = p
BY DEF Overflow, Event, EventKind, Created, Deleted

\* An added event, and what the list had, is in the list, or else an OVERFLOW;
\* and the list has nothing else.
LEMMA AddEventHolds ==
    ASSUME NEW evs \in Events, NEW e \in Event
    PROVE  /\ \E x \in ToSet(AddEvent(evs, e)) : x \in {e, Overflow}
           /\ \A y \in ToSet(evs) : \E x \in ToSet(AddEvent(evs, e)) : x \in {y, Overflow}
           /\ ToSet(AddEvent(evs, e)) \subseteq ToSet(evs) \cup {e, Overflow}
<1> DEFINE r == AddEvent(evs, e)
<1>1. CASE Repeats(evs, e)
  <2>1. r = evs
    BY <1>1 DEF AddEvent
  <2>2. \E x \in ToSet(evs) : x \in {e, Overflow}
    <3>1. CASE evs # <<>> /\ (Last(evs) = e \/ Last(evs) = Overflow)
      <4>1. Len(evs) \in DOMAIN evs
        BY <3>1 DEF Events
      <4> QED
        BY <3>1, <4>1 DEF Last, ToSet
    <3>2. CASE \E m \in DOMAIN evs : evs[m] = e
      BY <3>2 DEF ToSet
    <3> QED
      BY <1>1, <3>1, <3>2 DEF Repeats
  <2> QED
    BY <2>1, <2>2
<1>2. CASE r = <<Overflow>>
  <2>1. ToSet(<<Overflow>>) = {Overflow}
    BY DEF ToSet
  <2> QED
    BY <1>2, <2>1
<1>3. CASE r = Append(evs, e)
  <2>1. ToSet(r) = ToSet(evs) \cup {e}
    BY <1>3, ToSetAppend DEF Events
  <2> QED
    BY <2>1
<1> QED
  BY <1>1, <1>2, <1>3 DEF AddEvent

\* Whatever is added but the deletion of p itself, p's deletions stay followed.
LEMMA AddEventFollowed ==
    ASSUME NEW evs \in Events, NEW e \in Event, NEW p \in Path,
           e # Deleted(p), Followed(evs, p)
    PROVE  Followed(AddEvent(evs, e), p)
<1>1. CASE AddEvent(evs, e) = evs
  BY <1>1
<1>2. CASE AddEvent(evs, e) = <<Overflow>>
  BY <1>2, OverflowIsNoEvent DEF Followed
<1>3. CASE AddEvent(evs, e) = Append(evs, e)
  <2>1. /\ Len(Append(evs, e)) = Len(evs) + 1
        /\ \A m \in 1 .. Len(evs) : Append(evs, e)[m] = evs[m]
        /\ Append(evs, e)[Len(evs) + 1] = e
        /\ DOMAIN evs = 1 .. Len(evs) /\ DOMAIN Append(evs, e) = 1 .. Len(evs) + 1
        /\ Len(evs) \in Nat
    BY DEF Events
  <2>2. \A m \in DOMAIN Append(evs, e) : m \in DOMAIN evs \/ m = Len(evs) + 1
    BY <2>1
  <2>3. \A m \in DOMAIN evs : m \in DOMAIN Append(evs, e)
    BY <2>1
  <2> QED
    BY <1>3, <2>1, <2>2, <2>3 DEF Followed
<1> QED
  BY <1>1, <1>2, <1>3 DEF AddEvent

\* The creation of p follows every deletion of p before it, merged or not.
LEMMA AddCreatedFollowed ==
    ASSUME NEW evs \in Events, NEW p \in Path
    PROVE  Followed(AddEvent(evs, Created(p)), p)
<1> DEFINE e == Created(p)
<1>1. CASE Repeats(evs, e)
  <2>1. AddEvent(evs, e) = evs
    BY <1>1 DEF AddEvent
  <2>2. evs # <<>> /\ Last(evs) \in {e, Overflow}
    BY <1>1 DEF Repeats, Created
  <2>3. Len(evs) \in DOMAIN evs /\ \A m \in DOMAIN evs : m = Len(evs) \/ m < Len(evs)
    BY <2>2 DEF Events
  <2>4. evs[Len(evs)] \in {e, Overflow}
    BY <2>2 DEF Last
  <2> QED
    BY <2>1, <2>3, <2>4, OverflowIsNoEvent DEF Followed
<1>2. CASE AddEvent(evs, e) = <<Overflow>>
  BY <1>2, OverflowIsNoEvent DEF Followed
<1>3. CASE AddEvent(evs, e) = Append(evs, e)
  <2>1. /\ Append(evs, e)[Len(evs) + 1] = e
        /\ DOMAIN Append(evs, e) = 1 .. Len(evs) + 1
        /\ Len(evs) \in Nat
    BY OverflowIsNoEvent DEF Events
  <2>2. /\ Len(evs) + 1 \in DOMAIN Append(evs, e)
        /\ \A m \in DOMAIN Append(evs, e) : m < Len(evs) + 1 \/ m = Len(evs) + 1
    BY <2>1
  <2> QED
    BY <1>3, <2>1, <2>2, OverflowIsNoEvent DEF Followed
<1> QED
  BY <1>1, <1>2, <1>3 DEF AddEvent

-----------------------------------------------------------------------------
\* Signalling the key that a directory has keeps the service in order, and is
\* the one thing that makes a key live.
LEMMA SignalKeyInv ==
    ASSUME NEW s \in Service, NEW c, NEW k \in Key, NEW ks \in KeyState,
           ServiceInv(s, c), s.keys[k].valid, ks.dir = s.keys[k].dir,
           \A x \in ToSet(ks.events) : x = Overflow \/ Parent(x.path) = ks.dir,
           NEW t, t = SignalKey(s, k, ks)
    PROVE  /\ ServiceInv(t, c)
           /\ \A j \in Key \ {k} : j \in Live(t, c) <=> j \in Live(s, c)
           /\ k \in Live(t, c) <=> (k # c \/ ks.valid)
<1>1. /\ \A j \in Key \ {k} : t.keys[j] = s.keys[j]
      /\ t.keys[k].dir = ks.dir /\ t.keys[k].valid = ks.valid
      /\ t.keys[k].events = ks.events /\ t.keys[k].signalled = TRUE
      /\ t.queue = IF s.keys[k].signalled THEN s.queue ELSE Append(s.queue, k)
  BY DEF SignalKey, Service, KeyState
<1>2. s.queue \in Seq(Key) /\ ToSet(s.queue) \subseteq Key
  BY DEF Service, ToSet
<1>3. s.keys[k].signalled <=> (k \in ToSet(s.queue) \/ k = c)
  BY DEF ServiceInv, SignalledOnce
<1>4. ToSet(t.queue) = ToSet(s.queue) \cup (IF k = c THEN {} ELSE {k})
  <2>1. CASE s.keys[k].signalled
    BY <1>1, <1>3, <2>1 DEF ServiceInv, QueuedOnce
  <2>2. CASE ~s.keys[k].signalled
    BY <1>1, <1>2, <1>3, <2>2, ToSetAppend
  <2> QED
    BY <2>1, <2>2
<1>5. OneKey(t)
  BY <1>1 DEF OneKey, ServiceInv
<1>6. QueuedOnce(t, c)
  <2>1. CASE s.keys[k].signalled
    BY <1>1, <2>1 DEF ServiceInv, QueuedOnce
  <2>2. CASE ~s.keys[k].signalled
    <3>1. /\ DOMAIN t.queue = 1 .. Len(s.queue) + 1 /\ DOMAIN s.queue = 1 .. Len(s.queue)
          /\ Len(s.queue) \in Nat
          /\ \A m \in DOMAIN s.queue : t.queue[m] = s.queue[m]
          /\ t.queue[Len(s.queue) + 1] = k
      BY <1>1, <1>2, <2>2
    <3>2. \A m \in DOMAIN s.queue : s.queue[m] # k
      BY <1>3, <2>2 DEF ToSet
    <3>3. \A m \in DOMAIN t.queue : m \in DOMAIN s.queue \/ m = Len(s.queue) + 1
      BY <3>1
    <3>4. \A m, n \in DOMAIN t.queue : t.queue[m] = t.queue[n] => m = n
      BY <3>1, <3>2, <3>3 DEF ServiceInv, QueuedOnce
    <3>5. c \notin ToSet(t.queue)
      BY <1>3, <1>4, <2>2 DEF ServiceInv, QueuedOnce
    <3> QED
      BY <3>4, <3>5 DEF QueuedOnce
  <2> QED
    BY <2>1, <2>2
<1>7. SignalledOnce(t, c)
  BY <1>1, <1>3, <1>4 DEF ServiceInv, SignalledOnce
<1>8. OwnEvents(t)
  BY <1>1 DEF ServiceInv, OwnEvents
<1>9. OldKeysFirst(t)
  <2>1. \A j \in Key : t.keys[j].dir = s.keys[j].dir /\ (t.keys[j].valid => s.keys[j].valid)
    BY <1>1
  <2>2. CASE s.keys[k].signalled
    BY <1>1, <1>2, <2>1, <2>2 DEF ServiceInv, OldKeysFirst, ToSet
  <2>3. CASE ~s.keys[k].signalled
    <3>1. /\ DOMAIN t.queue = 1 .. Len(s.queue) + 1 /\ DOMAIN s.queue = 1 .. Len(s.queue)
          /\ Len(s.queue) \in Nat
          /\ \A m \in DOMAIN s.queue : t.queue[m] = s.queue[m] /\ s.queue[m] \in Key
          /\ t.queue[Len(s.queue) + 1] = k
      BY <1>1, <1>2, <2>3
    <3>2. \A m \in DOMAIN s.queue : s.queue[m] # k
      BY <1>3, <2>3 DEF ToSet
    <3> SUFFICES ASSUME NEW m \in DOMAIN t.queue, NEW n \in DOMAIN t.queue, m < n,
                        t.keys[t.queue[m]].dir = t.keys[t.queue[n]].dir
                 PROVE  ~t.keys[t.queue[m]].valid
      BY DEF OldKeysFirst
    <3>3. m \in DOMAIN s.queue
      BY <3>1
    <3>4. CASE n \in DOMAIN s.queue
      <4>1. s.queue[m] \in Key /\ s.queue[n] \in Key
            /\ t.queue[m] = s.queue[m] /\ t.queue[n] = s.queue[n]
        BY <3>1, <3>3, <3>4
      <4>2. ~s.keys[s.queue[m]].valid
        BY <2>1, <3>3, <3>4, <4>1 DEF ServiceInv, OldKeysFirst
      <4> QED
        BY <2>1, <4>1, <4>2
    <3>5. CASE n = Len(s.queue) + 1
      <4>1. s.keys[s.queue[m]].dir = s.keys[k].dir /\ s.queue[m] # k /\ s.queue[m] \in Key
        BY <2>1, <3>1, <3>2, <3>3, <3>5
      <4> QED
        BY <2>1, <3>1, <3>3, <4>1 DEF ServiceInv, OneKey
    <3> QED
      BY <3>1, <3>4, <3>5
  <2> QED
    BY <2>2, <2>3
<1>10. \A j \in Key \ {k} : j \in Live(t, c) <=> j \in Live(s, c)
  BY <1>1, <1>4 DEF Live
<1>11. k \in Live(t, c) <=> (k # c \/ ks.valid)
  <2>1. k # c => k \in ToSet(t.queue)
    BY <1>4
  <2>2. k = c => k \notin ToSet(t.queue)
    BY <1>6 DEF QueuedOnce
  <2> QED
    BY <1>1, <2>1, <2>2 DEF Live
<1> QED
  BY <1>5, <1>6, <1>7, <1>8, <1>9, <1>10, <1>11 DEF ServiceInv

\* What a delivered event finds in a directory that is watched: its one key.
LEMMA DeliverFacts ==
    ASSUME NEW s \in Service, NEW c, ServiceInv(s, c), NEW e \in Event,
           Watched(s, Parent(e.path)), NEW t, t = Deliver(s, e)
    PROVE  /\ t \in Service /\ ServiceInv(t, c)
           /\ \E k \in Key :
                /\ s.keys[k].valid /\ s.keys[k].dir = Parent(e.path)
                /\ t.keys[k].valid /\ t.keys[k].dir = Parent(e.path)
                /\ t.keys[k].events = AddEvent(s.keys[k].events, e)
                /\ \A j \in Key \ {k} : t.keys[j] = s.keys[j]
                /\ Live(t, c) = Live(s, c) \cup {k}
<1> DEFINE K == ValidKeys(s, Parent(e.path))
           k == CHOOSE x \in K : TRUE
           ks == [s.keys[k] EXCEPT !.events = AddEvent(@, e)]
<1>1. k \in Key /\ s.keys[k].valid /\ s.keys[k].dir = Parent(e.path)
  BY DEF ValidKeys, Watched
<1>2. s.keys[k] \in KeyState /\ s.keys[k].events \in Events
  BY <1>1 DEF Service, KeyState, Events
<1>3. AddEvent(s.keys[k].events, e) \in Events
  BY <1>2, AddEventType
<1>4. /\ ks \in KeyState /\ ks.dir = s.keys[k].dir /\ ks.valid = s.keys[k].valid
      /\ ks.events = AddEvent(s.keys[k].events, e)
  BY <1>2, <1>3 DEF KeyState, Events
<1>5. t = SignalKey(s, k, ks)
  BY DEF Deliver
<1> HIDE DEF ks, k
<1>6. \A x \in ToSet(ks.events) : x = Overflow \/ Parent(x.path) = ks.dir
  <2>1. ToSet(ks.events) \subseteq ToSet(s.keys[k].events) \cup {e, Overflow}
    BY <1>2, <1>4, AddEventHolds
  <2> QED
    BY <1>1, <1>4, <2>1 DEF ServiceInv, OwnEvents
<1>7. /\ ServiceInv(t, c)
      /\ \A j \in Key \ {k} : j \in Live(t, c) <=> j \in Live(s, c)
      /\ k \in Live(t, c) <=> (k # c \/ ks.valid)
  BY <1>1, <1>4, <1>5, <1>6, SignalKeyInv
<1>8. /\ \A j \in Key \ {k} : t.keys[j] = s.keys[j]
      /\ t.keys[k].dir = ks.dir /\ t.keys[k].valid = ks.valid
      /\ t.keys[k].events = ks.events
  <2>1. t.keys = [s.keys EXCEPT ![k] = [ks EXCEPT !.signalled = TRUE]]
    BY <1>5 DEF SignalKey
  <2>2. \A j \in Key \ {k} : t.keys[j] = s.keys[j]
    BY <2>1 DEF Service
  <2>3. t.keys[k] = [ks EXCEPT !.signalled = TRUE]
    BY <1>1, <2>1 DEF Service
  <2>4. t.keys[k].dir = ks.dir /\ t.keys[k].events = ks.events
    BY <1>4, <2>3 DEF KeyState
  <2>5. t.keys[k].valid = ks.valid
    BY <1>4, <2>3 DEF KeyState
  <2> QED
    BY <2>2, <2>4, <2>5
<1>9. t \in Service
  BY DeliverType
<1>10. Live(t, c) = Live(s, c) \cup {k}
  <2>1. Live(t, c) \subseteq Key /\ Live(s, c) \subseteq Key
    BY DEF Live
  <2>2. k \in Live(t, c)
    BY <1>1, <1>4, <1>7
  <2> QED
    BY <1>1, <1>7, <2>1, <2>2
<1> QED
  BY <1>1, <1>4, <1>7, <1>8, <1>9, <1>10

\* A delivered event is held, and everything that was held still is.
LEMMA DeliverHolds ==
    ASSUME NEW s \in Service, NEW c, ServiceInv(s, c), NEW e \in Event,
           NEW t, t = Deliver(s, e)
    PROVE  /\ t \in Service /\ ServiceInv(t, c)
           /\ Watched(s, Parent(e.path)) => Held(t, c, e) /\ HeldValid(t, e)
           /\ \A x \in Event : Held(s, c, x) => Held(t, c, x)
           /\ \A x \in Event : HeldValid(s, x) => HeldValid(t, x)
           /\ \A a : Watched(s, a) => Watched(t, a)
<1>1. CASE ~Watched(s, Parent(e.path))
  BY <1>1 DEF Deliver
<1>2. CASE Watched(s, Parent(e.path))
  <2>1. PICK k \in Key :
          /\ s.keys[k].valid /\ s.keys[k].dir = Parent(e.path)
          /\ t.keys[k].valid /\ t.keys[k].dir = Parent(e.path)
          /\ t.keys[k].events = AddEvent(s.keys[k].events, e)
          /\ \A j \in Key \ {k} : t.keys[j] = s.keys[j]
          /\ Live(t, c) = Live(s, c) \cup {k}
    BY <1>2, DeliverFacts
  <2>2. t \in Service /\ ServiceInv(t, c)
    BY <1>2, DeliverFacts
  <2>3. s.keys[k].events \in Events
    BY DEF Service, KeyState, Events
  <2>4. Tells(t, k, e)
    BY <2>1, <2>3, AddEventHolds DEF Tells
  <2>5. ASSUME NEW x \in Event, Tells(s, k, x)
        PROVE  Tells(t, k, x)
    <3>1. PICK y \in ToSet(s.keys[k].events) :
            y = x \/ (y = Overflow /\ s.keys[k].dir = Parent(x.path))
      BY <2>5 DEF Tells
    <3>2. Parent(x.path) = s.keys[k].dir
      BY <3>1, OverflowIsNoEvent DEF ServiceInv, OwnEvents
    <3>3. PICK z \in ToSet(t.keys[k].events) : z \in {y, Overflow}
      BY <2>1, <2>3, AddEventHolds
    <3> QED
      BY <2>1, <3>1, <3>2, <3>3 DEF Tells
  <2>7. ASSUME NEW x \in Event, NEW j \in Key, Tells(s, j, x)
        PROVE  Tells(t, j, x)
    <3>1. CASE j = k
      BY <2>5, <2>7, <3>1
    <3>2. CASE j # k
      BY <2>1, <2>7, <3>2 DEF Tells
    <3> QED
      BY <3>1, <3>2
  <2>8. \A j \in Key : s.keys[j].valid /\ t.keys[j].dir = s.keys[j].dir => t.keys[j].valid
    BY <2>1
  <2>9. \A j \in Key : t.keys[j].dir = s.keys[j].dir
    BY <2>1
  <2>10. Held(t, c, e) /\ HeldValid(t, e)
    BY <2>1, <2>4 DEF Held, HeldValid
  <2>11. \A x \in Event : Held(s, c, x) => Held(t, c, x)
    <3>1. Live(s, c) \subseteq Key
      BY DEF Live
    <3> QED
      BY <2>1, <2>7, <3>1 DEF Held
  <2>12. \A x \in Event : HeldValid(s, x) => HeldValid(t, x)
    BY <2>7, <2>8, <2>9 DEF HeldValid
  <2>13. \A a : Watched(s, a) => Watched(t, a)
    BY <2>8, <2>9 DEF Watched, ValidKeys
  <2> QED
    BY <2>2, <2>10, <2>11, <2>12, <2>13
<1> QED
  BY <1>1, <1>2

\* The deletions that keys hold stay followed, unless p's own is delivered.
LEMMA DeliverFollowed ==
    ASSUME NEW s \in Service, NEW c, ServiceInv(s, c), NEW e \in Event,
           NEW t, t = Deliver(s, e), NEW p \in Path, e # Deleted(p),
           KeysFollowed(s, c, p) \/ (e = Created(p) /\ Watched(s, Parent(p)))
    PROVE  KeysFollowed(t, c, p)
<1>1. CASE ~Watched(s, Parent(e.path))
  BY <1>1, OverflowIsNoEvent DEF Deliver
<1>2. CASE Watched(s, Parent(e.path))
  <2>1. PICK k \in Key :
          /\ s.keys[k].valid /\ s.keys[k].dir = Parent(e.path)
          /\ t.keys[k].valid /\ t.keys[k].dir = Parent(e.path)
          /\ t.keys[k].events = AddEvent(s.keys[k].events, e)
          /\ \A j \in Key \ {k} : t.keys[j] = s.keys[j]
          /\ Live(t, c) = Live(s, c) \cup {k}
    BY <1>2, DeliverFacts
  <2>2. /\ Watched(s, Parent(e.path)) => HeldValid(t, e)
        /\ \A x \in Event : HeldValid(s, x) => HeldValid(t, x)
    BY DeliverHolds
  <2>3. s.keys[k].events \in Events
    BY DEF Service, KeyState, Events
  <2> SUFFICES ASSUME NEW j \in Live(t, c)
               PROVE  \/ Followed(t.keys[j].events, p)
                      \/ ~t.keys[j].valid /\ HeldValid(t, Created(p))
    BY DEF KeysFollowed
  <2>4. CASE e = Created(p)
    <3>1. CASE j = k
      BY <2>1, <2>3, <2>4, <3>1, AddCreatedFollowed
    <3>2. CASE j # k
      <4>1. j \in Key /\ t.keys[j] = s.keys[j]
        BY <2>1, <3>2 DEF Live
      <4>2. CASE s.keys[j].valid
        <5>1. s.keys[j].dir # Parent(p)
          BY <2>1, <2>4, <3>2, <4>1, <4>2, OverflowIsNoEvent DEF ServiceInv, OneKey
        <5>2. Deleted(p) \notin ToSet(s.keys[j].events)
          BY <4>1, <5>1, OverflowIsNoEvent DEF ServiceInv, OwnEvents
        <5> QED
          BY <4>1, <5>2 DEF Followed, ToSet
      <4>3. CASE ~s.keys[j].valid
        BY <1>2, <2>2, <2>4, <4>1, <4>3
      <4> QED
        BY <4>2, <4>3
    <3> QED
      BY <3>1, <3>2
  <2>5. CASE e # Created(p)
    <3>1. KeysFollowed(s, c, p)
      BY <2>5
    <3>2. CASE j = k
      <4>1. Followed(s.keys[k].events, p)
        <5>1. CASE k \in Live(s, c)
          BY <2>1, <3>1, <5>1 DEF KeysFollowed
        <5>2. CASE k \notin Live(s, c)
          <6>1. s.keys[k].events = <<>>
            BY <2>1, <5>2 DEF Live, ServiceInv, SignalledOnce
          <6> QED
            BY <6>1 DEF Followed
        <5> QED
          BY <5>1, <5>2
      <4> QED
        BY <2>1, <2>3, <3>2, <4>1, AddEventFollowed
    <3>3. CASE j # k
      <4>1. j \in Live(s, c) /\ j \in Key /\ t.keys[j] = s.keys[j]
        BY <2>1, <3>3 DEF Live
      <4> QED
        BY <2>2, <3>1, <4>1, OverflowIsNoEvent DEF KeysFollowed
    <3> QED
      BY <3>2, <3>3
  <2> QED
    BY <2>4, <2>5
<1> QED
  BY <1>1, <1>2

-----------------------------------------------------------------------------
\* Of a directory that is gone, the key is served once more if it is not being
\* processed just then; only events of the directory's own entries are lost.
LEMMA InvalidateHolds ==
    ASSUME NEW s \in Service, NEW c, ServiceInv(s, c), NEW a \in Path,
           NEW t, t = Invalidate(s, a)
    PROVE  /\ t \in Service /\ ServiceInv(t, c)
           /\ \A x \in Event : Parent(x.path) # a /\ Held(s, c, x) => Held(t, c, x)
           /\ \A p \in Path : Parent(p) # a /\ KeysFollowed(s, c, p) => KeysFollowed(t, c, p)
           /\ \A b : b # a /\ Watched(s, b) => Watched(t, b)
<1>1. CASE ~Watched(s, a)
  BY <1>1 DEF Invalidate
<1>2. CASE Watched(s, a)
  <2> DEFINE K == ValidKeys(s, a)
             k == CHOOSE x \in K : TRUE
             ks == [s.keys[k] EXCEPT !.valid = FALSE]
  <2>1. k \in Key /\ s.keys[k].valid /\ s.keys[k].dir = a
    BY <1>2 DEF ValidKeys, Watched
  <2>2. s.keys[k] \in KeyState
    BY <2>1 DEF Service
  <2>3. /\ ks \in KeyState /\ ks.dir = s.keys[k].dir /\ ~ks.valid
        /\ ks.events = s.keys[k].events
    BY <2>2 DEF KeyState
  <2>4. t = SignalKey(s, k, ks)
    BY <1>2 DEF Invalidate
  <2> HIDE DEF ks, k
  <2>5. /\ ServiceInv(t, c)
        /\ \A j \in Key \ {k} : j \in Live(t, c) <=> j \in Live(s, c)
    <3>1. \A x \in ToSet(ks.events) : x = Overflow \/ Parent(x.path) = ks.dir
      BY <2>1, <2>3 DEF ServiceInv, OwnEvents
    <3> QED
      BY <2>1, <2>3, <2>4, <3>1, SignalKeyInv
  <2>6. \A j \in Key \ {k} : t.keys[j] = s.keys[j]
    <3>1. t.keys = [s.keys EXCEPT ![k] = [ks EXCEPT !.signalled = TRUE]]
      BY <2>4 DEF SignalKey
    <3> QED
      BY <3>1 DEF Service
  <2>7. t.keys[k].dir = a /\ t.keys[k].events = s.keys[k].events /\ ~t.keys[k].valid
    <3>1. t.keys = [s.keys EXCEPT ![k] = [ks EXCEPT !.signalled = TRUE]]
      BY <2>4 DEF SignalKey
    <3>2. t.keys[k] = [ks EXCEPT !.signalled = TRUE]
      BY <2>1, <3>1 DEF Service
    <3>3. t.keys[k].dir = ks.dir /\ t.keys[k].events = ks.events
      BY <2>3, <3>2 DEF KeyState
    <3>4. ~t.keys[k].valid
      BY <2>3, <3>2 DEF KeyState
    <3> QED
      BY <2>1, <2>3, <3>3, <3>4
  <2>8. t \in Service
    BY InvalidateType
  <2>9. \A x \in Event : Parent(x.path) # a => ~Tells(s, k, x)
    BY <2>1, OverflowIsNoEvent DEF Tells, ServiceInv, OwnEvents
  <2>10. ASSUME NEW j \in Key, j # k, NEW x
         PROVE  Tells(s, j, x) => Tells(t, j, x)
    BY <2>6, <2>10 DEF Tells
  <2>11. \A x \in Event : Parent(x.path) # a /\ Held(s, c, x) => Held(t, c, x)
    <3> SUFFICES ASSUME NEW x \in Event, Parent(x.path) # a, Held(s, c, x)
                 PROVE  Held(t, c, x)
      OBVIOUS
    <3>1. PICK j \in Live(s, c) : Tells(s, j, x)
      BY DEF Held
    <3>2. j \in Key /\ j # k
      BY <2>9, <3>1 DEF Live
    <3> QED
      BY <2>5, <2>10, <3>1, <3>2 DEF Held
  <2>12. \A x \in Event : Parent(x.path) # a /\ HeldValid(s, x) => HeldValid(t, x)
    <3> SUFFICES ASSUME NEW x \in Event, Parent(x.path) # a, HeldValid(s, x)
                 PROVE  HeldValid(t, x)
      OBVIOUS
    <3>1. PICK j \in Key : s.keys[j].valid /\ Tells(s, j, x)
      BY DEF HeldValid
    <3>2. j # k
      BY <2>9, <3>1
    <3>3. t.keys[j].valid /\ Tells(t, j, x)
      BY <2>6, <2>10, <3>1, <3>2
    <3> QED
      BY <3>3 DEF HeldValid
  <2>13. ASSUME NEW p \in Path, Parent(p) # a, KeysFollowed(s, c, p)
         PROVE  KeysFollowed(t, c, p)
    <3> SUFFICES ASSUME NEW j \in Live(t, c)
                 PROVE  \/ Followed(t.keys[j].events, p)
                        \/ ~t.keys[j].valid /\ HeldValid(t, Created(p))
      BY DEF KeysFollowed
    <3>1. j \in Key
      BY DEF Live
    <3>2. CASE j = k
      <4>1. CASE k \in Live(s, c)
        BY <2>1, <2>7, <2>13, <3>2, <4>1 DEF KeysFollowed
      <4>2. CASE k \notin Live(s, c)
        <5>1. s.keys[k].events = <<>>
          BY <2>1, <4>2 DEF Live, ServiceInv, SignalledOnce
        <5> QED
          BY <2>7, <3>2, <5>1 DEF Followed
      <4> QED
        BY <4>1, <4>2
    <3>3. CASE j # k
      <4>1. j \in Live(s, c) /\ t.keys[j] = s.keys[j]
        BY <2>5, <2>6, <3>1, <3>3
      <4>2. HeldValid(s, Created(p)) => HeldValid(t, Created(p))
        BY <2>12, <2>13, OverflowIsNoEvent
      <4> QED
        BY <2>13, <4>1, <4>2 DEF KeysFollowed
    <3> QED
      BY <3>2, <3>3
  <2>14. \A b : b # a /\ Watched(s, b) => Watched(t, b)
    <3> SUFFICES ASSUME NEW b, b # a, NEW j \in Key,
                        s.keys[j].valid, s.keys[j].dir = b
                 PROVE  t.keys[j].valid /\ t.keys[j].dir = b
      BY DEF Watched, ValidKeys
    <3>1. j # k
      BY <2>1
    <3> QED
      BY <2>6, <3>1
  <2> QED
    BY <2>5, <2>8, <2>11, <2>13, <2>14
<1> QED
  BY <1>1, <1>2

\* A newly registered directory is watched, and nothing else changes.
LEMMA RegisteredHolds ==
    ASSUME NEW s \in Service, NEW c, ServiceInv(s, c), NEW a \in Path,
           CanRegister(s, a), NEW t, t = Registered(s, a)
    PROVE  /\ t \in Service /\ ServiceInv(t, c) /\ Watched(t, a)
           /\ \A x \in Event : Held(s, c, x) => Held(t, c, x)
           /\ \A p \in Path : KeysFollowed(s, c, p) => KeysFollowed(t, c, p)
           /\ \A b : Watched(s, b) => Watched(t, b)
<1>1. CASE Watched(s, a)
  BY <1>1 DEF Registered
<1>2. CASE ~Watched(s, a)
  <2> DEFINE k == CHOOSE x \in FreeKeys(s) : TRUE
             new == [NoKey EXCEPT !.dir = a, !.valid = TRUE]
  <2>1. k \in Key /\ s.keys[k] = NoKey
    BY <1>2 DEF CanRegister, FreeKeys
  <2>2. /\ new.dir = a /\ new.valid = TRUE /\ new.signalled = FALSE /\ new.events = <<>>
    BY DEF NoKey
  <2>3. t = [s EXCEPT !.keys[k] = new]
    BY <1>2 DEF Registered
  <2> HIDE DEF k, new
  <2>4. /\ t.queue = s.queue
        /\ \A j \in Key \ {k} : t.keys[j] = s.keys[j]
        /\ t.keys[k] = new
    BY <2>1, <2>3 DEF Service
  <2>5. ~s.keys[k].valid /\ ~s.keys[k].signalled /\ s.keys[k].events = <<>>
    BY <2>1 DEF NoKey
  <2>6. k \notin ToSet(s.queue) /\ k # c
    BY <2>1, <2>5 DEF ServiceInv, SignalledOnce
  <2>7. t \in Service
    BY RegisteredType
  <2>8. \A j \in Key : s.keys[j].valid => s.keys[j].dir # a
    BY <1>2 DEF Watched, ValidKeys
  <2>9. \A m \in DOMAIN s.queue : s.queue[m] # k
    BY <2>6 DEF ToSet
  <2>10. ServiceInv(t, c)
    <3>1. OneKey(t)
      BY <2>2, <2>4, <2>8 DEF ServiceInv, OneKey
    <3>2. QueuedOnce(t, c)
      BY <2>4 DEF ServiceInv, QueuedOnce
    <3>3. SignalledOnce(t, c)
      BY <2>2, <2>4, <2>6 DEF ServiceInv, SignalledOnce
    <3>4. OwnEvents(t)
      BY <2>2, <2>4 DEF ServiceInv, OwnEvents, ToSet
    <3>5. OldKeysFirst(t)
      <4>1. \A m \in DOMAIN s.queue : s.queue[m] \in Key
        BY DEF Service
      <4>2. \A m \in DOMAIN s.queue : t.keys[s.queue[m]] = s.keys[s.queue[m]]
        BY <2>4, <2>9, <4>1
      <4> QED
        BY <2>4, <4>2 DEF ServiceInv, OldKeysFirst
    <3> QED
      BY <3>1, <3>2, <3>3, <3>4, <3>5 DEF ServiceInv
  <2>11. Live(t, c) = Live(s, c) /\ k \notin Live(s, c)
    BY <2>4, <2>6 DEF Live
  <2>12. ASSUME NEW j \in Live(s, c)
         PROVE  j \in Key /\ t.keys[j] = s.keys[j]
    BY <2>4, <2>11 DEF Live
  <2>13. \A x \in Event : Held(s, c, x) => Held(t, c, x)
    BY <2>11, <2>12 DEF Held, Tells
  <2>14. \A x : HeldValid(s, x) => HeldValid(t, x)
    <3> SUFFICES ASSUME NEW x, NEW j \in Key, s.keys[j].valid, Tells(s, j, x)
                 PROVE  t.keys[j].valid /\ Tells(t, j, x)
      BY DEF HeldValid
    <3>1. j # k
      BY <2>5
    <3>2. t.keys[j] = s.keys[j]
      BY <2>4, <3>1
    <3> QED
      BY <3>2 DEF Tells
  <2>15. \A p \in Path : KeysFollowed(s, c, p) => KeysFollowed(t, c, p)
    BY <2>11, <2>12, <2>14 DEF KeysFollowed
  <2>16. Watched(t, a)
    BY <2>1, <2>2, <2>4 DEF Watched, ValidKeys
  <2>17. \A b : Watched(s, b) => Watched(t, b)
    <3> SUFFICES ASSUME NEW b, NEW j \in Key, s.keys[j].valid, s.keys[j].dir = b
                 PROVE  t.keys[j].valid /\ t.keys[j].dir = b
      BY DEF Watched, ValidKeys
    <3>1. j # k
      BY <2>5
    <3> QED
      BY <2>4, <3>1
  <2> QED
    BY <2>7, <2>10, <2>13, <2>15, <2>16, <2>17
<1> QED
  BY <1>1, <1>2

-----------------------------------------------------------------------------
\* Polling a key takes its events into the batch: what it held is in the batch,
\* and deletions there that their creations do not follow are of a directory
\* whose later key holds those.
LEMMA PolledHolds ==
    ASSUME NEW s \in Service, NEW c, c \notin Key, ServiceInv(s, c), s.queue # <<>>,
           NEW k, k = Head(s.queue), NEW t, t = Polled(s, k),
           NEW b, b = s.keys[k].events
    PROVE  /\ t \in Service /\ ServiceInv(t, k) /\ k \in Key
           /\ \A x \in Event : Held(s, c, x) => Coming(t, k, b, x)
           /\ \A p \in Path : KeysFollowed(s, c, p) =>
                /\ KeysFollowed(t, k, p)
                /\ Followed(b, p) \/ Held(t, k, Created(p))
           /\ \A a : Watched(s, a) => Watched(t, a)
<1>1. s.queue \in Seq(Key) /\ ToSet(s.queue) \subseteq Key
  BY DEF Service, ToSet
<1>2. /\ ToSet(s.queue) = {k} \cup ToSet(Tail(s.queue))
      /\ Tail(s.queue) \in Seq(Key) /\ Len(Tail(s.queue)) = Len(s.queue) - 1
      /\ Len(s.queue) \in Nat \ {0}
      /\ k = s.queue[1]
      /\ \A m \in 1 .. Len(s.queue) - 1 : Tail(s.queue)[m] = s.queue[m + 1]
  BY <1>1, ToSetHeadTail
<1>3. k \in Key
  BY <1>1, <1>2
<1>4. /\ t.queue = Tail(s.queue)
      /\ \A j \in Key \ {k} : t.keys[j] = s.keys[j]
      /\ t.keys[k] = [s.keys[k] EXCEPT !.events = <<>>]
  BY <1>3 DEF Polled, Service
<1>5. /\ t.keys[k].dir = s.keys[k].dir
      /\ t.keys[k].events = <<>>
  BY <1>3, <1>4 DEF Service, KeyState
<1>6. /\ t.keys[k].valid <=> s.keys[k].valid
      /\ t.keys[k].signalled <=> s.keys[k].signalled
  BY <1>3, <1>4 DEF Service, KeyState
<1>7. t \in Service
  BY PolledType
<1>8. /\ DOMAIN s.queue = 1 .. Len(s.queue)
      /\ DOMAIN t.queue = 1 .. Len(s.queue) - 1
  <2>1. t.queue \in Seq(Key) /\ Len(t.queue) = Len(s.queue) - 1
    BY <1>2, <1>4
  <2>2. DOMAIN t.queue = 1 .. Len(t.queue)
    BY <2>1
  <2> QED
    BY <1>1, <2>1, <2>2
<1>9. /\ 1 \in DOMAIN s.queue
      /\ \A m \in DOMAIN t.queue : m + 1 \in DOMAIN s.queue /\ t.queue[m] = s.queue[m + 1]
      /\ \A m \in DOMAIN t.queue : 1 # m + 1 /\ 1 < m + 1
  <2>1. \A m \in 1 .. Len(s.queue) - 1 : m + 1 \in 1 .. Len(s.queue) /\ 1 # m + 1 /\ 1 < m + 1
    BY <1>2
  <2>2. \A m \in DOMAIN t.queue : t.queue[m] = s.queue[m + 1]
    BY <1>2, <1>4, <1>8
  <2> QED
    BY <1>2, <1>8, <2>1, <2>2
<1>10. k \notin ToSet(t.queue)
  <2> SUFFICES ASSUME NEW m \in DOMAIN t.queue
               PROVE  t.queue[m] # k
    BY DEF ToSet
  <2>1. s.queue[m + 1] # s.queue[1]
    BY <1>9 DEF ServiceInv, QueuedOnce
  <2> QED
    BY <1>2, <1>9, <2>1
<1>11. ToSet(s.queue) = {k} \cup ToSet(t.queue)
  BY <1>2, <1>4
<1>12. ServiceInv(t, k)
  <2>1. OneKey(t)
    BY <1>4, <1>5, <1>6 DEF ServiceInv, OneKey
  <2>2. QueuedOnce(t, k)
    <3> SUFFICES ASSUME NEW m \in DOMAIN t.queue, NEW n \in DOMAIN t.queue,
                        t.queue[m] = t.queue[n]
                 PROVE  m = n
      BY <1>10 DEF QueuedOnce
    <3>1. m + 1 = n + 1
      BY <1>9 DEF ServiceInv, QueuedOnce
    <3> QED
      BY <1>8, <3>1
  <2>3. SignalledOnce(t, k)
    <3> SUFFICES ASSUME NEW j \in Key
                 PROVE  /\ t.keys[j].signalled <=> (j \in ToSet(t.queue) \/ j = k)
                        /\ ~t.keys[j].signalled => t.keys[j].events = <<>>
      BY DEF SignalledOnce
    <3>1. CASE j = k
      BY <1>5, <1>6, <1>11, <3>1 DEF ServiceInv, SignalledOnce
    <3>2. CASE j # k
      BY <1>4, <1>11, <3>2 DEF ServiceInv, SignalledOnce
    <3> QED
      BY <3>1, <3>2
  <2>4. OwnEvents(t)
    <3> SUFFICES ASSUME NEW j \in Key, NEW x \in ToSet(t.keys[j].events)
                 PROVE  x = Overflow \/ Parent(x.path) = t.keys[j].dir
      BY DEF OwnEvents
    <3>1. j # k
      BY <1>5 DEF ToSet
    <3> QED
      BY <1>4, <3>1 DEF ServiceInv, OwnEvents
  <2>5. OldKeysFirst(t)
    <3> SUFFICES ASSUME NEW m \in DOMAIN t.queue, NEW n \in DOMAIN t.queue, m < n,
                        t.keys[t.queue[m]].dir = t.keys[t.queue[n]].dir
                 PROVE  ~t.keys[t.queue[m]].valid
      BY DEF OldKeysFirst
    <3>1. /\ m + 1 \in DOMAIN s.queue /\ n + 1 \in DOMAIN s.queue /\ m + 1 < n + 1
          /\ t.queue[m] = s.queue[m + 1] /\ t.queue[n] = s.queue[n + 1]
      BY <1>8, <1>9
    <3>2. /\ t.queue[m] \in Key \ {k} /\ t.queue[n] \in Key \ {k}
      BY <1>1, <1>10, <1>11 DEF ToSet
    <3> QED
      BY <1>4, <3>1, <3>2 DEF ServiceInv, OldKeysFirst
  <2> QED
    BY <2>1, <2>2, <2>3, <2>4, <2>5 DEF ServiceInv
<1>13. \A j \in Key \ {k} : j \in Live(s, c) <=> j \in Live(t, k)
  BY <1>11 DEF Live
<1>14. \A x \in Event : Held(s, c, x) => Coming(t, k, b, x)
  <2> SUFFICES ASSUME NEW x \in Event, Held(s, c, x)
               PROVE  Coming(t, k, b, x)
    OBVIOUS
  <2>1. PICK j \in Live(s, c) : Tells(s, j, x)
    BY DEF Held
  <2>2. CASE j = k
    <3>1. \E y \in ToSet(b) : y \in {x, Overflow}
      BY <2>1, <2>2 DEF Tells
    <3> QED
      BY <3>1 DEF Coming
  <2>3. CASE j # k
    <3>1. j \in Live(t, k) /\ t.keys[j] = s.keys[j]
      BY <1>4, <1>13, <2>3 DEF Live
    <3>2. Tells(t, j, x)
      BY <2>1, <3>1 DEF Tells
    <3> QED
      BY <3>1, <3>2 DEF Coming, Held
  <2> QED
    BY <2>2, <2>3
<1>15. ASSUME NEW p \in Path, KeysFollowed(s, c, p)
       PROVE  /\ KeysFollowed(t, k, p)
              /\ Followed(b, p) \/ Held(t, k, Created(p))
  <2>1. ASSUME NEW j \in Key, s.keys[j].valid, Tells(s, j, Created(p)), j # k
        PROVE  t.keys[j].valid /\ Tells(t, j, Created(p)) /\ j \in Live(t, k)
    <3>1. t.keys[j] = s.keys[j]
      BY <1>4, <2>1
    <3>2. Tells(t, j, Created(p))
      BY <2>1, <3>1 DEF Tells
    <3>3. s.keys[j].events # <<>>
      BY <2>1 DEF Tells, ToSet
    <3>4. j \in ToSet(s.queue)
      BY <2>1, <3>3 DEF ServiceInv, SignalledOnce
    <3> QED
      BY <1>11, <2>1, <3>1, <3>2, <3>4 DEF Live
  <2>2. KeysFollowed(t, k, p)
    <3> SUFFICES ASSUME NEW j \in Live(t, k), ~Followed(t.keys[j].events, p)
                 PROVE  ~t.keys[j].valid /\ HeldValid(t, Created(p))
      BY DEF KeysFollowed
    <3>1. j \in Key /\ j # k
      BY <1>5 DEF Live, Followed
    <3>2. j \in Live(s, c) /\ t.keys[j] = s.keys[j] /\ j \in ToSet(s.queue)
      BY <1>4, <1>11, <1>13, <3>1 DEF Live
    <3>3. ~s.keys[j].valid /\ HeldValid(s, Created(p))
      BY <1>15, <3>2 DEF KeysFollowed
    <3>4. PICK v \in Key : s.keys[v].valid /\ Tells(s, v, Created(p))
      BY <3>3 DEF HeldValid
    <3>5. s.keys[j].dir = Parent(p)
      <4>1. Deleted(p) \in ToSet(s.keys[j].events)
        BY <3>2 DEF Followed, ToSet
      <4> QED
        BY <3>1, <4>1, OverflowIsNoEvent DEF ServiceInv, OwnEvents
    <3>6. s.keys[v].dir = Parent(p)
      BY <3>4, OverflowIsNoEvent DEF Tells, ServiceInv, OwnEvents
    <3>7. v # k
      <4>1. PICK n \in DOMAIN s.queue : s.queue[n] = j
        BY <3>2 DEF ToSet
      <4>2. 1 < n
        BY <1>2, <1>8, <3>1, <4>1
      <4> QED
        BY <1>2, <1>9, <3>4, <3>5, <3>6, <4>1, <4>2 DEF ServiceInv, OldKeysFirst
    <3>8. t.keys[v].valid /\ Tells(t, v, Created(p))
      BY <2>1, <3>4, <3>7
    <3> QED
      BY <3>2, <3>3, <3>8 DEF HeldValid
  <2>3. Followed(b, p) \/ Held(t, k, Created(p))
    <3> SUFFICES ASSUME ~Followed(b, p)
                 PROVE  Held(t, k, Created(p))
      OBVIOUS
    <3>1. k \in Live(s, c)
      BY <1>3, <1>11 DEF Live
    <3>2. ~s.keys[k].valid /\ HeldValid(s, Created(p))
      BY <1>15, <3>1 DEF KeysFollowed
    <3>3. PICK v \in Key : s.keys[v].valid /\ Tells(s, v, Created(p))
      BY <3>2 DEF HeldValid
    <3>4. v # k
      BY <3>2, <3>3
    <3> QED
      BY <2>1, <3>3, <3>4 DEF Held
  <2> QED
    BY <2>2, <2>3
<1>16. \A a : Watched(s, a) => Watched(t, a)
  BY <1>4, <1>5, <1>6 DEF Watched, ValidKeys
<1> QED
  BY <1>3, <1>7, <1>12, <1>14, <1>15, <1>16

\* Resetting a key keeps everything that was held: an invalid key was not.
LEMMA ResetKeyHolds ==
    ASSUME NEW s \in Service, NEW k \in Key, ServiceInv(s, k),
           NEW c, c \notin Key, NEW t, t = ResetKey(s, k)
    PROVE  /\ t \in Service /\ ServiceInv(t, c)
           /\ \A x \in Event : Held(s, k, x) => Held(t, c, x)
           /\ \A p \in Path : KeysFollowed(s, k, p) => KeysFollowed(t, c, p)
           /\ \A a : Watched(s, a) => Watched(t, a)
<1>1. s.queue \in Seq(Key) /\ ToSet(s.queue) \subseteq Key /\ c \notin ToSet(s.queue)
  BY DEF Service, ToSet
<1>2. k \notin ToSet(s.queue) /\ \A m \in DOMAIN s.queue : s.queue[m] # k
  BY DEF ServiceInv, QueuedOnce, ToSet
<1>3. t \in Service
  BY ResetKeyType
<1>4. \A j \in Key \ {k} : t.keys[j] = s.keys[j]
  BY DEF ResetKey, Service
<1>5. CASE s.keys[k].valid /\ s.keys[k].events # <<>>
  <2>1. t.keys = s.keys /\ t.queue = Append(s.queue, k)
    BY <1>5 DEF ResetKey, Service
  <2>2. ToSet(t.queue) = ToSet(s.queue) \cup {k}
    BY <1>1, <2>1, ToSetAppend
  <2>3. /\ DOMAIN t.queue = 1 .. Len(s.queue) + 1 /\ DOMAIN s.queue = 1 .. Len(s.queue)
        /\ Len(s.queue) \in Nat
        /\ \A m \in DOMAIN s.queue : t.queue[m] = s.queue[m] /\ s.queue[m] \in Key
        /\ t.queue[Len(s.queue) + 1] = k
    BY <1>1, <2>1
  <2>4. \A m \in DOMAIN t.queue : m \in DOMAIN s.queue \/ m = Len(s.queue) + 1
    BY <2>3
  <2>5. QueuedOnce(t, c)
    <3>1. \A m, n \in DOMAIN t.queue : t.queue[m] = t.queue[n] => m = n
      BY <1>2, <2>3, <2>4 DEF ServiceInv, QueuedOnce
    <3> QED
      BY <1>1, <2>2, <3>1 DEF QueuedOnce
  <2>6. SignalledOnce(t, c)
    BY <2>1, <2>2 DEF ServiceInv, SignalledOnce
  <2>7. OldKeysFirst(t)
    <3> SUFFICES ASSUME NEW m \in DOMAIN t.queue, NEW n \in DOMAIN t.queue, m < n,
                        s.keys[t.queue[m]].dir = s.keys[t.queue[n]].dir
                 PROVE  ~s.keys[t.queue[m]].valid
      BY <2>1 DEF OldKeysFirst
    <3>1. m \in DOMAIN s.queue
      BY <2>3
    <3>2. CASE n \in DOMAIN s.queue
      BY <2>3, <3>1, <3>2 DEF ServiceInv, OldKeysFirst
    <3>3. CASE n = Len(s.queue) + 1
      BY <1>2, <1>5, <2>3, <3>1, <3>3 DEF ServiceInv, OneKey
    <3> QED
      BY <2>4, <3>2, <3>3
  <2>8. ServiceInv(t, c)
    BY <2>1, <2>5, <2>6, <2>7 DEF ServiceInv, OneKey, OwnEvents
  <2>9. Live(t, c) = Live(s, k)
    BY <1>2, <1>5, <2>1, <2>2 DEF Live
  <2> QED
    BY <1>3, <2>1, <2>8, <2>9 DEF Held, Tells, KeysFollowed, HeldValid, Watched, ValidKeys
<1>6. CASE s.keys[k].valid /\ s.keys[k].events = <<>>
  <2>1. t.queue = s.queue /\ t.keys = [s.keys EXCEPT ![k].signalled = FALSE]
    BY <1>6 DEF ResetKey, Service
  <2>2. t.keys[k] = [s.keys[k] EXCEPT !.signalled = FALSE]
    BY <2>1 DEF Service
  <2>3. t.keys[k].dir = s.keys[k].dir /\ t.keys[k].events = <<>>
    BY <1>6, <2>2 DEF Service, KeyState
  <2>4. t.keys[k].valid /\ ~t.keys[k].signalled
    BY <1>6, <2>2 DEF Service, KeyState
  <2>5. OneKey(t)
    BY <1>4, <1>6, <2>3, <2>4 DEF ServiceInv, OneKey
  <2>6. QueuedOnce(t, c)
    BY <1>1, <2>1 DEF ServiceInv, QueuedOnce
  <2>7. SignalledOnce(t, c)
    BY <1>2, <1>4, <2>1, <2>3, <2>4 DEF ServiceInv, SignalledOnce
  <2>8. OwnEvents(t)
    BY <1>4, <2>3 DEF ServiceInv, OwnEvents, ToSet
  <2>9. OldKeysFirst(t)
    <3>1. \A m \in DOMAIN s.queue : t.keys[s.queue[m]] = s.keys[s.queue[m]]
      BY <1>1, <1>2, <1>4
    <3> QED
      BY <2>1, <3>1 DEF ServiceInv, OldKeysFirst
  <2>10. ServiceInv(t, c)
    BY <2>5, <2>6, <2>7, <2>8, <2>9 DEF ServiceInv
  <2>11. Live(t, c) = Live(s, k) \ {k}
    BY <1>2, <2>1 DEF Live
  <2>12. \A x : ~Tells(s, k, x)
    BY <1>6 DEF Tells, ToSet
  <2>14. \A x \in Event : Held(s, k, x) => Held(t, c, x)
    <3>1. Live(s, k) \subseteq Key
      BY DEF Live
    <3>2. ASSUME NEW x \in Event, NEW j \in Live(s, k), Tells(s, j, x)
          PROVE  j \in Live(t, c) /\ Tells(t, j, x)
      <4>1. j # k
        BY <2>12, <3>2
      <4>2. t.keys[j] = s.keys[j]
        BY <1>4, <3>1, <4>1
      <4> QED
        BY <2>11, <3>2, <4>1, <4>2 DEF Tells
    <3> QED
      BY <3>2 DEF Held
  <2>15. \A x : HeldValid(s, x) => HeldValid(t, x)
    <3> SUFFICES ASSUME NEW x, NEW j \in Key, s.keys[j].valid, Tells(s, j, x)
                 PROVE  t.keys[j].valid /\ Tells(t, j, x)
      BY DEF HeldValid
    <3>1. j # k
      BY <2>12
    <3>2. t.keys[j] = s.keys[j]
      BY <1>4, <3>1
    <3> QED
      BY <3>2 DEF Tells
  <2>16. \A p \in Path : KeysFollowed(s, k, p) => KeysFollowed(t, c, p)
    <3>1. \A j \in Live(t, c) : j \in Live(s, k) /\ t.keys[j] = s.keys[j]
      BY <1>4, <2>11 DEF Live
    <3> QED
      BY <2>15, <3>1 DEF KeysFollowed
  <2>17. \A a : Watched(s, a) => Watched(t, a)
    BY <1>4, <2>3, <2>4 DEF Watched, ValidKeys
  <2> QED
    BY <1>3, <2>10, <2>14, <2>16, <2>17
<1>7. CASE ~s.keys[k].valid
  <2>1. t.queue = s.queue /\ t.keys = [s.keys EXCEPT ![k] = NoKey]
    BY <1>7 DEF ResetKey, Service
  <2>2. t.keys[k] = NoKey
    BY <2>1 DEF Service
  <2>3. ~t.keys[k].valid /\ ~t.keys[k].signalled /\ t.keys[k].events = <<>>
    BY <2>2 DEF NoKey
  <2>4. OneKey(t)
    BY <1>4, <2>3 DEF ServiceInv, OneKey
  <2>5. QueuedOnce(t, c)
    BY <1>1, <2>1 DEF ServiceInv, QueuedOnce
  <2>6. SignalledOnce(t, c)
    BY <1>2, <1>4, <2>1, <2>3 DEF ServiceInv, SignalledOnce
  <2>7. OwnEvents(t)
    BY <1>4, <2>3 DEF ServiceInv, OwnEvents, ToSet
  <2>8. \A m \in DOMAIN s.queue : t.keys[s.queue[m]] = s.keys[s.queue[m]]
    BY <1>1, <1>2, <1>4
  <2>9. OldKeysFirst(t)
    BY <2>1, <2>8 DEF ServiceInv, OldKeysFirst
  <2>10. ServiceInv(t, c)
    BY <2>4, <2>5, <2>6, <2>7, <2>9 DEF ServiceInv
  <2>11. Live(t, c) = Live(s, k)
    BY <1>1, <1>2, <1>7, <2>1 DEF Live
  <2>12. \A j \in Live(s, k) : j \in Key /\ t.keys[j] = s.keys[j]
    BY <1>2, <1>4, <1>7 DEF Live
  <2>13. \A x \in Event : Held(s, k, x) => Held(t, c, x)
    BY <2>11, <2>12 DEF Held, Tells
  <2>14. \A x : HeldValid(s, x) => HeldValid(t, x)
    <3> SUFFICES ASSUME NEW x, NEW j \in Key, s.keys[j].valid, Tells(s, j, x)
                 PROVE  t.keys[j].valid /\ Tells(t, j, x)
      BY DEF HeldValid
    <3>1. t.keys[j] = s.keys[j]
      BY <1>4, <1>7
    <3> QED
      BY <3>1 DEF Tells
  <2>15. \A p \in Path : KeysFollowed(s, k, p) => KeysFollowed(t, c, p)
    BY <2>11, <2>12, <2>14 DEF KeysFollowed
  <2>16. \A a : Watched(s, a) => Watched(t, a)
    <3> SUFFICES ASSUME NEW a, NEW j \in Key, s.keys[j].valid, s.keys[j].dir = a
                 PROVE  t.keys[j].valid /\ t.keys[j].dir = a
      BY DEF Watched, ValidKeys
    <3> QED
      BY <1>4, <1>7
  <2> QED
    BY <1>3, <2>10, <2>13, <2>15, <2>16
<1> QED
  BY <1>5, <1>6, <1>7

-----------------------------------------------------------------------------
(***************************************************************************)
(* The developer's changes.                                                *)
(***************************************************************************)

\* A new service holds nothing.
LEMMA EmptyServiceHolds ==
    /\ Live(EmptyService, NoPath) = {}
    /\ ServiceInv(EmptyService, NoPath)
    /\ \A p : KeysFollowed(EmptyService, NoPath, p)
    /\ \A p : ~Watched(EmptyService, p)
<1>1. /\ EmptyService.queue = <<>> /\ ToSet(EmptyService.queue) = {}
      /\ \A k \in Key : EmptyService.keys[k] = NoKey
  BY DEF EmptyService, ToSet
<1>2. ~NoKey.valid /\ ~NoKey.signalled /\ NoKey.events = <<>> /\ ToSet(NoKey.events) = {}
  BY DEF NoKey, ToSet
<1>3. NoPath \notin Key
  BY NoPathAssumption
<1>4. Live(EmptyService, NoPath) = {}
  BY <1>1, <1>3 DEF Live
<1>5. ServiceInv(EmptyService, NoPath)
  BY <1>1, <1>2, <1>3
  DEF ServiceInv, OneKey, QueuedOnce, SignalledOnce, OwnEvents, OldKeysFirst
<1>6. \A p : ~Watched(EmptyService, p)
  BY <1>1, <1>2 DEF Watched, ValidKeys
<1> QED
  BY <1>4, <1>5, <1>6 DEF KeysFollowed

\* An entry that is still what it was, all events of it being kept.
LEMMA EntryKept ==
    ASSUME NEW p \in Path, EntryInv(p), local[p] # Absent,
           IsDirectory(local', p) => IsDirectory(local, p),
           UNCHANGED <<watched, pc, listed, cur, batch, ev>>,
           Held(ws, cur, Created(p)) => Held(ws', cur, Created(p)),
           KeysFollowed(ws, cur, p) => KeysFollowed(ws', cur, p),
           IsDirectory(local', p) /\ Watched(ws, p) => Watched(ws', p)
    PROVE  EntryInv(p)'
<1>1. Coming(ws, cur, batch, Created(p)) => Coming(ws', cur', batch', Created(p))
  BY DEF Coming
<1>2. DeletionsFollowed(p)'
  BY <1>1 DEF EntryInv, DeletionsFollowed
<1>3. RemovalIsOld(p)'
  BY <1>1 DEF EntryInv, RemovalIsOld, BeingAdded
<1>4. IsDirectory(local', p) /\ p \notin Ignored => Registering(p)'
  BY <1>1 DEF EntryInv, Registering, BeingAdded
<1> QED
  BY <1>2, <1>3, <1>4 DEF EntryInv

\* An entry whose creation is held.
LEMMA EntryCreated ==
    ASSUME NEW p \in Path, Held(ws, cur, Created(p)), KeysFollowed(ws, cur, p)
    PROVE  EntryInv(p)
BY DEF EntryInv, DeletionsFollowed, RemovalIsOld, Registering, Coming

\* An entry made before the first directory is registered.
LEMMA EntryAtBoot ==
    ASSUME NEW p \in Path, pc = "boot", StageInv
    PROVE  EntryInv(p)
<1>1. /\ batch = <<>> /\ cur = NoPath /\ ws = EmptyService
      /\ watched[p] = "none"
  BY DEF StageInv, Starting
<1>2. KeysFollowed(ws, cur, p) /\ Followed(batch, p)
  BY <1>1, EmptyServiceHolds DEF Followed
<1> QED
  BY <1>1, <1>2
  DEF EntryInv, DeletionsFollowed, RemovalIsOld, Registering, Adding

\* A change of which the kernel tells the key of the directory, if there is one.
LEMMA ChangeHandlers ==
    ASSUME TypeInv, StageInv, ServiceInv(ws, cur), EntriesInv,
           NEW deed, NEW kind, NEW p \in Path, p # Root, NEW entry,
           Change(deed, kind, p, entry),
           ServiceInv(ws', cur), pc = "boot" => ws' = ws,
           \A q \in Path : local'[q] # Absent =>
               /\ Held(ws, cur, Created(q)) => Held(ws', cur, Created(q))
               /\ KeysFollowed(ws, cur, q) => KeysFollowed(ws', cur, q)
               /\ Watched(ws, q) => Watched(ws', q),
           kind = "create" /\ Watched(ws, Parent(p)) =>
               Held(ws', cur, Created(p)) /\ KeysFollowed(ws', cur, p),
           local[p] = Absent => kind = "create",
           entry = Dir => local[p] = Absent
    PROVE  (StageInv /\ ServiceInv(ws, cur) /\ EntriesInv)'
<1>1. UNCHANGED <<remote, watched, pc, listed, cur, batch, ev, sent, closed>>
  BY DEF Change
<1>2. /\ local'[p] = entry
      /\ \A q \in Path \ {p} : local'[q] = local[q]
  BY DEF Change, TypeInv, TypeOK
<1>3. StageInv'
  BY <1>1 DEF StageInv, Starting, Adding, Watching, Handling
<1>4. ASSUME NEW q \in Path, q \notin unseen'
      PROVE  EntryInv(q)'
  <2>1. CASE local'[q] = Absent
    BY <2>1 DEF EntryInv, IsDirectory, Absent, Dir
  <2>2. CASE local'[q] # Absent /\ q # p
    <3>1. q \notin unseen
      BY <1>4, <2>2 DEF Change
    <3>2. EntryInv(q) /\ local'[q] = local[q]
      BY <1>2, <2>2, <3>1 DEF EntriesInv
    <3> QED
      BY <1>1, <2>2, <3>2, EntryKept DEF IsDirectory
  <2>3. CASE local'[q] # Absent /\ q = p
    <3>1. entry # Absent
      BY <1>2, <2>3
    <3>2. CASE kind = "create" /\ Watched(ws, Parent(p))
      <4>1. Held(ws', cur', Created(p)) /\ KeysFollowed(ws', cur', p)
        BY <1>1, <3>2
      <4>2. (Held(ws, cur, Created(p)) /\ KeysFollowed(ws, cur, p) => EntryInv(p))'
        BY EntryCreated, PTL
      <4> QED
        BY <2>3, <4>1, <4>2
    <3>3. CASE ~(kind = "create" /\ Watched(ws, Parent(p))) /\ local[p] = Absent
      <4>1. pc = "boot"
        BY <1>4, <2>3, <3>1, <3>3 DEF Change
      <4>2. (pc = "boot" /\ StageInv => EntryInv(p))'
        BY EntryAtBoot, PTL
      <4> QED
        BY <1>1, <1>3, <2>3, <4>1, <4>2
    <3>4. CASE ~(kind = "create" /\ Watched(ws, Parent(p))) /\ local[p] # Absent
      <4>1. p \notin unseen
        BY <1>4, <2>3, <3>1, <3>4 DEF Change
      <4>2. EntryInv(p)
        BY <4>1 DEF EntriesInv
      <4>3. ~IsDirectory(local', p)
        BY <1>2, <3>4 DEF IsDirectory
      <4> QED
        BY <1>1, <2>3, <3>4, <4>2, <4>3, EntryKept
    <3> QED
      BY <3>2, <3>3, <3>4
  <2> QED
    BY <2>1, <2>2, <2>3
<1> QED
  BY <1>1, <1>3, <1>4 DEF EntriesInv

\* Whatever the developer does.
LEMMA DeveloperHandlers ==
    ASSUME TypeInv, local[Root] = Dir, StageInv, ServiceInv(ws, cur), EntriesInv,
           Developer
    PROVE  (StageInv /\ ServiceInv(ws, cur) /\ EntriesInv)'
<1>1. /\ ws \in Service
      /\ local \in [Path -> {Absent, Dir} \cup Content]
      /\ local[Root] = Dir
      /\ pc = "boot" => ws = EmptyService
  BY DEF TypeInv, TypeOK, StageInv
<1>2. Dir \notin Content /\ Absent \notin Content
  BY ContentAssumption
<1>3. \A p : Deliver(EmptyService, p) = EmptyService /\ Invalidate(EmptyService, p) = EmptyService
  BY EmptyServiceHolds DEF Deliver, Invalidate
<1>4. ASSUME NEW deed, NEW kind \in {"create", "modify"}, NEW p \in Path, p # Root,
             NEW entry, Change(deed, kind, p, entry),
             ws' = Deliver(ws, [kind |-> kind, path |-> p]),
             local[p] = Absent => kind = "create",
             entry = Dir => local[p] = Absent
      PROVE  (StageInv /\ ServiceInv(ws, cur) /\ EntriesInv)'
  <2> DEFINE e == [kind |-> kind, path |-> p]
  <2>1. e \in Event /\ e.path = p /\ e.kind = kind /\ \A q : e # Deleted(q)
    BY DEF Event, EventKind, Deleted
  <2>2. kind = "create" => e = Created(p)
    BY DEF Created
  <2>3. ws' = Deliver(ws, e)
    BY <1>4
  <2> HIDE DEF e
  <2>4. /\ ServiceInv(ws', cur)
        /\ Watched(ws, Parent(p)) => Held(ws', cur, e)
        /\ \A x \in Event : Held(ws, cur, x) => Held(ws', cur, x)
        /\ \A a : Watched(ws, a) => Watched(ws', a)
    BY <1>1, <2>1, <2>3, DeliverHolds
  <2>5. \A q \in Path : KeysFollowed(ws, cur, q) => KeysFollowed(ws', cur, q)
    BY <1>1, <2>1, <2>3, DeliverFollowed
  <2>6. kind = "create" /\ Watched(ws, Parent(p)) => KeysFollowed(ws', cur, p)
    BY <1>1, <2>1, <2>2, <2>3, DeliverFollowed
  <2>7. \A q \in Path : Created(q) \in Event
    BY OverflowIsNoEvent
  <2>8. pc = "boot" => ws' = ws
    BY <1>1, <1>3, <2>3
  <2> QED
    BY <1>4, <2>2, <2>4, <2>5, <2>6, <2>7, <2>8, ChangeHandlers
<1>5. ASSUME NEW p \in Path, DeleteFile(p)
      PROVE  (StageInv /\ ServiceInv(ws, cur) /\ EntriesInv)'
  <2> DEFINE e == [kind |-> "delete", path |-> p]
  <2>1. e \in Event /\ e.path = p /\ e = Deleted(p)
    BY OverflowIsNoEvent DEF Deleted
  <2>2. /\ ws' = Deliver(ws, e) /\ Change("delete", "delete", p, Absent)
        /\ p # Root /\ local[p] # Absent
    BY <1>1, <1>2, <1>5 DEF DeleteFile
  <2> HIDE DEF e
  <2>3. /\ ServiceInv(ws', cur)
        /\ \A x \in Event : Held(ws, cur, x) => Held(ws', cur, x)
        /\ \A a : Watched(ws, a) => Watched(ws', a)
    BY <1>1, <2>1, <2>2, DeliverHolds
  <2>4. ASSUME NEW q \in Path, local'[q] # Absent, KeysFollowed(ws, cur, q)
        PROVE  KeysFollowed(ws', cur, q)
    <3>1. q # p
      BY <1>1, <2>2, <2>4 DEF Change
    <3>2. e # Deleted(q)
      BY <2>1, <3>1 DEF Deleted
    <3> QED
      BY <1>1, <2>1, <2>2, <2>4, <3>2, DeliverFollowed
  <2>5. \A q \in Path : Created(q) \in Event
    BY OverflowIsNoEvent
  <2>6. pc = "boot" => ws' = ws
    BY <1>1, <1>3, <2>2
  <2>7. Absent # Dir /\ "delete" # "create"
    BY DEF Absent, Dir
  <2> QED
    BY <2>2, <2>3, <2>4, <2>5, <2>6, <2>7, ChangeHandlers
<1>6. ASSUME NEW p \in Path, RemoveDirectory(p)
      PROVE  (StageInv /\ ServiceInv(ws, cur) /\ EntriesInv)'
  <2> DEFINE e == [kind |-> "delete", path |-> p]
             t == Deliver(ws, e)
  <2>1. e \in Event /\ e.path = p /\ e = Deleted(p)
    BY OverflowIsNoEvent DEF Deleted
  <2>2. /\ ws' = Invalidate(t, p) /\ Change("rmdir", "delete", p, Absent)
        /\ p # Root /\ local[p] # Absent /\ Children(local, p) = {}
    BY <1>6 DEF RemoveDirectory, IsDirectory, Absent, Dir
  <2>3. /\ t \in Service /\ ServiceInv(t, cur)
        /\ \A x \in Event : Held(ws, cur, x) => Held(t, cur, x)
        /\ \A a : Watched(ws, a) => Watched(t, a)
    BY <1>1, <2>1, DeliverHolds
  <2>4. \A q \in Path : e # Deleted(q) /\ KeysFollowed(ws, cur, q) => KeysFollowed(t, cur, q)
    BY <1>1, <2>1, DeliverFollowed
  <2>5. pc = "boot" => ws' = ws
    BY <1>1, <1>3, <2>2
  <2> HIDE DEF e, t
  <2>6. /\ ServiceInv(ws', cur)
        /\ \A x \in Event : Parent(x.path) # p /\ Held(t, cur, x) => Held(ws', cur, x)
        /\ \A q \in Path : Parent(q) # p /\ KeysFollowed(t, cur, q) => KeysFollowed(ws', cur, q)
        /\ \A b : b # p /\ Watched(t, b) => Watched(ws', b)
    BY <2>2, <2>3, InvalidateHolds
  <2>7. ASSUME NEW q \in Path, local'[q] # Absent
        PROVE  /\ Created(q) \in Event /\ Created(q).path = q
               /\ q # p /\ Parent(q) # p /\ e # Deleted(q)
    <3>1. q # p /\ local'[q] = local[q]
      BY <1>1, <2>2, <2>7 DEF Change
    <3>2. q # Root => Parent(q) # p
      BY <2>2, <2>7, <3>1 DEF Children
    <3>3. Parent(Root) = Root
      BY DEF Parent, Front, Root
    <3> QED
      BY <2>1, <2>2, <3>1, <3>2, <3>3, OverflowIsNoEvent DEF Deleted
  <2>8. Absent # Dir /\ "delete" # "create"
    BY DEF Absent, Dir
  <2> QED
    BY <2>2, <2>3, <2>4, <2>5, <2>6, <2>7, <2>8, ChangeHandlers
<1>7. ASSUME NEW p \in Path, NEW c \in Content,
             CreateFile(p, c) \/ ReplaceFile(p, c) \/ WriteFile(p, c)
      PROVE  (StageInv /\ ServiceInv(ws, cur) /\ EntriesInv)'
  <2>1. c # Dir /\ p # Root
    BY <1>1, <1>2, <1>7 DEF CreateFile, ReplaceFile, WriteFile
  <2>2. CASE CreateFile(p, c)
    BY <1>4, <2>1, <2>2 DEF CreateFile
  <2>3. CASE ReplaceFile(p, c)
    BY <1>4, <2>1, <2>3 DEF ReplaceFile
  <2>4. CASE WriteFile(p, c)
    BY <1>2, <1>4, <2>1, <2>4 DEF WriteFile
  <2> QED
    BY <1>7, <2>2, <2>3, <2>4
<1>8. ASSUME NEW p \in Path, MakeDirectory(p)
      PROVE  (StageInv /\ ServiceInv(ws, cur) /\ EntriesInv)'
  BY <1>4, <1>8 DEF MakeDirectory
<1> QED
  BY <1>5, <1>6, <1>7, <1>8 DEF Developer

\* The source root stays.
LEMMA RootKept ==
    ASSUME TypeInv, local[Root] = Dir, [Next]_vars
    PROVE  local'[Root] = Dir
<1>1. /\ local \in [Path -> {Absent, Dir} \cup Content]
      /\ Dir \notin Content
  BY ContentAssumption DEF TypeInv, TypeOK
<1>2. ASSUME Developer PROVE local'[Root] = Dir
  <2>1. PICK p \in Path : p # Root /\ \E entry : local' = [local EXCEPT ![p] = entry]
    <3>1. ASSUME NEW p \in Path, NEW c \in Content,
                 CreateFile(p, c) \/ ReplaceFile(p, c) \/ WriteFile(p, c)
          PROVE  p # Root /\ \E entry : local' = [local EXCEPT ![p] = entry]
      BY <1>1, <3>1 DEF CreateFile, ReplaceFile, WriteFile, Change
    <3>2. ASSUME NEW p \in Path,
                 DeleteFile(p) \/ MakeDirectory(p) \/ RemoveDirectory(p)
          PROVE  p # Root /\ \E entry : local' = [local EXCEPT ![p] = entry]
      BY <1>1, <3>2 DEF DeleteFile, MakeDirectory, RemoveDirectory, Change
    <3> QED
      BY <1>2, <3>1, <3>2 DEF Developer
  <2> QED
    BY <1>1, <2>1
<1>3. ASSUME Start PROVE local' = local
  BY <1>3 DEF Start, ListFiles, TestConnections, AddRoot, AddListed, StartWatching, developer
<1>4. ASSUME Adds PROVE local' = local
  BY <1>4 DEF Adds, Filter, AddFile, AddDirectory, Register, RegisterFails, developer
<1>5. ASSUME Watch PROVE local' = local
  BY <1>5 DEF Watch, Poll, PollClosed, NextEvent, NextEventFails, Reset, Check, Notify,
              developer
<1>6. ASSUME Handle PROVE local' = local
  BY <1>6 DEF Handle, CreateDir, MakeParent, OpenFile, CopyFile, RemoveEntry, developer
<1>7. ASSUME Close \/ Halt \/ Restart PROVE local' = local
  BY <1>7 DEF Close, Halt, Restart, developer
<1> QED
  BY <1>2, <1>3, <1>4, <1>5, <1>6, <1>7 DEF Next, Program, vars

-----------------------------------------------------------------------------
(***************************************************************************)
(* The thread's steps.                                                     *)
(***************************************************************************)

\* A thread that has stopped is said nothing of.
LEMMA StoppedStep ==
    ASSUME PollClosed \/ NextEventFails \/ RegisterFails \/ Close \/ Halt
    PROVE  Alive => ~Alive'
BY DEF PollClosed, NextEventFails, RegisterFails, Close, Halt, Alive, Running, Stopped

\* What is listed at construction.
LEMMA ListedAll ==
    ASSUME NEW p \in Path, p # Root, p \notin Ignored, IsDirectory(local, p)
    PROVE  p \in filesToLoad
<1>1. p \in Seq(Name) /\ Root \in Seq(Name) /\ Len(Root) = 0
  BY PathAssumption DEF Root
<1>2. SubSeq(Root, 1, 0) = SubSeq(p, 1, 0)
  BY <1>1 DEF Root
<1>3. IsPrefix(Root, p)
  BY <1>1, <1>2 DEF IsPrefix
<1>4. \A a \in Upto(p) : a \notin Ignored
  BY UptoIgnored
<1> QED
  BY <1>3, <1>4 DEF filesToLoad, deepListFiles, Below, IsDirectory, Absent, Dir

\* Starting.
LEMMA StartHandlers ==
    ASSUME TypeInv, StageInv, ServiceInv(ws, cur), EntriesInv, Start, Alive'
    PROVE  (StageInv /\ ServiceInv(ws, cur) /\ EntriesInv)'
<1>1. UNCHANGED <<local, unseen, ws, watched, cur, batch>>
  BY DEF Start, ListFiles, TestConnections, AddRoot, AddListed, StartWatching,
         developer, history
<1>2. pc \in Starting
  BY DEF Start, ListFiles, TestConnections, AddRoot, AddListed, StartWatching, Starting
<1>3. cur = NoPath /\ batch = <<>>
  BY <1>2 DEF StageInv
<1>4. StageInv'
  BY <1>1, <1>3 DEF Start, ListFiles, TestConnections, AddRoot, AddListed, StartWatching,
      StageInv, Starting, Adding, Watching, Handling, Add, Alive, Running, Stopped
<1>5. ASSUME NEW p \in Path \ unseen
      PROVE  EntryInv(p)'
  <2>1. EntryInv(p)
    BY <1>5 DEF EntriesInv
  <2>2. ~BeingAdded(p)
    BY <1>2 DEF BeingAdded, Starting, Adding
  <2>3. Coming(ws, cur, batch, Created(p)) => Coming(ws', cur', batch', Created(p))
    BY <1>1
  <2>4. pc' \in Adding => ev' # Deleted(p)
    BY DEF Start, ListFiles, TestConnections, AddRoot, AddListed, StartWatching,
           Adding, Add, Deleted
  <2>5. DeletionsFollowed(p) => DeletionsFollowed(p)'
    BY <1>1, <2>4 DEF DeletionsFollowed
  <2>6. RemovalIsOld(p) => RemovalIsOld(p)'
    BY <1>1, <2>2, <2>3 DEF RemovalIsOld
  <2>7. Registering(p) /\ IsDirectory(local, p) /\ p \notin Ignored => Registering(p)'
    <3> SUFFICES ASSUME Registering(p), IsDirectory(local, p), p \notin Ignored,
                        ~Watched(ws, p), ~Coming(ws, cur, batch, Created(p))
                 PROVE  Registering(p)'
      BY <1>1, <2>3 DEF Registering
    <3>1. p \in listed \/ pc = "boot" \/ (p = Root /\ pc \in {"connect", "root"})
      BY <1>2, <2>2 DEF Registering, Starting, Adding
    <3>2. CASE ListFiles
      BY <3>1, <3>2, ListedAll DEF ListFiles, Registering
    <3>3. CASE TestConnections
      BY <3>1, <3>3 DEF TestConnections, Registering, Alive, Running, Stopped
    <3>4. CASE AddRoot
      BY <3>1, <3>4 DEF AddRoot, Registering, Adding
    <3>5. CASE AddListed
      BY <3>1, <3>5 DEF AddListed, Registering, Adding
    <3>6. CASE StartWatching
      BY <3>1, <3>6 DEF StartWatching, Registering
    <3> QED
      BY <3>2, <3>3, <3>4, <3>5, <3>6 DEF Start
  <2> QED
    BY <1>1, <2>1, <2>5, <2>6, <2>7 DEF EntryInv
<1> QED
  BY <1>1, <1>4, <1>5 DEF EntriesInv

\* The kind of event an event is.
LEMMA EventOfKind ==
    ASSUME TypeInv
    PROVE  /\ \A p : ev.kind = "delete" /\ ev.path = p => ev = Deleted(p)
           /\ \A p : ev.kind = "create" /\ ev.path = p => ev = Created(p)
           /\ \A p : ev = Deleted(p) \/ ev = Created(p) \/ ev = Add(p) => ev.path = p
           /\ \A p : ev = Created(p) \/ ev = Add(p) => ev.kind # "delete"
BY DEF TypeInv, TypeOK, Deleted, Created, Add

\* addToWatched takes an entry of which the creation is being processed to the
\* handler it should have; a handler that removes is installed for an existing
\* entry only when its creation is still to come.
LEMMA AddsHandlers ==
    ASSUME TypeInv, NoneIgnored, StageInv, ServiceInv(ws, cur), EntriesInv, Adds, Alive'
    PROVE  (StageInv /\ ServiceInv(ws, cur) /\ EntriesInv)'
<1>1. UNCHANGED <<local, unseen, cur, batch, listed, ev>>
  BY DEF Adds, Filter, AddFile, AddDirectory, Register, RegisterFails, developer, history
<1>2. pc \in Adding
  BY DEF Adds, Filter, AddFile, AddDirectory, Register, RegisterFails, Adding
<1>3. /\ ev.path \in Path /\ watched \in [Path -> Handler] /\ ws \in Service
  BY DEF TypeInv, TypeOK
<1>4. ~RegisterFails
  BY StoppedStep DEF RegisterFails, Alive, Running, Stopped
<1>5. pc' \in Adding \/ pc' = AfterAdding
  BY <1>4 DEF Adds, Filter, AddFile, AddDirectory, Register, Adding
<1>6. /\ ServiceInv(ws', cur)
      /\ \A x \in Event : Held(ws, cur, x) => Held(ws', cur, x)
      /\ \A p \in Path : KeysFollowed(ws, cur, p) => KeysFollowed(ws', cur, p)
      /\ \A b : Watched(ws, b) => Watched(ws', b)
  <2>1. CASE Register
    BY <1>3, <2>1, RegisteredHolds DEF Register
  <2>2. CASE Filter \/ AddFile \/ AddDirectory
    BY <2>2 DEF Filter, AddFile, AddDirectory
  <2> QED
    BY <1>4, <2>1, <2>2 DEF Adds
<1>7. StageInv'
  BY <1>1, <1>2, <1>5
  DEF StageInv, AfterAdding, Starting, Adding, Watching, Handling
<1>8. ASSUME NEW p \in Path \ unseen
      PROVE  EntryInv(p)'
  <2>1. EntryInv(p)
    BY <1>8 DEF EntriesInv
  <2>2. Coming(ws, cur, batch, Created(p)) => Coming(ws', cur', batch', Created(p))
    BY <1>1, <1>6, OverflowIsNoEvent DEF Coming
  <2>3. DeletionsFollowed(p) => DeletionsFollowed(p)'
    BY <1>1, <1>2, <1>6, <2>2, OverflowIsNoEvent DEF DeletionsFollowed
  <2>4. CASE ev.path # p
    <3>1. ~BeingAdded(p) /\ ev # Add(p)
      BY <2>4, EventOfKind DEF BeingAdded
    <3>2. watched'[p] = watched[p]
      BY <1>3, <1>4, <2>4
      DEF Adds, Filter, AddFile, AddDirectory, Register, HandlerFor
    <3>3. RemovalIsOld(p) => RemovalIsOld(p)'
      BY <2>2, <3>1, <3>2 DEF RemovalIsOld
    <3>4. Registering(p) => Registering(p)'
      BY <1>1, <1>2, <1>6, <2>2, <3>1 DEF Registering, Adding
    <3> QED
      BY <1>1, <2>1, <2>3, <3>3, <3>4 DEF EntryInv
  <2>5. CASE ev.path = p
    <3>1. CASE Filter
      <4>1. UNCHANGED <<ws, watched>> /\ pc = "filter"
        BY <3>1 DEF Filter
      <4>2. /\ watched[p] # "none" => p \notin Ignored
            /\ p \notin Ignored /\ (watched[p] # "none" \/ IsDirectory(local, p))
                 => pc' = "kind"
        BY <2>5, <3>1
        DEF Filter, NoneIgnored, isToBeWatched, ByNameToBeWatched
      <4>3. RemovalIsOld(p) => RemovalIsOld(p)'
        BY <1>1, <2>2, <4>1, <4>2 DEF RemovalIsOld, BeingAdded, Adding
      <4>4. Registering(p) /\ p \notin Ignored /\ IsDirectory(local, p)
              => Registering(p)'
        BY <1>1, <2>2, <4>1, <4>2 DEF Registering, BeingAdded, Adding
      <4> QED
        BY <1>1, <2>1, <2>3, <4>3, <4>4 DEF EntryInv
    <3>2. CASE AddDirectory
      <4>1. UNCHANGED <<ws, watched>> /\ pc' = "register" /\ pc = "kind"
        BY <3>2 DEF AddDirectory
      <4>2. RemovalIsOld(p) => RemovalIsOld(p)'
        BY <1>1, <2>2, <4>1 DEF RemovalIsOld, BeingAdded, Adding
      <4>3. Registering(p) => Registering(p)'
        BY <1>1, <2>2, <4>1 DEF Registering, BeingAdded, Adding
      <4> QED
        BY <1>1, <2>1, <2>3, <4>2, <4>3 DEF EntryInv
    <3>3. CASE AddFile \/ Register
      <4>1. ev.kind # "delete" => watched'[p] \in {"uploadFile", "createDir"}
        BY <1>3, <2>5, <3>3 DEF AddFile, Register, HandlerFor
      <4>2. local[p] # Absent => RemovalIsOld(p)'
        <5>1. CASE ev.kind = "delete"
          <6>1. local[p] # Absent => Coming(ws, cur, batch, Created(p))
            BY <1>2, <2>1, <2>5, <5>1, EventOfKind DEF EntryInv, DeletionsFollowed
          <6> QED
            BY <2>2, <6>1 DEF RemovalIsOld
        <5>2. CASE ev.kind # "delete"
          BY <4>1, <5>2 DEF RemovalIsOld
        <5> QED
          BY <5>1, <5>2
      <4>3. IsDirectory(local, p) => Registering(p)'
        <5> SUFFICES ASSUME IsDirectory(local, p)
                     PROVE  Watched(ws', p)
          BY DEF Registering
        <5>1. Register
          BY <2>5, <3>3 DEF AddFile
        <5> QED
          BY <1>3, <2>5, <5>1, RegisteredHolds DEF Register
      <4> QED
        BY <1>1, <2>1, <2>3, <4>2, <4>3 DEF EntryInv
    <3> QED
      BY <1>4, <3>1, <3>2, <3>3 DEF Adds
  <2> QED
    BY <2>4, <2>5
<1> QED
  BY <1>1, <1>6, <1>7, <1>8 DEF EntriesInv

\* Taking the first event of the batch: its creation follows a deletion of p in
\* what is left, and what was coming is taken or still coming.
LEMMA NextEventHolds ==
    ASSUME NEW b \in Events, b # <<>>, Head(b) # Overflow, NEW p \in Path
    PROVE  /\ Followed(b, p) => Followed(Tail(b), p)
           /\ Followed(b, p) /\ Head(b) = Deleted(p) =>
                \E x \in ToSet(Tail(b)) : x \in {Created(p), Overflow}
           /\ (\E x \in ToSet(b) : x \in {Created(p), Overflow}) =>
                \/ Head(b) = Created(p)
                \/ \E x \in ToSet(Tail(b)) : x \in {Created(p), Overflow}
<1>1. /\ ToSet(b) = {Head(b)} \cup ToSet(Tail(b))
      /\ Tail(b) \in Seq(Event \cup {Overflow}) /\ Len(Tail(b)) = Len(b) - 1
      /\ Len(b) \in Nat \ {0}
      /\ Head(b) = b[1]
      /\ \A m \in 1 .. Len(b) - 1 : Tail(b)[m] = b[m + 1]
  BY ToSetHeadTail DEF Events
<1>2. /\ DOMAIN b = 1 .. Len(b)
      /\ DOMAIN Tail(b) = 1 .. Len(b) - 1
  <2>1. DOMAIN Tail(b) = 1 .. Len(Tail(b))
    BY <1>1
  <2> QED
    BY <1>1, <2>1 DEF Events
<1>3. /\ \A m \in DOMAIN Tail(b) : m + 1 \in DOMAIN b /\ Tail(b)[m] = b[m + 1]
      /\ \A m \in DOMAIN b : m > 1 => m - 1 \in DOMAIN Tail(b) /\ Tail(b)[m - 1] = b[m]
  <2>1. \A m \in 1 .. Len(b) - 1 : m + 1 \in 1 .. Len(b)
    BY <1>1
  <2>2. \A m \in 1 .. Len(b) : m > 1 => m - 1 \in 1 .. Len(b) - 1 /\ (m - 1) + 1 = m
    BY <1>1
  <2>3. \A m \in 1 .. Len(b) : m > 1 => Tail(b)[m - 1] = b[m]
    BY <1>1, <2>2
  <2> QED
    BY <1>1, <1>2, <2>1, <2>2, <2>3
<1>4. ASSUME Followed(b, p), NEW m \in DOMAIN b, b[m] = Deleted(p)
      PROVE  \E n \in DOMAIN Tail(b) :
               n + 1 > m /\ Tail(b)[n] \in {Created(p), Overflow}
  <2>1. PICK n \in DOMAIN b : n > m /\ b[n] \in {Created(p), Overflow}
    BY <1>4 DEF Followed
  <2>2. n \in Nat /\ n > 1 /\ m \in Nat
    BY <1>1, <1>2, <1>4, <2>1
  <2>3. n - 1 \in DOMAIN Tail(b) /\ Tail(b)[n - 1] = b[n] /\ (n - 1) + 1 > m
    BY <1>3, <2>1, <2>2
  <2> QED
    BY <2>1, <2>3
<1>5. Followed(b, p) => Followed(Tail(b), p)
  <2> SUFFICES ASSUME Followed(b, p), NEW m \in DOMAIN Tail(b), Tail(b)[m] = Deleted(p)
               PROVE  \E n \in DOMAIN Tail(b) :
                        n > m /\ Tail(b)[n] \in {Created(p), Overflow}
    BY DEF Followed
  <2>1. PICK n \in DOMAIN Tail(b) : n + 1 > m + 1 /\ Tail(b)[n] \in {Created(p), Overflow}
    BY <1>3, <1>4
  <2>2. m \in Nat /\ n \in Nat
    BY <1>1, <1>2
  <2>3. n > m
    BY <2>1, <2>2
  <2> QED
    BY <2>1, <2>3
<1>6. Followed(b, p) /\ Head(b) = Deleted(p) =>
        \E x \in ToSet(Tail(b)) : x \in {Created(p), Overflow}
  <2>1. 1 \in DOMAIN b
    BY <1>1, <1>2
  <2> QED
    BY <1>1, <1>4, <2>1 DEF ToSet
<1> QED
  BY <1>1, <1>5, <1>6

\* Polling, taking an event, resetting, checking and notifying.
LEMMA WatchHandlers ==
    ASSUME TypeInv, NoneIgnored, StageInv, ServiceInv(ws, cur), EntriesInv, Watch, Alive'
    PROVE  (StageInv /\ ServiceInv(ws, cur) /\ EntriesInv)'
<1>1. UNCHANGED <<local, unseen, listed, watched>>
  BY DEF Watch, Poll, PollClosed, NextEvent, NextEventFails, Reset, Check, Notify,
         developer, history
<1>2. pc \in {"poll", "next", "check", "notify"} /\ listed = {}
  BY DEF Watch, Poll, PollClosed, NextEvent, NextEventFails, Reset, Check, Notify,
         StageInv, Watching, Handling
<1>3. /\ ws \in Service /\ batch \in Events /\ NoPath \notin Key
      /\ pc # "poll" => cur \in Key
  BY <1>2, NoPathAssumption DEF TypeInv, TypeOK, KeyHeld, Handling, Events
<1>4. ~PollClosed /\ ~NextEventFails
  BY DEF PollClosed, NextEventFails, Alive, Running, Stopped
<1>5. CASE Poll
  <2>1. cur = NoPath /\ batch = <<>> /\ pc = "poll" /\ pc' = "next" /\ ws.queue # <<>>
    BY <1>5 DEF Poll, StageInv
  <2>2. /\ cur' = Head(ws.queue) /\ ws' = Polled(ws, cur')
        /\ batch' = ws.keys[cur'].events
    BY <1>5 DEF Poll
  <2>3. /\ ServiceInv(ws', cur')
        /\ \A x \in Event : Held(ws, cur, x) => Coming(ws', cur', batch', x)
        /\ \A p \in Path : KeysFollowed(ws, cur, p) =>
             /\ KeysFollowed(ws', cur', p)
             /\ Followed(batch', p) \/ Held(ws', cur', Created(p))
        /\ \A a : Watched(ws, a) => Watched(ws', a)
    BY <1>3, <2>1, <2>2, PolledHolds
  <2>4. StageInv'
    BY <1>1, <1>2, <2>1 DEF StageInv, Starting, Adding, Watching, Handling
  <2>5. ASSUME NEW p \in Path \ unseen
        PROVE  EntryInv(p)'
    <3>1. EntryInv(p)
      BY <2>5 DEF EntriesInv
    <3>2. ~BeingAdded(p)
      BY <2>1 DEF BeingAdded, Adding
    <3>3. Coming(ws, cur, batch, Created(p)) => Coming(ws', cur', batch', Created(p))
      BY <2>1, <2>3, OverflowIsNoEvent DEF Coming, ToSet
    <3>4. DeletionsFollowed(p) => DeletionsFollowed(p)'
      BY <2>1, <2>3 DEF DeletionsFollowed, Adding
    <3>5. RemovalIsOld(p) => RemovalIsOld(p)'
      BY <1>1, <3>2, <3>3 DEF RemovalIsOld
    <3>6. Registering(p) => Registering(p)'
      BY <1>1, <1>2, <2>1, <2>3, <3>2, <3>3 DEF Registering, Adding
    <3> QED
      BY <1>1, <3>1, <3>4, <3>5, <3>6 DEF EntryInv
  <2> QED
    BY <1>1, <2>3, <2>4, <2>5 DEF EntriesInv
<1>6. CASE NextEvent
  <2>1. /\ pc = "next" /\ batch # <<>> /\ Head(batch) # Overflow
        /\ UNCHANGED <<ws, cur>> /\ ev' = Head(batch) /\ batch' = Tail(batch)
        /\ pc' = FirstStage[Head(batch).kind]
    BY <1>6 DEF NextEvent, developer
  <2>2. Head(batch) \in Event
    BY <1>3, <2>1 DEF Events
  <2>3. Head(batch).kind \in EventKind /\ pc' \in {"check", "notify", "filter"}
    BY <2>1, <2>2, StagesType DEF Event
  <2>4. StageInv'
    BY <1>1, <1>2, <2>1, <2>3
    DEF StageInv, Starting, Adding, Watching, Handling, EventKind, FirstStage
  <2>5. ASSUME NEW p \in Path \ unseen
        PROVE  EntryInv(p)'
    <3>1. EntryInv(p)
      BY <2>5 DEF EntriesInv
    <3>2. ~BeingAdded(p)
      BY <2>1 DEF BeingAdded, Adding
    <3>3. /\ Followed(batch, p) => Followed(batch', p)
          /\ Followed(batch, p) /\ ev' = Deleted(p) =>
               \E x \in ToSet(batch') : x \in {Created(p), Overflow}
          /\ (\E x \in ToSet(batch) : x \in {Created(p), Overflow}) =>
               \/ ev' = Created(p)
               \/ \E x \in ToSet(batch') : x \in {Created(p), Overflow}
      BY <1>3, <2>1, NextEventHolds
    <3>4. ev' = Created(p) => pc' = "check"
      BY <2>1 DEF Created, FirstStage
    <3>5. Coming(ws, cur, batch, Created(p)) =>
            Coming(ws', cur', batch', Created(p)) \/ BeingAdded(p)'
      BY <2>1, <3>3, <3>4 DEF Coming, BeingAdded
    <3>6. DeletionsFollowed(p) => DeletionsFollowed(p)'
      BY <2>1, <3>3 DEF DeletionsFollowed, Coming
    <3>7. RemovalIsOld(p) => RemovalIsOld(p)'
      BY <1>1, <3>2, <3>5 DEF RemovalIsOld
    <3>8. Registering(p) => Registering(p)'
      BY <1>1, <1>2, <2>1, <3>2, <3>5 DEF Registering, Adding
    <3> QED
      BY <1>1, <3>1, <3>6, <3>7, <3>8 DEF EntryInv
  <2> QED
    BY <1>1, <2>1, <2>4, <2>5 DEF EntriesInv
<1>7. CASE Reset
  <2>1. /\ pc = "next" /\ batch = <<>> /\ ws' = ResetKey(ws, cur) /\ cur' = NoPath
        /\ pc' = "poll" /\ UNCHANGED <<batch, ev>>
    BY <1>7 DEF Reset
  <2>2. /\ ServiceInv(ws', cur')
        /\ \A x \in Event : Held(ws, cur, x) => Held(ws', cur', x)
        /\ \A p \in Path : KeysFollowed(ws, cur, p) => KeysFollowed(ws', cur', p)
        /\ \A a : Watched(ws, a) => Watched(ws', a)
    BY <1>3, <2>1, ResetKeyHolds
  <2>3. StageInv'
    BY <1>1, <1>2, <2>1 DEF StageInv, Starting, Adding, Watching, Handling
  <2>4. ASSUME NEW p \in Path \ unseen
        PROVE  EntryInv(p)'
    <3>1. EntryInv(p)
      BY <2>4 DEF EntriesInv
    <3>2. ~BeingAdded(p)
      BY <2>1 DEF BeingAdded, Adding
    <3>3. Coming(ws, cur, batch, Created(p)) => Coming(ws', cur', batch', Created(p))
      BY <2>1, <2>2, OverflowIsNoEvent DEF Coming
    <3>4. DeletionsFollowed(p) => DeletionsFollowed(p)'
      BY <2>1, <2>2, OverflowIsNoEvent DEF DeletionsFollowed, Adding
    <3>5. RemovalIsOld(p) => RemovalIsOld(p)'
      BY <1>1, <3>2, <3>3 DEF RemovalIsOld
    <3>6. Registering(p) => Registering(p)'
      BY <1>1, <1>2, <2>1, <2>2, <3>2, <3>3 DEF Registering, Adding
    <3> QED
      BY <1>1, <3>1, <3>4, <3>5, <3>6 DEF EntryInv
  <2> QED
    BY <1>1, <2>2, <2>3, <2>4 DEF EntriesInv
<1>8. CASE Check \/ Notify
  <2>1. UNCHANGED <<ws, cur, batch, ev>>
    BY <1>8 DEF Check, Notify
  <2>2. ev.path \in Path /\ watched[ev.path] \in Handler
    BY DEF TypeInv, TypeOK
  <2>3. \/ pc = "check" /\ pc' \in {"filter", "next"}
        \/ /\ pc = "notify" /\ pc' \in {"next", "parent", "mkdir", "remove"}
           /\ pc' = HandlerStage[watched[ev.path]]
    BY <1>8, <2>2, StagesType DEF Check, Notify
  <2>4. pc' = "remove" => watched[ev.path] \in {"removeFile", "removeDir"}
    BY <2>2, <2>3 DEF HandlerStage, Handler
  <2>5. StageInv'
    BY <1>1, <1>2, <2>1, <2>3, <2>4
    DEF StageInv, Starting, Adding, Watching, Handling
  <2>6. ASSUME NEW p \in Path \ unseen
        PROVE  EntryInv(p)'
    <3>1. EntryInv(p)
      BY <2>6 DEF EntriesInv
    <3>2. Coming(ws, cur, batch, Created(p)) => Coming(ws', cur', batch', Created(p))
      BY <2>1
    <3>3. pc' \in Adding => ev' # Deleted(p)
      BY <2>1, <2>3 DEF StageInv, Adding, Deleted
    <3>4. DeletionsFollowed(p) => DeletionsFollowed(p)'
      BY <2>1, <3>3 DEF DeletionsFollowed
    <3>5. /\ watched[p] # "none" => p \notin Ignored
          /\ (BeingAdded(p) /\ p \notin Ignored
               /\ (watched[p] # "none" \/ IsDirectory(local, p))) => BeingAdded(p)'
      <4>1. watched[p] # "none" => p \notin Ignored
        BY DEF NoneIgnored
      <4>2. ASSUME BeingAdded(p), p \notin Ignored,
                   watched[p] # "none" \/ IsDirectory(local, p)
            PROVE  BeingAdded(p)'
        <5>1. pc = "check" /\ ev = Created(p) /\ ev.path = p
          BY <1>2, <4>2, EventOfKind DEF BeingAdded, Adding
        <5>2. pc' = "filter"
          BY <1>8, <4>2, <5>1 DEF Check, Notify, isToBeWatched, ByNameToBeWatched
        <5> QED
          BY <2>1, <5>1, <5>2 DEF BeingAdded, Adding
      <4> QED
        BY <4>1, <4>2
    <3>6. RemovalIsOld(p) => RemovalIsOld(p)'
      BY <1>1, <3>2, <3>5 DEF RemovalIsOld
    <3>7. Registering(p) /\ p \notin Ignored /\ IsDirectory(local, p) => Registering(p)'
      BY <1>1, <1>2, <2>1, <3>2, <3>5 DEF Registering, Adding
    <3> QED
      BY <1>1, <3>1, <3>4, <3>6, <3>7 DEF EntryInv
  <2> QED
    BY <1>1, <2>1, <2>5, <2>6 DEF EntriesInv
<1> QED
  BY <1>4, <1>5, <1>6, <1>7, <1>8 DEF Watch

\* The handlers touch neither the service nor the table of handlers.
LEMMA HandleHandlers ==
    ASSUME TypeInv, StageInv, ServiceInv(ws, cur), EntriesInv, Handle, Alive'
    PROVE  (StageInv /\ ServiceInv(ws, cur) /\ EntriesInv)'
<1>1. UNCHANGED <<local, unseen, listed, watched, ws, cur, batch, ev>>
  BY DEF Handle, CreateDir, MakeParent, OpenFile, CopyFile, RemoveEntry, developer
<1>2. pc \in Handling \ {"notify"} /\ pc' \in {"next", "open", "copy"}
  BY DEF Handle, CreateDir, MakeParent, OpenFile, CopyFile, RemoveEntry, CommandFails,
         Handling, Alive, Running, Stopped
<1>3. StageInv'
  BY <1>1, <1>2 DEF StageInv, Starting, Adding, Watching, Handling
<1>4. ASSUME NEW p \in Path \ unseen
      PROVE  EntryInv(p)'
  <2>1. EntryInv(p)
    BY <1>4 DEF EntriesInv
  <2>2. ~BeingAdded(p)
    BY <1>2 DEF BeingAdded, Adding, Handling
  <2>3. DeletionsFollowed(p) => DeletionsFollowed(p)'
    BY <1>1, <1>2 DEF DeletionsFollowed, Adding
  <2>4. RemovalIsOld(p) => RemovalIsOld(p)'
    BY <1>1, <2>2 DEF RemovalIsOld
  <2>5. Registering(p) => Registering(p)'
    BY <1>1, <1>2, <2>2 DEF Registering, Adding, Handling
  <2> QED
    BY <1>1, <2>1, <2>3, <2>4, <2>5 DEF EntryInv
<1> QED
  BY <1>1, <1>3, <1>4 DEF EntriesInv

-----------------------------------------------------------------------------
\* A process that has just started has missed nothing.
LEMMA BootHandlers ==
    ASSUME pc = "boot", ws = EmptyService, cur = NoPath, batch = <<>>,
           watched = [p \in Path |-> "none"]
    PROVE  StageInv /\ ServiceInv(ws, cur) /\ EntriesInv
<1>1. StageInv
  BY DEF StageInv, Starting, Adding, Watching, Handling
<1>2. ServiceInv(ws, cur)
  BY EmptyServiceHolds
<1>3. EntriesInv
  BY <1>1, EntryAtBoot DEF EntriesInv
<1> QED
  BY <1>1, <1>2, <1>3

\* The invariant holds when DEVMaid starts.
LEMMA HandlersInit == Init => HandlersInv
<1> SUFFICES ASSUME Init PROVE HandlersInv
  OBVIOUS
<1>1. local[Root] = Dir
  BY DEF Init, WellFormed
<1>2. StageInv /\ ServiceInv(ws, cur) /\ EntriesInv
  BY BootHandlers DEF Init
<1> QED
  BY <1>1, <1>2 DEF HandlersInv

\* Every step keeps the invariant.
LEMMA HandlersNext ==
    TypeInv /\ NoneIgnored /\ HandlersInv /\ [Next]_vars => HandlersInv'
<1> SUFFICES ASSUME TypeInv, NoneIgnored, HandlersInv, [Next]_vars
             PROVE  HandlersInv'
  OBVIOUS
<1>1. local[Root] = Dir /\ local'[Root] = Dir
  BY RootKept DEF HandlersInv
<1> SUFFICES ASSUME Alive'
             PROVE  (StageInv /\ ServiceInv(ws, cur) /\ EntriesInv)'
  BY <1>1 DEF HandlersInv
<1>2. CASE Restart
  <2>1. (/\ pc = "boot" /\ ws = EmptyService /\ cur = NoPath /\ batch = <<>>
         /\ watched = [p \in Path |-> "none"])'
    BY <1>2 DEF Restart
  <2>2. (pc = "boot" /\ ws = EmptyService /\ cur = NoPath /\ batch = <<>>
          /\ watched = [p \in Path |-> "none"]
           => StageInv /\ ServiceInv(ws, cur) /\ EntriesInv)'
    BY BootHandlers, PTL
  <2> QED
    BY <2>1, <2>2
<1>3. CASE Next /\ ~Restart
  <2>1. Alive
    <3> USE DEF Alive, Running, Stopped
    <3>1. CASE Developer
      BY <3>1 DEF Developer, CreateFile, ReplaceFile, WriteFile, DeleteFile,
                  MakeDirectory, RemoveDirectory, Change
    <3>2. CASE Start
      BY <3>2 DEF Start, ListFiles, TestConnections, AddRoot, AddListed, StartWatching
    <3>3. CASE Adds
      BY <3>3 DEF Adds, Filter, AddFile, AddDirectory, Register, RegisterFails
    <3>4. CASE Watch
      BY <3>4 DEF Watch, Poll, PollClosed, NextEvent, NextEventFails, Reset, Check, Notify
    <3>5. CASE Handle
      BY <3>5 DEF Handle, CreateDir, MakeParent, OpenFile, CopyFile, RemoveEntry
    <3>6. CASE Close \/ Halt
      BY <3>6 DEF Close, Halt
    <3> QED
      BY <1>3, <3>1, <3>2, <3>3, <3>4, <3>5, <3>6 DEF Next, Program
  <2>2. StageInv /\ ServiceInv(ws, cur) /\ EntriesInv
    BY <2>1 DEF HandlersInv
  <2>3. ~Close /\ ~Halt
    BY <2>1, StoppedStep
  <2> QED
    BY <1>1, <1>3, <2>2, <2>3, DeveloperHandlers, StartHandlers, AddsHandlers,
       WatchHandlers, HandleHandlers
    DEF Next, Program
<1>4. CASE UNCHANGED vars
  <2>1. Alive
    BY <1>4 DEF vars, Alive, Running
  <2>2. StageInv /\ ServiceInv(ws, cur) /\ EntriesInv
    BY <2>1 DEF HandlersInv
  <2> QED
    BY <1>4, <2>2
    DEF vars, StageInv, EntriesInv, EntryInv, DeletionsFollowed, RemovalIsOld,
        Registering, BeingAdded
<1> QED
  BY <1>2, <1>3, <1>4

\* The invariant, in every behaviour.
LEMMA HandlersAlways == Spec => [](TypeInv /\ NoneIgnored /\ HandlersInv)
<1>1. Spec => []TypeInv
  BY TypeInit, TypeNext, PTL DEF Spec
<1>2. Spec => []NoneIgnored
  BY <1>1, NoneIgnoredInit, NoneIgnoredNext, PTL DEF Spec
<1> QED
  BY <1>1, <1>2, HandlersInit, HandlersNext, PTL DEF Spec

\* As long as no OVERFLOW is on its way, what is coming is pending.
LEMMA ComingPending ==
    ASSUME NEW p \in Path, Serving, Coming(ws, cur, batch, Created(p))
    PROVE  Queued({"create"}, p)
<1>1. Live(ws, cur) = LiveKeys
  BY DEF Live, LiveKeys
<1> QED
  BY <1>1 DEF Serving, Overflowed, Coming, Held, Tells, Queued, Created

\* No directory is deaf, and no later MODIFY runs a handler that removes an
\* existing file: HandlersFit, whatever the tree and the developer do.
THEOREM HandlersAlwaysFit == Spec => []HandlersFit
<1>1. TypeInv /\ NoneIgnored /\ HandlersInv => HandlersFit
  <2> SUFFICES ASSUME TypeInv, HandlersInv, Serving
               PROVE  HandlersFit
    BY DEF HandlersFit, DirectoriesWatched, HandlerUploads
  <2>1. StageInv /\ ServiceInv(ws, cur) /\ EntriesInv
    BY DEF HandlersInv, Serving, Alive
  <2>2. \A p \in Path : BeingAdded(p) => InHand({"create"}, p)
    BY DEF BeingAdded, Adding, InHand, Created
  <2>3. \A p \in Path \ unseen : EntryInv(p)
    BY <2>1 DEF EntriesInv
  <2>4. DirectoriesWatched
    <3> SUFFICES ASSUME pc \in Watching, NEW p \in Path \ (unseen \cup Ignored),
                        IsDirectory(local, p)
                 PROVE  Watched(ws, p) \/ Pending({"create"}, p)
      BY DEF DirectoriesWatched
    <3>1. Registering(p)
      BY <2>3 DEF EntryInv
    <3>2. listed = {} /\ pc \notin Adding /\ pc # "boot" /\ pc \notin {"connect", "root"}
      BY <2>1 DEF StageInv, Adding, Watching, Handling
    <3> QED
      BY <2>2, <3>1, <3>2, ComingPending DEF Registering, Pending
  <2>5. HandlerUploads
    <3> SUFFICES ASSUME NEW p \in Path \ unseen, local[p] \in Content,
                        watched[p] \in {"removeFile", "removeDir"}
                 PROVE  Pending({"create"}, p)
      BY DEF HandlerUploads
    <3>1. RemovalIsOld(p)
      BY <2>3, ContentAssumption DEF EntryInv
    <3> QED
      BY <2>2, <3>1, ComingPending DEF RemovalIsOld, Pending
  <2> QED
    BY <2>4, <2>5 DEF HandlersFit
<1> QED
  BY <1>1, HandlersAlways, PTL

\* rm -rf runs on an entry that exists locally only when its creation is still to
\* be processed, so that it comes back.
THEOREM RemovalsUndone == Spec => RemovalsAreUndone
<1>1. TypeInv /\ NoneIgnored /\ HandlersInv /\ [Next]_vars
        => [\A p \in Path \ unseen :
             RemoveEntry /\ ev.path = p /\ local[p] # Absent /\ remote' # remote /\ Serving =>
                 Pending({"create"}, p)]_vars
  <2> SUFFICES ASSUME TypeInv, HandlersInv, NEW p \in Path \ unseen,
                      RemoveEntry, ev.path = p, local[p] # Absent, Serving
               PROVE  Pending({"create"}, p)
    OBVIOUS
  <2>1. StageInv /\ RemovalIsOld(p)
    BY DEF HandlersInv, Serving, Alive, EntriesInv, EntryInv
  <2>2. pc = "remove" /\ watched[p] \in {"removeFile", "removeDir"}
    BY <2>1 DEF RemoveEntry, StageInv
  <2>3. Coming(ws, cur, batch, Created(p))
    BY <2>1, <2>2 DEF RemovalIsOld, BeingAdded, Adding
  <2> QED
    BY <2>3, ComingPending DEF Pending
<1> QED
  BY <1>1, HandlersAlways, PTL DEF Spec, RemovalsAreUndone

=============================================================================
