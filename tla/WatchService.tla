---------------------------- MODULE WatchService ----------------------------
(***************************************************************************)
(* The java.nio.file.WatchService that FileWatcher.scala polls, modelled   *)
(* from how FileWatcher uses it: one key per registered directory, a list  *)
(* of events per key, and the queue of signalled keys.  A key is valid     *)
(* until its directory is deleted or the service is closed.  A signalled   *)
(* key collects events without being queued again until it is reset.       *)
(***************************************************************************)
EXTENDS FileTree

CONSTANTS
    Key,         \* identities of watch keys; a dropped key's is used again
    EventLimit,  \* most events a key keeps (512 in the JDK)
    NoPath       \* the context of an OVERFLOW event: null

ASSUME NoPathAssumption == NoPath \notin Path \cup Key
ASSUME EventLimitAssumption == EventLimit \in Nat \ {0}

EventKind == {"create", "modify", "delete"}
Event     == [kind : EventKind, path : Path]
Overflow  == [kind |-> "overflow", path |-> NoPath]

KeyState == [dir : Path \cup {NoPath}, valid : BOOLEAN, signalled : BOOLEAN,
             events : Seq(Event \cup {Overflow})]
NoKey    == [dir |-> NoPath, valid |-> FALSE, signalled |-> FALSE,
             events |-> <<>>]

\* The state of the service: its keys and the queue of signalled ones.
Service     == [keys : [Key -> KeyState], queue : Seq(Key)]
EmptyService == [keys |-> [k \in Key |-> NoKey], queue |-> <<>>]

ValidKeys(ws, d) == {k \in Key : ws.keys[k].valid /\ ws.keys[k].dir = d}
Watched(ws, d)   == ValidKeys(ws, d) # {}

-----------------------------------------------------------------------------
\* An event that the list already holds is counted, not added: the last one
\* repeated, or a MODIFY after which nothing else happened to the path.
Repeats(evs, e) ==
    \/ evs # <<>> /\ (Last(evs) = e \/ Last(evs) = Overflow)
    \/ /\ e.kind = "modify"
       /\ \E i \in DOMAIN evs :
            /\ evs[i] = e
            /\ \A j \in DOMAIN evs : j > i => evs[j].path # e.path

\* A full list is dropped and replaced by one OVERFLOW event.
AddEvent(evs, e) ==
    IF Repeats(evs, e) THEN evs
    ELSE IF Len(evs) >= EventLimit THEN <<Overflow>>
    ELSE Append(evs, e)

\* Queue key k unless it is signalled already, and make its state ks.
SignalKey(ws, k, ks) ==
    [keys  |-> [ws.keys EXCEPT ![k] = [ks EXCEPT !.signalled = TRUE]],
     queue |-> IF ws.keys[k].signalled THEN ws.queue ELSE Append(ws.queue, k)]

\* The kernel reports event e to the key of the parent directory, if any.
Deliver(ws, e) ==
    IF Watched(ws, Parent(e.path))
    THEN LET k == CHOOSE k \in ValidKeys(ws, Parent(e.path)) : TRUE
         IN  SignalKey(ws, k, [ws.keys[k] EXCEPT !.events = AddEvent(@, e)])
    ELSE ws

\* Directory d is gone: its key is invalid, and signalled.
Invalidate(ws, d) ==
    IF Watched(ws, d)
    THEN LET k == CHOOSE k \in ValidKeys(ws, d) : TRUE
         IN  SignalKey(ws, k, [ws.keys[k] EXCEPT !.valid = FALSE])
    ELSE ws

\* Path.register: a directory that has a key keeps it.
\* BOUND: there are enough keys, so that one is always free.
FreeKeys(ws)       == {k \in Key : ws.keys[k] = NoKey}
CanRegister(ws, d) == Watched(ws, d) \/ FreeKeys(ws) # {}
Registered(ws, d)  ==
    IF Watched(ws, d) THEN ws
    ELSE LET k == CHOOSE k \in FreeKeys(ws) : TRUE
         IN  [ws EXCEPT !.keys[k] = [NoKey EXCEPT !.dir = d, !.valid = TRUE]]

\* WatchService.poll and WatchKey.pollEvents: k leaves the queue, emptied.
Polled(ws, k) ==
    [keys  |-> [ws.keys EXCEPT ![k].events = <<>>], queue |-> Tail(ws.queue)]

\* WatchKey.reset: a key with new events is queued again, an invalid key is
\* not and whatever it collected since it was polled is dropped with it.
ResetKey(ws, k) ==
    IF ~ws.keys[k].valid THEN [ws EXCEPT !.keys[k] = NoKey]
    ELSE IF ws.keys[k].events = <<>>
    THEN [ws EXCEPT !.keys[k].signalled = FALSE]
    ELSE [ws EXCEPT !.queue = Append(@, k)]

\* WatchService.close.
Closed(ws) == [ws EXCEPT !.keys = [k \in Key |-> [@[k] EXCEPT !.valid = FALSE]]]
=============================================================================
