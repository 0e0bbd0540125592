------------------------------ MODULE ElFinder ------------------------------
(***************************************************************************)
(* The object elFinder itself: its events, bind, one and trigger, and what *)
(* it looks up in its cache.  Listeners are called one after the other;    *)
(* while one of them runs it may bind others, trigger another event or the *)
(* same again, change the data that it was given, or stop the event.       *)
(***************************************************************************)
EXTENDS Naturals, Sequences, FiniteSets
LOCAL INSTANCE FiniteSetsExt

CONSTANTS
    Listener,    \* functions
    EventName,   \* names of events
    MaxBound,    \* BOUND: calls of bind and one
    MaxFired,    \* BOUND: events
    MaxNested    \* BOUND: events within events

ASSUME EventsAssumption ==
    /\ MaxBound \in Nat /\ MaxFired \in Nat /\ MaxNested \in Nat

VARIABLES
    listeners,   \* the listeners of each event, in the order in which they were bound
    underWay,    \* events under way; the last one is the innermost
    bound,       \* BOUND
    fired        \* BOUND

eventVars == <<listeners, underWay, bound, fired>>

\* event.data: what was triggered, or a copy that a listener has changed.
Data == {"none", "intact", "changed"}
\* A listener, and whether it declares an argument.
Bound == [is : Listener, takes : BOOLEAN]
Frame == [event : EventName, next : Nat \ {0}, handlers : Nat, data : Data,
          before : Seq(Bound),                   \* HISTORY: the listeners when it began
          called : Seq(Bound \X Data)]           \* HISTORY: calls, and what they were given

EventsTypeOK ==
    /\ listeners \in [EventName -> Seq(Bound)]
    /\ underWay \in Seq(Frame)
    /\ bound \in 0 .. MaxBound /\ fired \in 0 .. MaxFired

-----------------------------------------------------------------------------
EventsInit ==
    /\ listeners = [e \in EventName |-> <<>>] /\ underWay = <<>> /\ bound = 0 /\ fired = 0

\* bind.
Bind(h, takes, events) ==
    /\ bound < MaxBound /\ bound' = bound + 1
    /\ listeners' = [e \in EventName |->
         IF e \in events THEN Append(listeners[e], [is |-> h, takes |-> takes]) ELSE listeners[e]]
    /\ UNCHANGED <<underWay, fired>>

\* one: it binds a proxy, which declares no argument.  The function that would unbind
\* it is given to the proxy as its "this" and never called.
Once(h, events) == Bind(h, FALSE, events)

\* trigger: the number of listeners is read once.
Opening(e) ==
    [event |-> e, next |-> 1, handlers |-> Len(listeners[e]), data |-> "none",
     before |-> listeners[e], called |-> <<>>]

\* The methods that are named as events.
TriggerEvent ==
    /\ fired < MaxFired /\ fired' = fired + 1 /\ Len(underWay) < MaxNested
    /\ \E e \in EventName : underWay' = Append(underWay, Opening(e))
    /\ UNCHANGED <<listeners, bound>>

Innermost == underWay[Len(underWay)]
Under == SubSeq(underWay, 1, Len(underWay) - 1)

\* The next listener is called, with a copy of the data if it declares an argument,
\* else with what the event carries; it may change that.
Call ==
    /\ underWay # <<>> /\ Innermost.next <= Innermost.handlers
    /\ LET h == listeners[Innermost.event][Innermost.next]
           given == IF h.takes THEN "intact" ELSE Innermost.data
       IN  \E left \in {given} \cup (IF given = "none" THEN {} ELSE {"changed"}) :
             underWay' = Append(Under,
                [Innermost EXCEPT !.next = @ + 1, !.data = left, !.called = Append(@, <<h, given>>)])
    /\ UNCHANGED <<listeners, bound, fired>>

\* A listener returns false or prevents the default: the others are not called.
Stop ==
    /\ underWay # <<>> /\ Innermost.next > 1 /\ underWay' = Under
    /\ UNCHANGED <<listeners, bound, fired>>

Done ==
    /\ underWay # <<>> /\ Innermost.next > Innermost.handlers /\ underWay' = Under
    /\ UNCHANGED <<listeners, bound, fired>>

EventsNext ==
    \/ \E h \in Listener, events \in (SUBSET EventName) \ {{}} :
         (\E takes \in BOOLEAN : Bind(h, takes, events)) \/ Once(h, events)
    \/ TriggerEvent \/ Call \/ Stop \/ Done

EventsSpec == EventsInit /\ [][EventsNext]_eventVars

-----------------------------------------------------------------------------
\* Whatever listeners do: an event calls those that were bound when it began, each once
\* for every time it was bound, in that order, and what one does to its data is not
\* seen by another that declares an argument.
EventsTrue ==
    \A k \in DOMAIN underWay :
        LET f == underWay[k]
        IN  /\ Len(f.called) = f.next - 1 /\ f.next <= Len(f.before) + 1
            /\ \A c \in DOMAIN f.called :
                 /\ f.called[c][1] = f.before[c]
                 /\ f.called[c][1].takes => f.called[c][2] = "intact"

-----------------------------------------------------------------------------
(***************************************************************************)
(* What elFinder looks up in its cache: the root above a directory, its    *)
(* parents and path, and a name for a new file that is still free.  The    *)
(* cache may lack a directory whose subdirectories it has, and files that  *)
(* others made.                                                            *)
(***************************************************************************)

CONSTANTS
    Folder2,    \* hashes of directories
    UpOf,       \* phash of each; of a root NoHash
    NoHash,     \* undefined
    MaxNumber,  \* BOUND: numbers in names
    MaxEvents2  \* BOUND: what others, answers and the user do

ASSUME LookupsAssumption ==
    /\ NoHash \notin Folder2 /\ UpOf \in [Folder2 -> Folder2 \cup {NoHash}]
    /\ IsFiniteSet(Folder2) /\ MaxNumber \in Nat /\ MaxEvents2 \in Nat

VARIABLES
    cachedDirs,   \* directories in the cache
    made,         \* new files on the server: the directory, and the number in the name
    cachedMade,   \* those that are in the cache
    here2,        \* cwd
    makings,      \* names that were proposed, and what became of them
    byOthers,     \* HISTORY: files that others made
    events2       \* BOUND

lookupVars == <<cachedDirs, made, cachedMade, here2, makings, byOthers, events2>>

\* "New folder", "New folder 1", ...
NewFile == [in : Folder2, no : 0 .. MaxNumber]
Making == [file : NewFile, state : {"typing", "sent", "made", "exists", "refused", "over"}]

LookupsTypeOK ==
    /\ cachedDirs \subseteq Folder2 /\ here2 \in Folder2
    /\ made \subseteq NewFile /\ cachedMade \subseteq NewFile /\ byOthers \subseteq NewFile
    /\ makings \in Seq(Making) /\ events2 \in 0 .. MaxEvents2

-----------------------------------------------------------------------------
\* parents, and path2array with names for hashes: as far up as the cache knows.
ParentsOf(hash) ==
    LET up[n \in 0 .. Cardinality(Folder2), h \in Folder2 \cup {NoHash}] ==
            IF n = 0 \/ h \notin cachedDirs THEN <<>> ELSE Append(up[n - 1, UpOf[h]], h)
    IN  up[Cardinality(Folder2), hash]

\* root: undefined as soon as a directory is not known; what follows in the code, a
\* search for a directory that has no parent, never begins.
RootOf(hash) ==
    LET climb[n \in 0 .. Cardinality(Folder2), h \in Folder2] ==
            IF n = 0 \/ h \notin cachedDirs THEN NoHash
            ELSE IF UpOf[h] = NoHash THEN h ELSE climb[n - 1, UpOf[h]]
    IN  climb[Cardinality(Folder2), hash]

\* fileByName
MadeByName(file) == file \in cachedMade

\* uniqueName
UniqueName(dir) ==
    LET free == {n \in 0 .. MaxNumber : ~MadeByName([in |-> dir, no |-> n])}
    IN  IF free = {} THEN {} ELSE {[in |-> dir, no |-> Min(free)]}

\* normalize: rows without a hash, a name or a type are dropped.
Normalized(rows) == {r.is : r \in {x \in rows : x.whole}}

Event2 == events2 < MaxEvents2 /\ events2' = events2 + 1

-----------------------------------------------------------------------------
LookupsInit ==
    /\ cachedDirs = {f \in Folder2 : UpOf[f] = NoHash} /\ here2 \in cachedDirs
    /\ made = {} /\ cachedMade = {} /\ makings = <<>> /\ byOthers = {} /\ events2 = 0

\* tree, parents, open: directories come into the cache.
Learn ==
    /\ Event2
    /\ \E rows \in SUBSET [is : Folder2, whole : BOOLEAN] :
         /\ Cardinality(rows) <= 2
         /\ cachedDirs' = cachedDirs \cup Normalized(rows)
    /\ UNCHANGED <<made, cachedMade, here2, makings, byOthers>>

\* rm in remove: a directory, and what is in the cache below those whose rows say that
\* they have subdirectories.
GoneWith(hash, having) ==
    LET gone[n \in 0 .. Cardinality(Folder2), h \in Folder2] ==
            \/ h = hash
            \/ n > 0 /\ h \in cachedDirs /\ UpOf[h] \in having \cap cachedDirs /\ gone[n - 1, UpOf[h]]
    IN  {h \in cachedDirs : gone[Cardinality(Folder2), h]}

\* remove. The directory that is shown is not told as removed: its listing fails.
ForgetDirs ==
    /\ Event2
    /\ \E f \in cachedDirs, having \in SUBSET Folder2 :
         /\ here2 \notin GoneWith(f, having)
         /\ cachedDirs' = cachedDirs \ GoneWith(f, having)
    /\ UNCHANGED <<made, cachedMade, here2, makings, byOthers>>

\* open: the files of the directory are read, those of the one before are dropped.
GoInto ==
    /\ Event2
    /\ \E f \in cachedDirs :
         /\ here2' = f
         /\ cachedMade' = {m \in cachedMade : m.in # here2} \cup {m \in made : m.in = f}
    /\ UNCHANGED <<cachedDirs, made, makings, byOthers>>

\* mixin.make: a name is proposed, which the user leaves as it is.
Propose ==
    /\ Event2
    /\ \E file \in UniqueName(here2) : makings' = Append(makings, [file |-> file, state |-> "typing"])
    /\ UNCHANGED <<cachedDirs, made, cachedMade, here2, byOthers>>

MakingIs(k, state) == makings' = [makings EXCEPT ![k].state = state]

\* blur: once more the name is looked up, then the request is sent.
Commit(k) ==
    /\ makings[k].state = "typing"
    /\ MakingIs(k, IF MadeByName(makings[k].file) THEN "exists" ELSE "sent")
    /\ UNCHANGED <<cachedDirs, made, cachedMade, here2, byOthers, events2>>

\* mkdir on the server.
ServeMaking(k) ==
    /\ makings[k].state = "sent"
    /\ IF makings[k].file \in made THEN MakingIs(k, "refused") /\ UNCHANGED made
       ELSE MakingIs(k, "made") /\ made' = made \cup {makings[k].file}
    /\ UNCHANGED <<cachedDirs, cachedMade, here2, byOthers, events2>>

\* The answer: added.
MakingAnswered(k) ==
    /\ makings[k].state = "made" /\ MakingIs(k, "over")
    /\ cachedMade' = cachedMade \cup {makings[k].file}
    /\ UNCHANGED <<cachedDirs, made, here2, byOthers, events2>>

\* Somebody else makes a file of that name.
MadeBySomebody ==
    /\ Event2
    /\ \E m \in NewFile \ made : made' = made \cup {m} /\ byOthers' = byOthers \cup {m}
    /\ UNCHANGED <<cachedDirs, cachedMade, here2, makings>>

LookupsNext ==
    \/ Learn \/ ForgetDirs \/ GoInto \/ Propose \/ MadeBySomebody
    \/ \E k \in DOMAIN makings : Commit(k) \/ ServeMaking(k) \/ MakingAnswered(k)

LookupsSpec == LookupsInit /\ [][LookupsNext]_lookupVars

-----------------------------------------------------------------------------
\* A directory has a root exactly if its parents lead to one, and then it is the first
\* of them; else what is told of its parents begins in the middle.
RootsAbove ==
    \A f \in cachedDirs :
        LET parents == ParentsOf(f)
        IN  /\ parents[Len(parents)] = f
            /\ \A k \in 1 .. Len(parents) - 1 : UpOf[parents[k + 1]] = parents[k]
            /\ IF UpOf[parents[1]] = NoHash THEN RootOf(f) = parents[1]
               ELSE RootOf(f) = NoHash /\ UpOf[parents[1]] \notin cachedDirs

\* A name that was proposed is refused only if somebody else made the file, or it was
\* proposed twice before the first of the two was answered.
NamesFree ==
    \A k \in DOMAIN makings :
        makings[k].state \in {"exists", "refused"} =>
            \/ makings[k].file \in byOthers
            \/ \E j \in DOMAIN makings \ {k} : makings[j].file = makings[k].file

\* Of the files in the directory that is shown the cache lacks those that somebody else
\* made, and those whose answer is on its way.
ShownKnown ==
    \A m \in made \ cachedMade :
        m.in = here2 => \/ m \in byOthers
                        \/ \E k \in DOMAIN makings : makings[k] = [file |-> m, state |-> "made"]

LookupsTrue == RootsAbove /\ NamesFree /\ ShownKnown
=============================================================================
