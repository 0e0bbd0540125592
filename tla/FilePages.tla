------------------------------ MODULE FilePages ------------------------------
(***************************************************************************)
(* The page with its two file managers, that of local and that of remote   *)
(* files, and what they share: the history and the address of the browser, *)
(* and its storage, which other windows and other programs write to also.  *)
(* A manager starts at the directory of the address or the one that it was *)
(* left at, and remembers how it lists files.                              *)
(***************************************************************************)
EXTENDS Integers, Sequences, FiniteSets

CONSTANTS
    Manager,     \* the elFinders of the page
    DirsOf,      \* the directories of each one's volumes
    HomeOf,      \* the root of its first volume
    Sample,      \* files: records of whether it is a directory, a name, a size
    SortType,    \* the sort rules: "name" and others of Sample's fields
    LeftAt,      \* the directories the managers may have been left at
    OtherSorts,  \* how other windows list files
    Quota,       \* values that the browser's storage can keep
    MaxEntries,  \* BOUND: entries of the browser's history
    MaxSteps2,   \* BOUND: what users do in a behaviour
    Unset        \* no value

AllDirs == UNION {DirsOf[m] : m \in Manager}
StoredKey == {"view", "type", "order", "stick", "lastdir"}
Order     == {"asc", "desc"}
SortRule  == [type : SortType, order : Order, stick : BOOLEAN]
Look      == {"icons", "list"}

ASSUME PagesConstants ==
    /\ \A m, n \in Manager : m # n => DirsOf[m] \cap DirsOf[n] = {}
    /\ \A m \in Manager : HomeOf[m] \in DirsOf[m]
    /\ \A left \in LeftAt, m \in Manager : left[m] \in DirsOf[m] \cup {"", Unset}
    /\ "name" \in SortType /\ OtherSorts \subseteq SortRule /\ Unset \notin AllDirs
    /\ Quota \in Nat \ {0} /\ MaxEntries \in Nat \ {0} /\ MaxSteps2 \in Nat

VARIABLES
    entries, here,  \* the browser's history: the directory of each state, and the one it is at
    phases,         \* of each manager: "starting", "ready", "failed"
    places,         \* its current directory
    asked,          \* requests to open that are pending: at most one of a manager
    sorts,          \* sortType, sortOrder and sortStickFolders
    looks,          \* value of its command "view": what the button shows
    layout,         \* how its directory is drawn
    store,          \* the browser's storage: values of each manager's keys
    othersKept,     \* values of other programs, the terminal's history for one
    lastSort,       \* HISTORY: the sort that was chosen last, in any window
    meant,          \* HISTORY: directories its user sent a manager to, or left it at
    opened,         \* HISTORY: directories other windows opened since the page was loaded
    elsewhere,      \* HISTORY: managers whose stored view another window changed, or was lost
    astray,         \* HISTORY: the entry the browser is at could not be opened, or was given up
    steps2

pageBrowser  == <<entries, here, astray>>
pageManagers == <<phases, places, asked, sorts, looks, layout, meant>>
pageStore    == <<store, othersKept, lastSort, opened, elsewhere>>
pageVars     == <<pageBrowser, pageManagers, pageStore, steps2>>

NotAsked == [by |-> "nobody", target |-> Unset]
OpenRequest == [by : {"init", "user", "browser"}, target : AllDirs \cup {Unset, "none"}]

PagesTypeOK ==
    /\ entries \in Seq(AllDirs \cup {Unset}) /\ here \in 1 .. Len(entries)
    /\ phases \in [Manager -> {"starting", "ready", "failed"}]
    /\ places \in [Manager -> AllDirs \cup {Unset}]
    /\ asked \in [Manager -> OpenRequest \cup {NotAsked}]
    /\ sorts \in [Manager -> SortRule]
    /\ looks \in [Manager -> Look] /\ layout \in [Manager -> Look]
    /\ \A m \in Manager :
         /\ DOMAIN store[m] = StoredKey
         /\ store[m].view \in Look \cup {Unset}
         /\ store[m].type \in SortType \cup {Unset} /\ store[m].order \in Order \cup {Unset}
         /\ store[m].stick \in {"1", "", Unset}
         /\ store[m].lastdir \in AllDirs \cup {"", Unset}
    /\ othersKept \in 0 .. Quota
    /\ lastSort \in [Manager -> SortRule \cup {Unset}]
    /\ meant \in [Manager -> SUBSET AllDirs] /\ opened \in [Manager -> SUBSET AllDirs]
    /\ elsewhere \subseteq Manager
    /\ astray \in BOOLEAN /\ steps2 \in 0 .. MaxSteps2

-----------------------------------------------------------------------------
(***************************************************************************)
(* The storage.  A value for which there is no room makes localStorage     *)
(* forget everything that any program of the site keeps.                   *)
(***************************************************************************)
Stored(st) == Cardinality({mk \in Manager \X StoredKey : st[mk[1]][mk[2]] # Unset})

Fits(st, others) == Stored(st) + others <= Quota

Emptied == [m \in Manager |-> [k \in StoredKey |-> Unset]]

\* What is stored and what others keep, after a setItem.
Put(kept, m, k, v) ==
    LET added == [kept.st EXCEPT ![m][k] = v] IN
    IF Fits(added, kept.others) THEN [kept EXCEPT !.st = added]
    ELSE [st |-> [Emptied EXCEPT ![m][k] = v], others |-> 0, lost |-> TRUE]

Kept == [st |-> store, others |-> othersKept, lost |-> FALSE]

Written(kept) == store' = kept.st /\ othersKept' = kept.others

\* Managers whose stored view is another than the one they go by.
Lost(kept) == IF kept.lost THEN elsewhere \cup {m \in Manager : looks[m] = "list"} ELSE elsewhere

-----------------------------------------------------------------------------
(***************************************************************************)
(* The order of the files of a directory.                                  *)
(***************************************************************************)
Sign(x, y) == IF x = y THEN 0 ELSE IF x > y THEN 1 ELSE -1

Rule(type, f, g) == Sign(f[type], g[type])

compare(s, f, g) ==
    LET a == IF s.order = "asc" THEN f ELSE g
        b == IF s.order = "asc" THEN g ELSE f
        res == Rule(s.type, a, b)
    IN  IF s.stick /\ f.dir # g.dir THEN (IF f.dir THEN -1 ELSE 1)
        ELSE IF s.type # "name" /\ res = 0 THEN Rule("name", a, b)
        ELSE res

-----------------------------------------------------------------------------
Or(v, default) == IF v = Unset THEN default ELSE v

SortOf(kept) == [type  |-> Or(kept.type, "name"), order |-> Or(kept.order, "asc"),
                 stick |-> kept.stick \in {Unset, "1"}]

\* The directory of the address is asked for, else the one remembered.
startDir(m, st, address) ==
    IF address # Unset THEN address
    ELSE IF st[m].lastdir \in AllDirs THEN st[m].lastdir ELSE "none"

\* The page is loaded: each manager reads the storage and sends its first request.
Load(st, address) ==
    /\ phases' = [m \in Manager |-> "starting"]
    /\ places' = [m \in Manager |-> Unset]
    /\ asked' = [m \in Manager |-> [by |-> "init", target |-> startDir(m, st, address)]]
    /\ sorts' = [m \in Manager |-> SortOf(st[m])]
    /\ looks' = [m \in Manager |-> Or(st[m].view, "icons")]
    /\ layout' = looks'
    /\ meant' = [m \in Manager |-> meant[m] \cup ({startDir(m, st, address)} \cap DirsOf[m])]

\* The storage may have values of an earlier visit.
PagesInit ==
    /\ entries = <<Unset>> /\ here = 1 /\ astray = FALSE
    /\ \E left \in LeftAt :
         /\ store = [m \in Manager |-> [Emptied[m] EXCEPT !.lastdir = left[m]]]
         /\ asked = [m \in Manager |-> [by |-> "init", target |-> IF left[m] \in AllDirs THEN left[m] ELSE "none"]]
    /\ othersKept \in {0, Quota - Stored(store)}
    /\ phases = [m \in Manager |-> "starting"] /\ places = [m \in Manager |-> Unset]
    /\ sorts = [m \in Manager |-> [type |-> "name", order |-> "asc", stick |-> TRUE]]
    /\ looks = [m \in Manager |-> "icons"] /\ layout = looks
    /\ lastSort = [m \in Manager |-> Unset] /\ opened = [m \in Manager |-> {}] /\ elsewhere = {} /\ steps2 = 0
    /\ meant = [m \in Manager |-> {store[m].lastdir} \cap DirsOf[m]]

Step2 == steps2 < MaxSteps2 /\ steps2' = steps2 + 1

-----------------------------------------------------------------------------
\* The user of a manager opens a directory; what was asked for before is aborted.
OpenDir(m, d) ==
    /\ Step2 /\ phases[m] = "ready" /\ d \in DirsOf[m]
    /\ asked' = [asked EXCEPT ![m] = [by |-> "user", target |-> d]]
    /\ meant' = [meant EXCEPT ![m] = @ \cup {d}]
    /\ astray' = (astray \/ asked[m].by = "browser")
    /\ UNCHANGED <<entries, here, phases, places, sorts, looks, layout, pageStore>>

\* The browser goes back or forward: every manager that has files hears of it
\* and asks for the directory, whosever it is.
PopTo(i) ==
    /\ here' = i
    /\ asked' = [m \in Manager |->
           IF phases[m] = "ready" /\ entries[i] # Unset
           THEN [by |-> "browser", target |-> entries[i]] ELSE asked[m]]

Popstate ==
    /\ Step2
    /\ \E i \in {here - 1, here + 1} \cap DOMAIN entries : PopTo(i)
    /\ UNCHANGED <<entries, astray, phases, places, sorts, looks, layout, meant, pageStore>>

\* The history of the browser when a manager has opened its directory.
BrowserHistory(d) ==
    IF entries[here] = Unset
    THEN entries' = [entries EXCEPT ![here] = d] /\ here' = here
    ELSE IF entries[here] = d THEN UNCHANGED <<entries, here>>
    ELSE /\ here < MaxEntries
         /\ entries' = Append(SubSeq(entries, 1, here), d) /\ here' = here + 1

\* The server opens the root of the first volume for what it does not know.
Opened2(m, target) == IF target \in DirsOf[m] THEN target ELSE HomeOf[m]

\* open, and the handlers of its event: the view, the history, the button.
Answered(m) ==
    /\ asked[m] # NotAsked
    /\ LET d    == Opened2(m, asked[m].target)
           kept == Put(Kept, m, "lastdir", d)
       IN  /\ places' = [places EXCEPT ![m] = d]
           /\ phases' = [phases EXCEPT ![m] = "ready"]
           /\ BrowserHistory(d)
           /\ Written(kept) /\ elsewhere' = Lost(kept)
           /\ astray' = FALSE
    /\ asked' = [asked EXCEPT ![m] = NotAsked]
    /\ UNCHANGED <<sorts, looks, layout, meant, lastSort, opened, steps2>>

\* A first request that fails is the end of the manager, and of what it remembers.
ForgottenOnFail(m) == Put(Kept, m, "lastdir", "")

Refused2(m) ==
    /\ asked[m] # NotAsked
    /\ IF asked[m].by = "init"
       THEN LET kept == ForgottenOnFail(m) IN
            /\ phases' = [phases EXCEPT ![m] = "failed"]
            /\ Written(kept) /\ elsewhere' = Lost(kept)
       ELSE UNCHANGED <<phases, store, othersKept, elsewhere>>
    /\ asked' = [asked EXCEPT ![m] = NotAsked]
    /\ astray' = (astray \/ asked[m].by # "user")
    /\ UNCHANGED <<entries, here, places, sorts, looks, layout, meant, lastSort, opened, steps2>>

-----------------------------------------------------------------------------

\* setSort stores one value after the other.
PutSort(kept, m, s) ==
    Put(Put(Put(kept, m, "type", s.type), m, "order", s.order),
        m, "stick", IF s.stick THEN "1" ELSE "")

ChooseSort(m, s) ==
    LET kept == PutSort(Kept, m, s) IN
    /\ Written(kept) /\ elsewhere' = Lost(kept)
    /\ sorts' = [sorts EXCEPT ![m] = s]
    /\ lastSort' = [lastSort EXCEPT ![m] = s]

\* A rule is chosen in the menu or in the head of the list; that in use is turned.
SortBy(m, type) ==
    /\ Step2 /\ phases[m] = "ready"
    /\ ChooseSort(m, [sorts[m] EXCEPT !.type = type,
           !.order = IF type # sorts[m].type THEN @ ELSE IF @ = "asc" THEN "desc" ELSE "asc"])
    /\ UNCHANGED <<pageBrowser, phases, places, asked, looks, layout, meant, opened>>

\* "Folders first" is turned on or off.
StickFolders(m) ==
    /\ Step2 /\ phases[m] = "ready"
    /\ ChooseSort(m, [sorts[m] EXCEPT !.stick = ~@])
    /\ UNCHANGED <<pageBrowser, phases, places, asked, looks, layout, meant, opened>>

Other(look) == IF look = "list" THEN "icons" ELSE "list"

\* viewchange: the directory is drawn as the storage says.
DrawnAs(kept, m) == Or(kept.st[m].view, "icons")

ChangeView(m) ==
    /\ Step2 /\ phases[m] = "ready"
    /\ LET kept == Put(Kept, m, "view", Other(looks[m])) IN
       /\ Written(kept)
       /\ elsewhere' = Lost(kept) \ {m}
       /\ looks' = [looks EXCEPT ![m] = Other(@)]
       /\ layout' = [layout EXCEPT ![m] = DrawnAs(kept, m)]
    /\ UNCHANGED <<pageBrowser, phases, places, asked, sorts, meant, lastSort, opened>>

-----------------------------------------------------------------------------
\* The same page in another window stores what its user does there.
ElsewhereSort(m, s) ==
    /\ Step2
    /\ LET kept == PutSort(Kept, m, s) IN Written(kept) /\ elsewhere' = Lost(kept)
    /\ lastSort' = [lastSort EXCEPT ![m] = s]
    /\ UNCHANGED <<pageBrowser, pageManagers, opened>>

ElsewhereView(m, look) ==
    /\ Step2
    /\ LET kept == Put(Kept, m, "view", look) IN
       Written(kept) /\ elsewhere' = Lost(kept) \cup {m}
    /\ UNCHANGED <<pageBrowser, pageManagers, lastSort, opened>>

ElsewhereOpen(m, d) ==
    /\ Step2 /\ d \in DirsOf[m]
    /\ LET kept == Put(Kept, m, "lastdir", d) IN Written(kept) /\ elsewhere' = Lost(kept)
    /\ opened' = [opened EXCEPT ![m] = @ \cup {d}]
    /\ UNCHANGED <<pageBrowser, pageManagers, lastSort>>

\* Other programs of the site store and remove values; they do not make room.
OthersStore ==
    /\ Step2 /\ othersKept' \in {othersKept - 1, othersKept + 1} \cap 0 .. Quota - Stored(store)
    /\ UNCHANGED <<pageBrowser, pageManagers, store, lastSort, opened, elsewhere>>

\* The page is loaded again; its address and the browser's history stay.
ReloadPage ==
    /\ Step2
    /\ Load(store, entries[here])
    /\ elsewhere' = {} /\ opened' = [m \in Manager |-> {}]
    /\ UNCHANGED <<pageBrowser, store, othersKept, lastSort>>

PagesNext ==
    \/ \E m \in Manager :
         \/ \E d \in DirsOf[m] : OpenDir(m, d) \/ ElsewhereOpen(m, d)
         \/ Answered(m) \/ Refused2(m)
         \/ \E type \in SortType : SortBy(m, type)
         \/ StickFolders(m) \/ ChangeView(m)
         \/ \E s \in OtherSorts : ElsewhereSort(m, s)
         \/ \E look \in Look : ElsewhereView(m, look)
    \/ Popstate \/ OthersStore \/ ReloadPage

-----------------------------------------------------------------------------
(***************************************************************************)
(* Properties.                                                             *)
(***************************************************************************)
\* A manager is where its user sent or left it, or at its first root; also when
\* the browser goes to an entry of the other manager (findCwd, popstate).
WhereMeant ==
    \A m \in Manager : places[m] \in meant[m] \cup {HomeOf[m], Unset}

\* When nothing is asked for, the address names a directory that one of the
\* managers shows, so that a reload finds it again.
AddressTrue ==
    (\A m \in Manager : asked[m] = NotAsked) /\ ~astray
        => \E m \in Manager : places[m] = entries[here]

\* What a manager failed to start at is forgotten: the next start asks for it only
\* if the address does, or another window has opened it (fail, lastDir).
FailedForgotten ==
    \A m \in Manager : phases[m] = "failed" => store[m].lastdir \in {"", Unset} \cup opened[m]

\* Of what was chosen last in any window, what is stored is all or what a full
\* storage left, never a part of one choice with a part of another (setSort).
SortWhole ==
    \A m \in Manager :
      IF lastSort[m] = Unset THEN store[m].type = Unset /\ store[m].order = Unset /\ store[m].stick = Unset
      ELSE /\ store[m].type \in {Unset, lastSort[m].type}
           /\ store[m].order \in {Unset, lastSort[m].order}
           /\ store[m].stick \in {Unset, IF lastSort[m].stick THEN "1" ELSE ""}

\* The button, the directory and the storage that "rename" and "mkdir" read agree on
\* the view, unless another window changed it or a full storage lost it.
ViewAgreed ==
    \A m \in Manager : m \notin elsewhere
        => looks[m] = layout[m] /\ Or(store[m].view, "icons") = layout[m]

\* Every sort puts any files in one order: compare is total and transitive, equals
\* are interchangeable, and folders come first when they are to.
SortsOrdered ==
    \A s \in {sorts[m] : m \in Manager} : \A f, g \in Sample :
      /\ compare(s, f, g) = -compare(s, g, f)
      /\ compare(s, f, g) <= 0
           => \A h \in Sample : compare(s, g, h) <= 0 => compare(s, f, h) <= 0
      /\ s.stick /\ f.dir /\ ~g.dir => compare(s, f, g) < 0
      /\ compare(s, f, g) = 0 => f.name = g.name

PagesTrue == WhereMeant /\ AddressTrue /\ FailedForgotten /\ SortWhole /\ ViewAgreed /\ SortsOrdered
=============================================================================
