------------------------------- MODULE Controls -------------------------------
(***************************************************************************)
(* What surrounds the files in elFinder: which commands can be given and   *)
(* which buttons look so, the context menu, the search box, the path, the  *)
(* status bar and the header of the list.  None of it is computed when it  *)
(* is drawn: every handler of an event brings its own part up to date, and *)
(* what a part says is as old as the last event it listened to.            *)
(***************************************************************************)
EXTENDS Naturals, Sequences, FiniteSets

CONSTANTS
    Place,     \* directories; the first is the root
    Item,      \* files and directories that can be in them
    Folder,    \* those that are directories
    Image,     \* those that are images
    Fixed,     \* those that are locked
    MaxDeeds,  \* BOUND: what users and answers do in a behaviour
    MaxVisits  \* BOUND: the length of the history

ASSUME ControlsConstants ==
    /\ 1 \in Place /\ Place \subseteq Nat
    /\ Folder \subseteq Item /\ Fixed \subseteq Item /\ Image \subseteq Item \ Folder
    /\ IsFiniteSet(Item)
    /\ MaxDeeds \in Nat /\ MaxVisits \in Nat \ {0}

VARIABLES
    fm,        \* elFinder: see Fm
    waits,     \* requests under way
    excused,   \* HISTORY: what has put parts out of step: see the properties
    deeds      \* BOUND

controlVars == <<fm, waits, excused, deeds>>

\* Commands with the same conditions are one: cut and rm, edit and download, mkfile
\* and mkdir, home and up; and "view" is all those that can always be given.
Orders == {"open", "copy", "rm", "rename", "download", "duplicate", "resize", "mkdir",
           "upload", "paste", "back", "forward", "up", "view"}
OnSelect     == {"open", "copy", "rm", "rename", "download", "duplicate", "forward"}
OffInResults == {"mkdir", "upload"}
InMenu       == {"open", "copy", "rm", "rename", "download", "duplicate"}

Fm == [ place : Place, write : BOOLEAN, known : SUBSET Item,   \* the directory and its files
        visited : Seq(Place), at : Nat, record : BOOLEAN,      \* history, current, update
        picked : SUBSET Item, clip : SUBSET Item,              \* selected, clipboard
        enabled : BOOLEAN, before : BOOLEAN, overlay : BOOLEAN,\* enabled, prevEnabled
        off : BOOLEAN,                                         \* _disabled, of OffInResults
        able : SUBSET Orders, lit : SUBSET Orders,             \* state, and the buttons
        menu : SUBSET Item, offers : SUBSET Orders,            \* the context menu
        query : BOOLEAN, results : BOOLEAN,                    \* the view of the files
        box : BOOLEAN, again : BOOLEAN,                        \* search box, reload
        path : {"place", "results"}, counted : {"place", "results"}, told : SUBSET Item,
        list : BOOLEAN, asc : BOOLEAN, timer : BOOLEAN, header : Seq(BOOLEAN) ]

Requests == [cmd : {"open"}, place : Place, history : BOOLEAN]
            \cup [cmd : {"search", "sync", "reload"}]

ControlsTypeOK ==
    /\ fm \in Fm
    /\ waits \subseteq Requests /\ Cardinality(waits) <= 4
    /\ excused \subseteq {"history", "write", "woken", "results", "recounted", "header"}
    /\ deeds \in 0 .. MaxDeeds

-----------------------------------------------------------------------------
(***************************************************************************)
(* Commands.                                                               *)
(***************************************************************************)

\* getstate of each command, for these files.
One(files)   == Cardinality(files) = 1
Some(files)  == files # {}
CanOpen(files)      == One(files) \/ (Some(files) /\ files \cap Folder = {})
CanCopy(files)      == Some(files)
CanRm(files)        == Some(files) /\ files \cap Fixed = {}
CanRename(files)    == One(files) /\ files \cap Fixed = {}
CanDownload(files)  == Some(files) /\ files \cap Folder = {}
CanDuplicate(u, files) == Some(files) /\ u.write
CanResize(files)    == One(files) /\ files \subseteq Image
CanMake(u)          == u.write /\ ~u.off
CanUpload(u)        == u.write /\ ~u.off
CanPaste(u)         == u.clip # {} /\ u.write
CanBack(u)          == u.at > 1
CanForward(u)       == u.at < Len(u.visited)
CanGoUp(u)          == u.place # 1

Possible(u, files) ==
    {"view"}
    \cup (IF CanOpen(files)         THEN {"open"}      ELSE {})
    \cup (IF CanCopy(files)         THEN {"copy"}      ELSE {})
    \cup (IF CanRm(files)           THEN {"rm"}        ELSE {})
    \cup (IF CanRename(files)       THEN {"rename"}    ELSE {})
    \cup (IF CanDownload(files)     THEN {"download"}  ELSE {})
    \cup (IF CanDuplicate(u, files) THEN {"duplicate"} ELSE {})
    \cup (IF CanResize(files)       THEN {"resize"}    ELSE {})
    \cup (IF CanMake(u)             THEN {"mkdir"}     ELSE {})
    \cup (IF CanUpload(u)           THEN {"upload"}    ELSE {})
    \cup (IF CanPaste(u)            THEN {"paste"}     ELSE {})
    \cup (IF CanBack(u)             THEN {"back"}      ELSE {})
    \cup (IF CanForward(u)          THEN {"forward"}   ELSE {})
    \cup (IF CanGoUp(u)             THEN {"up"}        ELSE {})

\* change: a command whose state is another now tells its button.
Redrawn(lit, was, now) == (lit \ (was \ now)) \cup (now \ was)

\* update, of some commands.
Update(u, cmds) ==
    LET now == (u.able \ cmds) \cup (cmds \cap Possible(u, u.picked))
    IN  [u EXCEPT !.able = now, !.lit = Redrawn(@, u.able, now)]

\* The event disable: nothing can be given, menus close.
Disable(u) ==
    [u EXCEPT !.before = u.enabled, !.enabled = FALSE, !.able = {},
              !.lit = Redrawn(@, u.able, {}), !.menu = {}, !.offers = {}]

\* The event enable.  elFinder itself is not enabled below an overlay, its commands
\* are brought up to date all the same.
Enable(u) == Update([u EXCEPT !.enabled = @ \/ ~u.overlay], Orders)

\* The event select.
Selected(u, files) ==
    Update([u EXCEPT !.picked = files \cap u.known, !.menu = {}, !.offers = {},
                     !.told = files \cap u.known], OnSelect)

\* content: the view is made anew, of the directory or of results.
Contents(u, results) ==
    Selected([u EXCEPT !.results = results, !.header = <<>>], {})

\* The events sortchange, viewchange, search, searchend and open start the timer.
Timer(u) == [u EXCEPT !.timer = TRUE]

-----------------------------------------------------------------------------
(***************************************************************************)
(* History, and the event open.                                            *)
(***************************************************************************)
Record(u) ==
    LET kept == SubSeq(u.visited, 1, u.at)
        all  == IF kept[Len(kept)] = u.place THEN kept ELSE Append(kept, u.place)
    IN  IF u.record THEN [u EXCEPT !.visited = all, !.at = Len(all)]
        ELSE [u EXCEPT !.record = TRUE]

Reset(u) == [u EXCEPT !.visited = <<u.place>>, !.at = 1, !.record = TRUE]

\* MUTANT: commands look at the history before it has recorded the directory.
OpenedUnrecorded(u, place, write, known) ==
    LET v == [u EXCEPT !.place = place, !.write = write, !.known = known, !.picked = {}, !.off = FALSE]
        w == Record(Update(v, Orders \ {"open"}))
    IN  Timer([Contents(w, FALSE) EXCEPT !.path = "place", !.counted = "place"])

\* The handlers of open: elFinder's own, the history's, those of commands (open has
\* none), of the view, the path and the status bar.
Opened(u, place, write, known) ==
    LET v == Record([u EXCEPT !.place = place, !.write = write, !.known = known,
                              !.picked = {}, !.off = FALSE])
        w == Update(v, Orders \ {"open"})
    IN  Timer([Contents(w, FALSE) EXCEPT !.path = "place", !.counted = "place"])

\* The events search and searchend.
Found(u, known) ==
    LET v == Update([u EXCEPT !.known = @ \cup known, !.off = TRUE, !.again = TRUE], OffInResults)
    IN  Timer([Contents(v, TRUE) EXCEPT !.path = "results", !.counted = "results", !.box = TRUE])

SearchEnd(u) ==
    LET v == Update([u EXCEPT !.off = FALSE, !.again = FALSE], OffInResults)
        w == IF u.query THEN Contents([v EXCEPT !.query = FALSE], FALSE) ELSE v
    IN  Timer([w EXCEPT !.path = "place", !.counted = "place"])

-----------------------------------------------------------------------------
ControlsInit ==
    /\ \E known \in SUBSET Item, write, list \in BOOLEAN :
         fm = Opened([place |-> 1, write |-> write, known |-> known, visited |-> <<1>>, at |-> 1,
                      record |-> TRUE, picked |-> {}, clip |-> {}, enabled |-> TRUE, before |-> FALSE,
                      overlay |-> FALSE, off |-> FALSE, able |-> {}, lit |-> {}, menu |-> {},
                      offers |-> {}, query |-> FALSE, results |-> FALSE, box |-> FALSE,
                      again |-> FALSE, path |-> "place", counted |-> "place", told |-> {},
                      list |-> list, asc |-> TRUE, timer |-> FALSE, header |-> <<>>],
                     1, write, known)
    /\ waits = {} /\ excused = {} /\ deeds = 0

Deed == deeds < MaxDeeds /\ deeds' = deeds + 1

\* What puts parts out of step, and what brings them in step again: see below.
Excuse(new) == excused' = excused \cup new
Calm(old)   == excused' = excused \ old
Updated     == {"history", "write", "woken"}

\* The mouse button is pressed somewhere in elFinder.
Pressed == IF fm.enabled THEN fm ELSE Enable(fm)
Awake   == IF fm.enabled THEN excused ELSE excused \ Updated

\* A key gives a command whatever its state is, a button only if it looks so.
Key         == fm.enabled
Button(cmd) == ~fm.overlay /\ cmd \in fm.lit
Given(cmd)  == Key \/ Button(cmd)

-----------------------------------------------------------------------------
(***************************************************************************)
(* The mouse, the overlay below dialogs, and the selection.                *)
(***************************************************************************)
\* On a dialog, too, whose overlay keeps elFinder disabled.
Press ==
    /\ Deed /\ ~fm.enabled
    /\ fm' = Enable(fm)
    /\ excused' = (Awake \ {"woken"}) \cup (IF fm.overlay THEN {"woken"} ELSE {})
    /\ UNCHANGED waits

ClickOutside ==
    /\ Deed /\ fm.enabled
    /\ fm' = Disable(fm) /\ UNCHANGED <<waits, excused>>

ShowOverlay ==
    /\ Deed /\ ~fm.overlay
    /\ fm' = Disable([fm EXCEPT !.overlay = TRUE])
    /\ Calm({"woken"}) /\ UNCHANGED waits

HideOverlay ==
    /\ Deed /\ fm.overlay
    /\ LET u == [fm EXCEPT !.overlay = FALSE] IN fm' = IF fm.before THEN Enable(u) ELSE u
    /\ excused' = IF fm.before THEN excused \ Updated ELSE excused
    /\ UNCHANGED waits

Pick(files) ==
    /\ Deed /\ ~fm.overlay
    /\ fm' = Selected(Pressed, files)
    /\ excused' = Awake /\ UNCHANGED waits

\* The right button, on a file: it is selected, unless it was.
Menu(file) ==
    LET u    == IF file \in fm.picked THEN Pressed ELSE Selected(Pressed, {file})
        cmds == InMenu \cap Possible(u, u.picked)
    IN
    /\ Deed /\ ~fm.overlay
    /\ fm' = [u EXCEPT !.menu = u.picked, !.offers = cmds]
    /\ excused' = Awake /\ UNCHANGED waits

ChooseInMenu ==
    /\ Deed /\ fm.offers # {}
    /\ fm' = [fm EXCEPT !.menu = {}, !.offers = {}]
    /\ UNCHANGED <<waits, excused>>

\* copy and cut; without a selection the keys empty the clipboard, as Esc does and
\* the end of a paste of what was cut.
CopyToClip(files) ==
    /\ Deed
    /\ files # {} => Given("copy")
    /\ files \in {{}, fm.picked}
    /\ fm' = Update([fm EXCEPT !.clip = files], {"paste"})
    /\ IF ~fm.enabled /\ ~fm.overlay /\ fm'.able # {} THEN Excuse({"woken"}) ELSE UNCHANGED excused
    /\ UNCHANGED waits

-----------------------------------------------------------------------------
(***************************************************************************)
(* Directories.                                                            *)
(***************************************************************************)
AskOpen(place, history) ==
    waits' = {r \in waits : r.cmd # "open"} \cup {[cmd |-> "open", place |-> place, history |-> history]}
NoOpen == \A r \in waits : r.cmd # "open"

\* open, up, home, or a click in the path.
Open(place) ==
    /\ Deed /\ NoOpen /\ place # fm.place
    /\ ~fm.overlay
    /\ AskOpen(place, FALSE) /\ fm' = Pressed /\ excused' = Awake

\* A click in the tree ends a search first, whether there is one or not.
ClickInTree(place) ==
    LET u == SearchEnd(Pressed) IN
    /\ Deed /\ NoOpen /\ ~fm.overlay
    /\ fm' = u
    /\ IF place # fm.place THEN AskOpen(place, FALSE) ELSE UNCHANGED waits
    /\ excused' = ((Awake \ (IF fm.query \/ ~fm.results THEN {"results", "recounted"} ELSE {}))
                     \cup (IF u.results THEN {"results"} ELSE {}))
                   \cup (IF u.header # <<>> THEN {"header"} ELSE {})

\* history.back and forward: the history moves at once.
Travel(forward) ==
    /\ Deed /\ NoOpen
    /\ IF forward THEN fm.at < Len(fm.visited) /\ Given("forward") ELSE fm.at > 1 /\ Given("back")
    /\ LET at == IF forward THEN fm.at + 1 ELSE fm.at - 1 IN
       /\ fm' = [fm EXCEPT !.at = at, !.record = FALSE]
       /\ AskOpen(fm.visited[at], TRUE)
    /\ Excuse({"history"})

OpenDone(r) ==
    /\ Deed /\ r.cmd = "open" /\ waits' = waits \ {r}
    /\ \E write \in BOOLEAN : \E known \in SUBSET Item : fm' = Opened(fm, r.place, write, known)
    /\ Len(fm'.visited) <= MaxVisits
    /\ excused' = (excused \ {"history", "write", "results", "header", "recounted"})
                     \cup (IF fm.query \/ fm.again THEN {"results"} ELSE {})
                     \cup (IF ~fm.enabled THEN {"woken"} ELSE {})

OpenFails(r) ==
    /\ Deed /\ r.cmd = "open" /\ waits' = (waits \ {r}) \cup {[cmd |-> "sync"]}
    /\ IF r.history THEN fm' = Reset(fm) /\ Excuse({"history"}) ELSE UNCHANGED <<fm, excused>>

\* reload; while results are shown it presses the button of the search instead.
Reload ==
    /\ Deed /\ Given("view") /\ [cmd |-> "reload"] \notin waits /\ Cardinality(waits) < 2
    /\ waits' = waits \cup {[cmd |-> IF fm.again THEN "search" ELSE "reload"]}
    /\ IF fm.again THEN fm' = [fm EXCEPT !.query = TRUE] /\ Excuse({"results"})
       ELSE UNCHANGED <<fm, excused>>

\* Every command but open looks again at an event reload, and open at its own.
Reloaded(u) == [Update([u EXCEPT !.off = FALSE], Orders) EXCEPT !.counted = "place"]

\* remove and change, which select, and add; then the event reload if it was one.
SyncDone(r) ==
    /\ Deed /\ r.cmd \in {"sync", "reload"} /\ waits' = waits \ {r}
    /\ \E known \in SUBSET Item, write \in BOOLEAN :
         LET same == known = fm.known /\ write = fm.write
             u == [fm EXCEPT !.known = known, !.write = write]
             v == IF fm.known \subseteq known /\ write = fm.write THEN u ELSE Selected(u, fm.picked)
             w == IF same THEN v ELSE [v EXCEPT !.counted = "place"]
         IN  /\ fm' = IF r.cmd = "reload" THEN Reloaded(w) ELSE w
             /\ excused' = (IF r.cmd = "reload" THEN excused \ {"history", "write"} ELSE excused)
                  \cup (IF ~fm.enabled THEN {"woken"} ELSE {})
                  \cup (IF write # fm.write /\ r.cmd = "sync" THEN {"write"} ELSE {})
                  \cup (IF fm.results /\ ~same THEN {"recounted"} ELSE {})
                  \cup (IF r.cmd = "reload" /\ (fm.off \/ fm.results) THEN {"results", "recounted"} ELSE {})

SyncFails(r) ==
    /\ Deed /\ r.cmd \in {"sync", "reload"} /\ waits' = waits \ {r}
    /\ fm' = IF r.cmd = "reload" THEN Reloaded(fm) ELSE fm
    /\ excused' = (IF r.cmd = "reload" THEN excused \ {"history", "write"} ELSE excused)
         \cup (IF r.cmd = "reload" /\ ~fm.enabled THEN {"woken"} ELSE {})
         \cup (IF r.cmd = "reload" /\ (fm.off \/ fm.results) THEN {"results", "recounted"} ELSE {})

\* The answer to the tree's request: the path is written again.
ParentsListed ==
    /\ Deed
    /\ fm' = [fm EXCEPT !.path = "place"]
    /\ IF fm.path = "results" THEN Excuse({"results"}) ELSE UNCHANGED excused
    /\ UNCHANGED waits

-----------------------------------------------------------------------------
(***************************************************************************)
(* The search box.                                                         *)
(***************************************************************************)
\* Enter, with a text: searchstart, and the request.
Search ==
    /\ Deed /\ ~fm.overlay
    /\ [cmd |-> "search"] \notin waits /\ Cardinality(waits) < 2
    /\ waits' = waits \cup {[cmd |-> "search"]}
    /\ fm' = [Pressed EXCEPT !.query = TRUE]
    /\ excused' = Awake \cup (IF fm.results THEN {} ELSE {"results"})

SearchDone(r) ==
    /\ Deed /\ r.cmd = "search" /\ waits' = waits \ {r}
    /\ \E known \in SUBSET Item : fm' = Found(fm, known)
    /\ excused' = (excused \ {"results", "recounted", "header"})
         \cup (IF fm.query THEN {} ELSE {"results"})
         \cup (IF fm.enabled THEN {} ELSE {"woken"})

\* What was searched for before stays where it is.
SearchFails(r) ==
    /\ Deed /\ r.cmd = "search" /\ waits' = waits \ {r}
    /\ UNCHANGED <<fm, excused>>

\* Enter without a text, or Esc and the cross with results shown.
EndSearch(byKey) ==
    LET u == SearchEnd([Pressed EXCEPT !.box = IF byKey THEN FALSE ELSE @]) IN
    /\ Deed /\ ~fm.overlay /\ (byKey => fm.box)
    /\ fm' = u
    /\ excused' = ((Awake \ (IF fm.query \/ ~fm.results THEN {"results", "recounted"} ELSE {}))
                     \cup (IF u.results THEN {"results"} ELSE {}))
                   \cup (IF u.header # <<>> THEN {"header"} ELSE {})
    /\ UNCHANGED waits

-----------------------------------------------------------------------------
(***************************************************************************)
(* The order of files, and the header of the list.                         *)
(***************************************************************************)
\* setSort, from a button, the menu or the header: the event sortchange.
Sort ==
    /\ Deed /\ ~fm.overlay
    /\ fm' = Timer(Contents([Pressed EXCEPT !.asc = ~@], fm.query))
    /\ excused' = (Awake \ {"header"}) \cup (IF fm.query # fm.results THEN {"results"} ELSE {})
    /\ UNCHANGED waits

\* view: the event viewchange; what was selected is selected again.
View ==
    LET u == Timer(Contents([fm EXCEPT !.list = ~@], fm.query)) IN
    /\ Deed /\ Given("view")
    /\ fm' = Selected(u, fm.picked)
    /\ excused' = (excused \ {"header"}) \cup (IF fm.query # fm.results THEN {"results"} ELSE {})
                    \cup (IF fm.enabled THEN {} ELSE {"woken"})
    /\ UNCHANGED waits

\* The timer ends: the columns of the header become buttons.
HeaderDrawn ==
    /\ fm.timer
    /\ fm' = [fm EXCEPT !.timer = FALSE, !.header = IF fm.list THEN Append(@, fm.asc) ELSE @]
    /\ UNCHANGED <<waits, excused, deeds>>

-----------------------------------------------------------------------------
ControlsNext ==
    \/ Press \/ ClickOutside \/ ShowOverlay \/ HideOverlay \/ ChooseInMenu
    \/ \E files \in SUBSET fm.known : Pick(files)
    \/ \E file \in fm.known : Menu(file)
    \/ \E files \in {{}, fm.picked} : CopyToClip(files)
    \/ \E place \in Place : Open(place) \/ ClickInTree(place)
    \/ \E forward \in BOOLEAN : Travel(forward)
    \/ Reload \/ ParentsListed \/ Search
    \/ \E byKey \in BOOLEAN : EndSearch(byKey)
    \/ \E r \in waits : \/ OpenDone(r) \/ OpenFails(r) \/ SyncDone(r) \/ SyncFails(r)
                        \/ SearchDone(r) \/ SearchFails(r)
    \/ Sort \/ View \/ HeaderDrawn

-----------------------------------------------------------------------------
\* Buttons look as their commands are.  A command can be given exactly when its
\* conditions hold, and none while elFinder is disabled.  Not held against the code:
\* an event that comes while elFinder is disabled updates commands all the same
\* ("woken"); the history moves before the directory is open, and a failure resets
\* it unnoticed ("history"); a synchronisation that makes the directory writable
\* does not tell anybody ("write"); resize does not listen to selections at all.
CommandsTrue ==
    /\ fm.lit = fm.able
    /\ ~fm.enabled /\ "woken" \notin excused => fm.able = {}
    /\ fm.enabled =>
         \A c \in Orders \ {"resize"} :
            \/ c \in fm.able <=> c \in Possible(fm, fm.picked)
            \/ c \in {"back", "forward"} /\ "history" \in excused
            \/ c \in {"mkdir", "upload", "paste", "duplicate"} /\ "write" \in excused

\* What the menu offers could be done with its files when it opened, and its files
\* are still there: whatever takes them away closes it.
MenuTrue ==
    /\ fm.menu \subseteq fm.known \cap fm.picked
    /\ "write" \notin excused => fm.offers \subseteq Possible(fm, fm.menu)

\* Files, path, status bar and commands agree whether a search is shown.  Not held
\* against the code: while one is under way the view already takes itself for one;
\* a directory opened or reloaded from among results leaves the query, and the next
\* sorting shows the results in it; an answer after the search was ended cannot be
\* left; the answer to the tree's request writes the directory over "results".
SearchTrue ==
    /\ "results" \notin excused =>
         /\ fm.query = fm.results /\ fm.off = fm.results /\ fm.again = fm.results
         /\ (fm.path = "results") = fm.results
         /\ "recounted" \notin excused => (fm.counted = "results") = fm.results
    /\ fm.told = fm.picked

\* Once the timer has ended, a list has one set of buttons in its header, and they
\* show the order of the files: unless a search ended that there was not.
HeaderTrue ==
    /\ fm.list /\ ~fm.timer /\ "header" \notin excused => fm.header = <<fm.asc>>
    /\ ~fm.list => fm.header = <<>>

ControlsTrue == CommandsTrue /\ MenuTrue /\ SearchTrue /\ HeaderTrue
=============================================================================
