---------------------------- MODULE FinderCommands ----------------------------
(***************************************************************************)
(* What the user does with files of the view: select, cut, copy, paste,    *)
(* rename, remove, make, and drag, also from local to remote volumes.  A   *)
(* handler triggers events, and each is dispatched before anything else    *)
(* happens (todo).                                                         *)
(***************************************************************************)
EXTENDS FinderView, Integers

CONSTANTS
    Dest,       \* directories to paste into; "here" is the current one
    Side,       \* "local" or "remote", of files and of directories
    Locked,     \* files that may not be moved
    MaxSteps,   \* BOUND: what users, others and answers do in a behaviour
    MaxJobs     \* BOUND: dialogs and requests at a time

ASSUME DestAssumption == "here" \in Dest /\ Locked \subseteq Hash
                         /\ Side \in [Hash \cup Dest -> {"local", "remote"}]
ASSUME StepsAssumption == MaxSteps \in Nat /\ MaxJobs \in Nat

VARIABLES
    todo,       \* events triggered and not dispatched
    clipboard, cut,
    drag,       \* what is dragged
    jobs,       \* commands that wait for the user or the server
    forgotten,  \* HISTORY: files duplicated by a drop that left them locked
    steps       \* BOUND

commandVars == <<todo, clipboard, cut, drag, jobs, forgotten, steps>>
cvars == <<viewVars, commandVars>>

Event(type, hashes) == [type |-> type, files |-> hashes]
Events == [type : {"lock", "unlock", "select", "add", "remove", "added", "dragstop", "unselect"},
           files : SUBSET Hash]
Commands == {"rm?", "rm", "rename?", "rename", "paste", "duplicate", "make", "cross"}
Job == [cmd : Commands, files : SUBSET Hash, moves : SUBSET Hash, cut : BOOLEAN]
NoDrag == [files |-> {}, locked |-> FALSE, keys |-> FALSE, held |-> FALSE]

CommandsInit ==
    /\ ViewInit
    /\ todo = <<>> /\ clipboard = {} /\ cut = FALSE /\ drag = NoDrag /\ jobs = {}
    /\ forgotten = {} /\ steps = 0

CommandsTypeOK ==
    /\ ViewTypeOK
    /\ todo \in Seq(Events)
    /\ clipboard \subseteq Hash /\ cut \in BOOLEAN
    /\ drag \in [files : SUBSET Hash, locked : BOOLEAN, keys : BOOLEAN, held : BOOLEAN]
    /\ jobs \subseteq Job /\ Cardinality(jobs) <= MaxJobs
    /\ forgotten \subseteq Hash
    /\ steps \in 0 .. MaxSteps

\* One thing more happens, when all that was triggered is done.
Step == todo = <<>> /\ steps < MaxSteps /\ steps' = steps + 1
Triggers(es) == todo' = todo \o SelectSeq(es, LAMBDA e : e.files # {} \/ e.type = "dragstop")
Starts(cmd, hashes, moves, isCut) ==
    /\ Cardinality(jobs) < MaxJobs
    /\ jobs' = jobs \cup {[cmd |-> cmd, files |-> hashes, moves |-> moves, cut |-> isCut]}

\* Handlers of the view.  Of several files "add" and "remove" are one at a time.
Dispatch ==
    /\ todo # <<>>
    /\ LET e == Head(todo)
           one == CHOOSE h \in e.files : TRUE
           more == IF e.type \in {"add", "remove"} THEN e.files \ {one} ELSE {}
       IN  /\ todo' = IF more = {} THEN Tail(todo) ELSE [todo EXCEPT ![1].files = more]
           /\ \/ e.type = "lock"     /\ ViewLock(e.files)
              \/ e.type = "unlock"   /\ ViewUnlock(e.files)
              \/ e.type = "select"   /\ ViewSelectFiles(e.files)
              \/ e.type = "added"    /\ ViewSelectAdded(e.files)
              \/ e.type = "add"      /\ ViewAdd(one)
              \/ e.type = "remove"   /\ ViewRemove(one)
              \/ e.type = "unselect" /\ UnselectAll
              \/ e.type = "dragstop" /\ selectLock' = FALSE
                                     /\ UNCHANGED <<core, rows, marks, searching, mishaps>>
    /\ UNCHANGED <<clipboard, cut, drag, jobs, forgotten, steps>>

\* clipboard: what it held is unlocked, what is cut is locked.
Clip(hashes, isCut) ==
    /\ clipboard' = hashes \cap cached /\ cut' = isCut
ClipEvents(hashes, isCut) ==
    <<Event("unlock", clipboard), Event("lock", IF isCut THEN hashes \cap cached ELSE {})>>

-----------------------------------------------------------------------------
\* Copy, cut and paste.
CopyCut(isCut) ==
    /\ Step
    /\ isCut => selected # {} /\ selected \cap Locked = {}
    /\ Clip(selected, isCut) /\ Triggers(ClipEvents(selected, isCut))
    /\ UNCHANGED <<viewVars, drag, jobs, forgotten>>

\* paste: files of the directory itself are duplicated, others moved or copied.
Paste(dst) ==
    /\ Step /\ clipboard # {}
    /\ cut => clipboard \cap Locked = {}
    /\ Starts("paste", clipboard, IF dst = "here" THEN clipboard \ Here ELSE clipboard, cut)
    /\ UNCHANGED <<viewVars, todo, clipboard, cut, drag, forgotten>>

New == SUBSET (Here \ cached)

\* The answer.  Whatever the clipboard holds by now, it is emptied when what was
\* pasted had been cut.
PasteEnds(j) ==
    /\ Step /\ j.cmd = "paste"
    /\ \E moved \in {{}, j.moves} : \E made \in SUBSET Here :
          Triggers(<<Event("remove", IF j.cut THEN moved ELSE {}), Event("add", made), Event("added", made),
                     Event("unlock", j.files)>>
                   \o IF j.cut THEN ClipEvents({}, FALSE) ELSE <<>>)
    /\ IF j.cut THEN Clip({}, FALSE) ELSE UNCHANGED <<clipboard, cut>>
    /\ jobs' = jobs \ {j}
    /\ UNCHANGED <<viewVars, drag, forgotten>>

-----------------------------------------------------------------------------
\* rm: locks what it asks about.
RmAsk ==
    /\ Step /\ selected # {} /\ selected \cap Locked = {}
    /\ Starts("rm?", selected, selected, FALSE)
    /\ Triggers(<<Event("lock", selected)>>)
    /\ UNCHANGED <<viewVars, clipboard, cut, drag, forgotten>>

\* MUTANT: what a cancelled rm locked stays so.
RmCancelLocked(j) ==
    /\ Step /\ j.cmd = "rm?" /\ jobs' = jobs \ {j}
    /\ Triggers(<<Event("select", j.files)>>)
    /\ UNCHANGED <<viewVars, clipboard, cut, drag, forgotten>>
RmCancel(j) ==
    /\ Step /\ j.cmd = "rm?" /\ jobs' = jobs \ {j}
    /\ Triggers(<<Event("unlock", j.files), Event("select", j.files)>>)
    /\ UNCHANGED <<viewVars, clipboard, cut, drag, forgotten>>

RmAccept(j) ==
    /\ Step /\ j.cmd = "rm?" /\ jobs' = (jobs \ {j}) \cup {[j EXCEPT !.cmd = "rm"]}
    /\ UNCHANGED <<viewVars, todo, clipboard, cut, drag, forgotten>>

RmEnds(j) ==
    /\ Step /\ j.cmd = "rm" /\ jobs' = jobs \ {j}
    /\ \E gone \in {{}, j.files} : Triggers(<<Event("remove", gone), Event("unlock", j.files)>>)
    /\ UNCHANGED <<viewVars, clipboard, cut, drag, forgotten>>

\* rename: of one file; another selection commits the name as Enter does.
RenameBegin ==
    /\ Step /\ Cardinality(selected) = 1 /\ selected \cap Locked = {}
    /\ Starts("rename?", selected, selected, FALSE)
    /\ UNCHANGED <<viewVars, todo, clipboard, cut, drag, forgotten>>

RenameLeft(j) ==
    /\ Step /\ j.cmd = "rename?" /\ jobs' = jobs \ {j}
    /\ UNCHANGED <<viewVars, todo, clipboard, cut, drag, forgotten>>

RenameCommit(j) ==
    /\ Step /\ j.cmd = "rename?"
    /\ jobs' = (jobs \ {j}) \cup {[j EXCEPT !.cmd = "rename"]}
    /\ Triggers(<<Event("lock", j.files)>>)
    /\ UNCHANGED <<viewVars, clipboard, cut, drag, forgotten>>

RenameEnds(j) ==
    /\ Step /\ j.cmd = "rename" /\ jobs' = jobs \ {j}
    /\ \/ Triggers(<<Event("unlock", j.files)>>)
       \/ \E made \in New : /\ Cardinality(made) = 1
                            /\ Triggers(<<Event("remove", j.files), Event("add", made),
                                          Event("added", made), Event("unlock", j.files)>>)
    /\ UNCHANGED <<viewVars, clipboard, cut, drag, forgotten>>

\* mkdir, mkfile, archive: a row to type a name in, then a request.
MakeBegin ==
    /\ Step /\ Starts("make", {}, {}, FALSE)
    /\ UnselectAll
    /\ UNCHANGED <<todo, clipboard, cut, drag, forgotten>>

MakeEnds(j) ==
    /\ Step /\ j.cmd = "make" /\ jobs' = jobs \ {j}
    /\ \/ \E made \in New : /\ Cardinality(made) = 1
                            /\ Triggers(<<Event("add", made), Event("added", made)>>)
          /\ UNCHANGED viewVars
       \/ UnselectAll /\ UNCHANGED todo
    /\ UNCHANGED <<clipboard, cut, drag, forgotten>>

-----------------------------------------------------------------------------
\* Dragging.

\* $.detectDragDropOperation.
detectDragDropOperation(from, to) ==
    IF from = "local" /\ to = "remote" THEN -1
    ELSE IF from = "local" /\ to = "remote" THEN 1 ELSE 0

DragStart(h, keys) ==
    /\ Step /\ drag = NoDrag
    /\ ViewDragStart(h, keys)
    /\ drag' = [files |-> selected', locked |-> selected' \cap Locked # {}, 
                  keys |-> keys, held |-> keys]
    /\ Triggers(<<Event("lock", IF drag'.locked THEN {} ELSE drag'.files)>>)
    /\ UNCHANGED <<clipboard, cut, jobs, forgotten>>

\* ctrl, shift or meta is pressed or released.  Held since before the drag it
\* is not noticed: what is dragged stays locked.
DragKey(down) ==
    /\ Step /\ drag # NoDrag /\ (drag.held \/ down # drag.keys)
    /\ drag' = [drag EXCEPT !.keys = down, !.held = FALSE]
    /\ Triggers(IF drag.locked THEN <<>> ELSE <<Event(IF down THEN "unlock" ELSE "lock", drag.files)>>)
    /\ UNCHANGED <<viewVars, clipboard, cut, jobs, forgotten>>

\* stop, without a drop.
DragStop ==
    /\ Step /\ drag # NoDrag /\ drag' = NoDrag
    /\ Triggers(<<Event("dragstop", {}), Event("unlock", drag.files), Event("select", drag.files)>>)
    /\ UNCHANGED <<viewVars, clipboard, cut, jobs, forgotten>>

\* drop, then stop: what is dropped where it lies is duplicated or nothing
\* happens; from local to remote volumes it is copied by a request of its own;
\* all else goes through the clipboard.
Drop(dst) ==
    LET copy   == drag.keys \/ drag.locked
        as(h)  == detectDragDropOperation(Side[h], Side[dst])
        cross  == {h \in drag.files : as(h) = -1}
        normal == {h \in drag.files : as(h) = 0}
        result == {h \in normal : ~(dst = "here" /\ h \in Here)}
        same   == normal \ result
    IN
    /\ Step /\ drag # NoDrag /\ drag' = NoDrag
    /\ Cardinality(jobs) + 3 <= MaxJobs
    /\ jobs' = jobs \cup (IF copy /\ same # {} THEN {[cmd |-> "duplicate", files |-> same, moves |-> {}, cut |-> FALSE]} ELSE {})
                    \cup (IF result # {} THEN {[cmd |-> "paste", files |-> drag.files, moves |-> result, cut |-> ~copy]} ELSE {})
                    \cup (IF cross # {} THEN {[cmd |-> "cross", files |-> cross, moves |-> {}, cut |-> FALSE]} ELSE {})
    /\ forgotten' = forgotten \cup (IF copy /\ drag.held /\ ~drag.locked /\ result = {} THEN same ELSE {})
    /\ IF result # {} THEN Clip(result, ~copy) ELSE UNCHANGED <<clipboard, cut>>
    /\ Triggers(<<Event("unlock", IF copy THEN {} ELSE same)>>
                \o (IF result # {} THEN ClipEvents(result, ~copy) ELSE <<>>)
                \o <<Event("unlock", cross), Event("dragstop", {})>>)
    /\ UNCHANGED viewVars

\* A duplicate, or a copy from local to remote, is answered; after that of the
\* latter the directory is opened.
CopyEnds(j) ==
    /\ Step /\ j.cmd \in {"duplicate", "cross"} /\ jobs' = jobs \ {j}
    /\ \/ /\ j.cmd = "duplicate" /\ UNCHANGED viewVars
          /\ \E made \in New : Triggers(<<Event("add", made), Event("added", made)>>)
       \/ j.cmd = "cross" /\ UNCHANGED <<viewVars, todo>>
       \/ j.cmd = "cross" /\ UNCHANGED todo /\ \E files \in SUBSET Hash : ViewOpened(files)
    /\ UNCHANGED <<clipboard, cut, drag, forgotten>>

-----------------------------------------------------------------------------
Others == UNCHANGED <<todo, clipboard, cut, drag, jobs, forgotten>>

\* Keys and the mouse in the view.
UserSelects ==
    /\ Step /\ Others
    /\ \/ \E h \in Drawn : Click(h) \/ CtrlClick(h) \/ ShiftClick(h)
       \/ \E up, append \in BOOLEAN : Arrow(up, append)
       \/ SelectAll
       \/ UnselectAll
       \/ \E home \in BOOLEAN : HomeEnd(home)
       \/ \E on \in SUBSET Drawn : \E off \in SUBSET on : Band(off, on \ off)

UserLooks ==
    /\ Step /\ Others
    /\ \/ Scroll
       \/ ViewSort
       \/ ViewSwitch
       \/ \E files \in SUBSET Matching : ViewSearch(files)
       \/ ViewSearchEnd
       \/ \E files \in SUBSET Here : ViewOpened(files)

\* What a synchronisation finds: files that are new, gone or changed.
Synced ==
    /\ Step /\ Others
    /\ \/ \E h \in Hash \ cached : ViewAdd(h)
       \/ \E h \in cached : ViewRemove(h)
       \/ \E S \in SUBSET cached : S # {} /\ \E new \in [S -> Size] : ViewChange(new)

Answer == \E j \in jobs : \/ PasteEnds(j) \/ RmCancel(j) \/ RmAccept(j) \/ RmEnds(j)
                          \/ RenameLeft(j) \/ RenameCommit(j) \/ RenameEnds(j)
                          \/ MakeEnds(j) \/ CopyEnds(j)

UserCommands ==
    \/ \E isCut \in BOOLEAN : CopyCut(isCut)
    \/ \E dst \in Dest : Paste(dst) \/ Drop(dst)
    \/ RmAsk \/ RenameBegin \/ MakeBegin
    \/ \E h \in Drawn, keys \in BOOLEAN : DragStart(h, keys)
    \/ \E down \in BOOLEAN : DragKey(down)
    \/ DragStop

CommandsNext == Dispatch \/ UserSelects \/ UserLooks \/ Synced \/ UserCommands \/ Answer
CommandsSpec == CommandsInit /\ [][CommandsNext]_cvars

\* A row stays locked only as long as something holds its file: the clipboard that
\* cut it, a dialog or request about it, or the drag.  The locks are taken and
\* given back by handlers of a dozen events, in clipboard, rm, rename and draggable.
LocksExplained ==
    todo = <<>> => disabled \subseteq (IF cut THEN clipboard ELSE {})
                      \cup (UNION {j.files : j \in jobs}) \cup drag.files
                      \cup forgotten

\* The view of the directory tells the truth: about the selection and the files.
ViewTrue == SelectionTrue /\ RowsInOrder

-----------------------------------------------------------------------------
(***************************************************************************)
(* The field in which the name of a file is typed (rename).  It takes the  *)
(* place of the name in the list of files, or in the tree when it was      *)
(* begun there; the name goes back when the field is left, and the name    *)
(* that was asked for is shown while the server renames.                   *)
(***************************************************************************)

CONSTANT
    MaxRenames   \* BOUND: times the field is opened

ASSUME RenamesAssumption == MaxRenames \in Nat

VARIABLES
    isIn,      \* "list" or "tree"
    named,     \* the name of the file in the cache
    rowText,   \* the name its row shows, or Field
    holder,    \* the row has the element that the field takes the place of the name in
    wished,    \* the name that the server was asked for, or NoName
    barred,    \* the row is locked
    picked2,   \* the file is selected
    upset,     \* HISTORY: the row was drawn again meanwhile; its renaming was refused
    renames

renamingVars == <<isIn, named, rowText, holder, wished, barred, picked2, upset, renames>>

\* Of the names 1 and 2 are free and 3 is that of another file; 0 is no name at all.
OtherName == 3
NoName == 0
Field == -1

RenamingTypeOK ==
    /\ isIn \in {"list", "tree"} /\ named \in 1 .. 2 /\ rowText \in {Field, 1, 2} /\ holder \in BOOLEAN
    /\ wished \in 0 .. 2 /\ barred \in BOOLEAN /\ picked2 \in BOOLEAN
    /\ upset \in {"none", "redrawn", "refused"} /\ renames \in 0 .. MaxRenames

RenamingInit ==
    /\ isIn \in {"list", "tree"} /\ named = 1 /\ rowText = 1 /\ holder = TRUE /\ wished = NoName
    /\ barred = FALSE /\ picked2 = FALSE /\ upset = "none" /\ renames = 0

\* From the list with the file selected, or from the menu of the tree.  A row that has
\* lost the element of its name is left as it is: the parameters are said to be wrong.
BeginField ==
    /\ renames < MaxRenames /\ renames' = renames + 1
    /\ rowText # Field /\ wished = NoName /\ (isIn = "list" => picked2)
    /\ holder /\ rowText' = Field /\ upset' = "none"
    /\ UNCHANGED <<isIn, named, holder, wished, barred, picked2>>

\* The handler of a failure: the name takes the place of the field, if it is there.
NameBack == rowText' = IF rowText = Field THEN named ELSE rowText

\* lockfiles, unlockfiles: the row of the file, in the list or in the tree.
Bar(lock) == barred' = lock

\* blur: the name it has, no name and that of another file are refused.  Another is
\* written over the row, and in the list over the element of the name too.
LeaveField(n) ==
    /\ rowText = Field
    /\ IF n \in {named, NoName, OtherName}
       THEN NameBack /\ UNCHANGED <<holder, wished, barred>>
       ELSE rowText' = n /\ holder' = (isIn = "tree") /\ wished' = n /\ Bar(TRUE)
    /\ UNCHANGED <<isIn, named, upset, renames>>

Escape ==
    /\ rowText = Field /\ NameBack
    /\ UNCHANGED <<isIn, named, holder, wished, barred, picked2, upset, renames>>

\* The event select: a field of a file that is not selected is left.
SelectionMoves ==
    /\ picked2' \in (IF barred THEN {FALSE} ELSE BOOLEAN)
    /\ IF rowText = Field /\ ~picked2' THEN \E n \in 0 .. 3 : LeaveField(n)
       ELSE UNCHANGED <<isIn, named, rowText, holder, wished, barred, upset, renames>>

\* The row is made anew from the cache: a field in it is gone.
RowRedrawn ==
    /\ rowText' = named /\ holder' = TRUE /\ barred' = FALSE /\ picked2' = FALSE
    /\ upset' = IF wished # NoName THEN "redrawn" ELSE "none"
    /\ UNCHANGED <<isIn, named, wished, renames>>

\* The answer: the row of the old name goes, that of the new one comes.
Renamed ==
    /\ wished # NoName
    /\ named' = wished /\ rowText' = wished /\ holder' = TRUE /\ Bar(FALSE) /\ picked2' = FALSE
    /\ wished' = NoName /\ upset' = "none"
    /\ UNCHANGED <<isIn, renames>>

\* No answer, or an error: the row is unlocked.  The field is in no row any more, and the
\* name that goes where it was is not seen; where the browser has emptied what was
\* written over, the row of a list is clicked.
NotRenamed ==
    /\ wished # NoName /\ NameBack
    /\ wished' = NoName /\ Bar(FALSE) /\ upset' = "refused"
    /\ picked2' \in {picked2, picked2 \/ isIn = "list"}
    /\ UNCHANGED <<isIn, named, holder, renames>>

RenamingNext ==
    \/ BeginField \/ Escape \/ SelectionMoves \/ RowRedrawn \/ Renamed \/ NotRenamed
    \/ \E n \in 0 .. 3 : LeaveField(n) /\ UNCHANGED picked2

\* A row shows the name its file has, or the one the server was asked for while it has
\* not answered, and is locked as long; a field in the list is that of the file that is
\* selected.  Not held against the code: a row that is made anew meanwhile shows the old
\* name and is not locked, and one whose renaming was refused keeps the new name.  Only
\* then has a row, of the list, no place for another field.
RowNamed ==
    /\ rowText = Field => wished = NoName /\ holder /\ (isIn = "list" => picked2)
    /\ wished # NoName /\ upset # "redrawn" => rowText = wished /\ barred
    /\ wished = NoName => ~barred /\ (rowText \notin {Field, named} => upset = "refused")
    /\ wished = NoName /\ ~holder => isIn = "list" /\ upset = "refused" /\ rowText # named
=============================================================================
