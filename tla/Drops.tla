-------------------------------- MODULE Drops --------------------------------
(***************************************************************************)
(* What a manager highlights while something is dragged over it.  Files of *)
(* the computer come with the browser's drag events: the spot under the    *)
(* pointer is asked every few moments, and a target hears of the spots in  *)
(* it.  The manager's own files come with jQuery UI's droppable: the list  *)
(* of files is highlighted when dropping there would do something.         *)
(***************************************************************************)
EXTENDS Naturals, Sequences, FiniteSets
LOCAL INSTANCE SequencesExt

CONSTANTS
    Spots,       \* elements of the page that can be under the pointer
    TargetOf,    \* of a spot: what hears of it, the innermost target it is in, or NoTarget
    NoTarget,
    Listing,     \* the target that is the list of files, with the spots beside its directories
    Rows,        \* targets that are directories in the list
    Branches,    \* targets that are directories of the tree
    Box          \* the target of the dialog "upload"

Targets == {Listing, Box} \cup Rows \cup Branches

ASSUME DropsAssumption ==
    /\ TargetOf \in [Spots -> Targets \cup {NoTarget}]
    /\ NoTarget \notin Targets /\ Listing \notin Rows \cup Branches \cup {Box}
    /\ Rows \cap Branches = {} /\ Box \notin Rows \cup Branches

VARIABLES
    dragged,   \* whether files of the computer are dragged
    pointer,   \* the spot under the pointer, Outside, or GoneSpot with what the list showed
    writable,  \* whether the directory shown can be written to
    highlit,   \* the highlighted targets
    entered,   \* ent of a target
    branch,    \* of a directory of the tree: its classes
    opening,   \* of a directory of the tree: timers that will open it
    rushed,    \* HISTORY: directories of the tree with two of these timers, or clicked
               \* meanwhile, until none is left
    shut,      \* HISTORY: directories of the tree that the one timer they had closed
    stale,     \* HISTORY: the list, if it was drawn again below the pointer while it was marked
    carried,   \* what is dragged with jQuery UI
    aimed,     \* the directory of the tree that is below it
    expands,   \* directories of the tree with a timer that will open them for it
    sunk       \* HISTORY: those it was put down on while the timer ran

hintVars == <<dragged, pointer, highlit, entered, opening, rushed, stale>>
aimVars == <<aimed, expands, sunk>>
dropVars == <<hintVars, aimVars, writable, branch, shut, carried>>

Outside == "outside"
GoneSpot == "removed"
MaxWaits == 2  \* BOUND: timers of a directory at a time

\* What may be dragged with jQuery UI: the directory shown itself or one in it, from
\* the tree; another directory; files of the other manager, to here.
CarriedKinds == {"here", "child", "other", "toRemote", "toLocal"}
NotCarried == [kind |-> "none", locked |-> FALSE, keys |-> FALSE, plus |-> FALSE,
               over |-> FALSE, mark |-> FALSE, since |-> FALSE]
Carried == [kind : CarriedKinds \cup {"none"}, locked : BOOLEAN,
            keys : BOOLEAN,   \* ctrl, shift or meta is pressed
            plus : BOOLEAN,   \* the helper's plus: what is dragged will be copied
            over : BOOLEAN, mark : BOOLEAN,
            since : BOOLEAN]  \* HISTORY: the plus when the list was reached

DropsTypeOK ==
    /\ dragged \in BOOLEAN /\ pointer \in Spots \cup {Outside, GoneSpot} /\ writable \in BOOLEAN
    /\ highlit \subseteq Targets /\ entered \in [Targets -> BOOLEAN]
    /\ branch \in [Branches -> [collapsed : BOOLEAN, expanded : BOOLEAN, loaded : BOOLEAN]]
    /\ opening \in [Branches -> 0 .. MaxWaits] /\ rushed \subseteq Branches /\ shut \subseteq Branches
    /\ stale \subseteq {Listing} /\ carried \in Carried
    /\ aimed \cup expands \cup sunk \subseteq Branches

-----------------------------------------------------------------------------
(***************************************************************************)
(* The handlers, as functions of what they change.                         *)
(***************************************************************************)
Hints == [highlit |-> highlit, entered |-> entered, opening |-> opening, rushed |-> rushed]

AreHints(h) ==
    /\ highlit' = h.highlit /\ entered' = h.entered /\ opening' = h.opening /\ rushed' = h.rushed

Mark(h, t)   == [h EXCEPT !.highlit = @ \cup {t}]
Unmark(h, t) == [h EXCEPT !.highlit = @ \ {t}]

Accepts(t) == t # Listing \/ writable

\* dragenter: a closed directory of the tree will be opened.
DragEnter(h, t) ==
    LET in == IF t = Box THEN h ELSE [h EXCEPT !.entered[t] = TRUE]
        lit == IF Accepts(t) THEN Mark(in, t) ELSE in
        opens == t \in Branches /\ branch[t].collapsed /\ ~branch[t].expanded
    IN  IF opens /\ lit.opening[t] < MaxWaits
        THEN [lit EXCEPT !.opening[t] = @ + 1,
                         !.rushed = IF lit.opening[t] > 0 THEN @ \cup {t} ELSE @]
        ELSE lit

\* dragleave: when another spot of the target was entered just before, it stays marked.
DragLeave(h, t) ==
    IF t # Box /\ h.entered[t] THEN [h EXCEPT !.entered[t] = FALSE] ELSE Unmark(h, t)

DragOver(h, t) == IF t = Box THEN Mark(h, t) ELSE [h EXCEPT !.entered[t] = FALSE]

\* What a target does when the browser tells it of a spot in it.
Hears(event, h, s) ==
    IF s \notin Spots \/ TargetOf[s] = NoTarget THEN h
    ELSE CASE event = "dragenter" -> DragEnter(h, TargetOf[s])
           [] event = "dragleave" -> DragLeave(h, TargetOf[s])
           [] event = "dragover"  -> DragOver(h, TargetOf[s])
           [] event = "drop"      -> Unmark(h, TargetOf[s])

-----------------------------------------------------------------------------
DropsInit ==
    /\ dragged = FALSE /\ pointer = Outside /\ writable \in BOOLEAN
    /\ highlit = {} /\ entered = [t \in Targets |-> FALSE]
    /\ branch \in [Branches -> {[collapsed |-> TRUE, expanded |-> FALSE, loaded |-> l] : l \in BOOLEAN}]
    /\ opening = [b \in Branches |-> 0] /\ rushed = {} /\ shut = {} /\ stale = {}
    /\ carried = NotCarried /\ aimed = {} /\ expands = {} /\ sunk = {}

\* The browser looks what is under the pointer: the new spot is entered, the old one is
\* left, and the new one is told that it is below.
MoveOver ==
    /\ carried = NotCarried /\ dragged' = TRUE
    /\ pointer' \in Spots \cup {Outside}
    /\ LET in  == IF pointer' # pointer THEN Hears("dragenter", Hints, pointer') ELSE Hints
           out == IF pointer' # pointer THEN Hears("dragleave", in, pointer) ELSE in
       IN  AreHints(Hears("dragover", out, pointer'))
    /\ stale' = stale \cap highlit'
    /\ UNCHANGED <<aimVars, writable, branch, shut, carried>>

\* The drag is given up: the spot is left.
GiveUp ==
    /\ dragged /\ dragged' = FALSE /\ pointer' = Outside
    /\ AreHints(Hears("dragleave", Hints, pointer))
    /\ stale' = stale \cap highlit'
    /\ UNCHANGED <<aimVars, writable, branch, shut, carried>>

\* Files are dropped: the target is no longer marked.
DropFiles ==
    /\ dragged /\ pointer \in Spots
    /\ dragged' = FALSE /\ pointer' = Outside
    /\ AreHints(Hears("drop", Hints, pointer)) /\ stale' = stale \cap highlit'
    /\ UNCHANGED <<aimVars, writable, branch, shut, carried>>

\* The list is drawn again, with the same directory or another: what is in it goes.
Redraw ==
    /\ carried = NotCarried
    /\ writable' \in BOOLEAN
    /\ highlit' = highlit \ Rows
    /\ entered' = [t \in Targets |-> entered[t] /\ t \notin Rows]
    /\ pointer' = IF pointer \in Spots /\ TargetOf[pointer] \in Rows \cup {Listing}
                  THEN GoneSpot ELSE pointer
    /\ stale' = IF pointer' = GoneSpot THEN highlit \cap {Listing} ELSE stale
    /\ UNCHANGED <<aimVars, dragged, branch, opening, rushed, shut, carried>>

\* A directory of the tree is opened half a second after it was entered, if it is
\* marked then: the arrow is clicked, which closes what is open.
OpenBranch ==
    \E b \in Branches :
      /\ opening[b] > 0 /\ opening' = [opening EXCEPT ![b] = @ - 1]
      /\ rushed' = IF opening[b] = 1 THEN rushed \ {b} ELSE rushed
      /\ IF branch[b].collapsed /\ b \in highlit
         THEN /\ branch' = [branch EXCEPT ![b] =
                     IF @.loaded THEN [@ EXCEPT !.expanded = ~@] ELSE [@ EXCEPT !.collapsed = FALSE]]
              /\ shut' = IF branch[b].expanded /\ b \notin rushed THEN shut \cup {b} ELSE shut
         ELSE UNCHANGED <<branch, shut>>
      /\ UNCHANGED <<aimVars, dragged, pointer, writable, highlit, entered, stale, carried>>

\* The directories in it arrived, if there are any.
SettleBranch ==
    \E b \in Branches :
      /\ ~branch[b].loaded /\ ~branch[b].collapsed
      /\ branch' \in {[branch EXCEPT ![b] = [collapsed |-> some, expanded |-> some, loaded |-> TRUE]] :
                         some \in BOOLEAN}
      /\ UNCHANGED <<aimVars, hintVars, writable, shut, carried>>

\* The user opens or closes it.
ClickArrow ==
    \E b \in Branches :
      /\ branch[b].loaded /\ branch[b].collapsed /\ ~dragged /\ carried = NotCarried
      /\ branch' = [branch EXCEPT ![b].expanded = ~@]
      /\ rushed' = IF opening[b] > 0 THEN rushed \cup {b} ELSE rushed
      /\ UNCHANGED <<aimVars, dragged, pointer, highlit, entered, opening, stale, writable, shut, carried>>

-----------------------------------------------------------------------------
(***************************************************************************)
(* Files of the managers, above the list and the tree.                     *)
(***************************************************************************)
\* The files of a row that cannot be moved are copied; keys held before are not noticed.
Carry ==
    /\ carried = NotCarried /\ ~dragged
    /\ expands = {}  \* BOUND: half a second or more after the drag before
    /\ \E k \in CarriedKinds, l, keys \in BOOLEAN :
         carried' = [NotCarried EXCEPT !.kind = k, !.locked = l, !.keys = keys, !.plus = l]
    /\ UNCHANGED <<aimVars, hintVars, writable, branch, shut>>

\* over: the list is marked, and no longer if dropping would leave all where it is.
DragIn ==
    /\ carried.kind # "none" /\ ~carried.over /\ aimed = {}
    /\ LET dropover == carried.kind = "child" /\ writable
           stays == carried.kind \in {"here", "child"} /\ (~dropover \/ ~carried.plus)
       IN  carried' = [carried EXCEPT !.over = TRUE, !.mark = ~stays, !.since = carried.plus]
    /\ UNCHANGED <<aimVars, hintVars, writable, branch, shut>>

DragOut ==
    /\ carried.over
    /\ carried' = [carried EXCEPT !.over = FALSE, !.mark = FALSE]
    /\ UNCHANGED <<aimVars, hintVars, writable, branch, shut>>

PressCtrl ==
    /\ carried.kind # "none"
    /\ carried' = [carried EXCEPT !.keys = ~@, !.plus = carried.locked \/ ~carried.keys]
    /\ UNCHANGED <<aimVars, hintVars, writable, branch, shut>>

\* drop, or stop elsewhere: deactivate.
PutDown ==
    /\ carried.kind # "none" /\ carried' = NotCarried
    /\ aimed' = {} /\ sunk' = sunk \cup (aimed \cap expands)
    /\ UNCHANGED <<hintVars, expands, writable, branch, shut>>

-----------------------------------------------------------------------------
\* Above a directory of the tree: over, which starts the timer of one that is closed if
\* the pointer is in the part of the tree that can be seen; and out, which stops it.
Aim ==
    /\ carried.kind # "none" /\ ~carried.over /\ aimed = {}
    /\ \E b \in Branches, inside \in BOOLEAN :
         /\ aimed' = {b}
         /\ expands' = IF inside /\ branch[b].collapsed /\ ~branch[b].expanded
                       THEN expands \cup {b} ELSE expands
    /\ UNCHANGED <<hintVars, writable, branch, shut, carried, sunk>>

AimOff ==
    /\ aimed # {} /\ aimed' = {} /\ expands' = expands \ aimed /\ sunk' = sunk \ aimed
    /\ UNCHANGED <<hintVars, writable, branch, shut, carried>>

\* The timer clicks the arrow, whatever became of the directory and of the drag.
Expand ==
    \E b \in expands :
      /\ expands' = expands \ {b} /\ sunk' = sunk \ {b}
      /\ IF branch[b].collapsed
         THEN /\ branch' = [branch EXCEPT ![b] =
                     IF @.loaded THEN [@ EXCEPT !.expanded = ~@] ELSE [@ EXCEPT !.collapsed = FALSE]]
              /\ shut' = IF branch[b].expanded /\ b \notin sunk THEN shut \cup {b} ELSE shut
         ELSE UNCHANGED <<branch, shut>>
      /\ rushed' = IF opening[b] > 0 THEN rushed \cup {b} ELSE rushed
      /\ UNCHANGED <<dragged, pointer, highlit, entered, opening, stale, writable, carried, aimed>>

\* drop does something: files are pasted, duplicated, or copied to the other manager.
IsCopy == carried.keys \/ carried.locked

Acts ==
    \/ carried.kind \in {"other", "toRemote"}
    \/ carried.kind = "child" /\ IsCopy /\ writable

DropsNext ==
    \/ MoveOver \/ GiveUp \/ DropFiles \/ Redraw \/ OpenBranch \/ SettleBranch \/ ClickArrow
    \/ Carry \/ DragIn \/ DragOut \/ PressCtrl \/ PutDown \/ Aim \/ AimOff \/ Expand

DropsSpec == DropsInit /\ [][DropsNext]_dropVars

-----------------------------------------------------------------------------
\* Files of the computer: the target below the pointer is marked if it takes files,
\* and nothing else is, but for a list that was drawn again below the pointer.
MarkedBelow ==
    LET below == {t \in {TargetOf[s] : s \in Spots \cap {pointer}} \cap Targets : Accepts(t)}
    IN  below \subseteq highlit /\ highlit \subseteq below \cup stale

\* A directory of the tree is not closed by the timer that should open it, unless the
\* pointer entered it twice, or the user clicked it, within half a second, or files of a manager were put down on
\* it before the timer, which goes on; it is not opened for files that left it.
StaysOpen == shut = {} /\ expands \subseteq aimed \cup sunk

\* Files of a manager: the list is marked if dropping them would do something, as long
\* as the plus is what it was when they came there and tells of the keys; files of the
\* remote manager mark it, though dropping them on the local one fails.
MarkTold ==
    /\ carried.over /\ carried.kind # "toLocal"
    /\ carried.plus = carried.since /\ carried.plus = IsCopy
    => (carried.mark <=> Acts)

DropsTrue == MarkedBelow /\ StaysOpen /\ MarkTold

-----------------------------------------------------------------------------
(***************************************************************************)
(* What elFinder uploads when something other than files is dropped on it  *)
(* or pasted into its dialog: addresses are taken from the pictures and    *)
(* the links of HTML, or from a text.  Addresses are taken as absolute, as *)
(* a browser offers them.                                                  *)
(***************************************************************************)

CONSTANTS
    PictureLinks,  \* addresses with the extension of a picture
    PageLinks,     \* addresses of pages: .html, or no extension
    FileLinks,     \* addresses of other files
    MaxItems       \* BOUND: elements of a document

NoAddress == "no address"
Addresses == PictureLinks \cup PageLinks \cup FileLinks

ASSUME DropTextAssumption ==
    /\ PictureLinks \cap (PageLinks \cup FileLinks) = {} /\ PageLinks \cap FileLinks = {}
    /\ NoAddress \notin Addresses /\ MaxItems \in Nat

VARIABLES
    offer,      \* what the browser offers of what is dropped or in the clipboard
    addressed   \* the addresses of the last upload

textVars == <<offer, addressed>>

\* An element: a picture, a link with or without text, or a picture in a link.
Element ==
    [src : PictureLinks, href : {NoAddress}, text : {FALSE}]
      \cup [src : PictureLinks \cup {NoAddress}, href : Addresses, text : BOOLEAN]

DropTextTypeOK ==
    /\ offer.type \in {"none", "html", "text"}
    /\ \A k \in DOMAIN offer.items :
         /\ offer.type = "html" => offer.items[k] \in Element
         /\ offer.type = "text" => offer.items[k] \in Addresses
    /\ addressed \in Seq(Addresses)

DropTextInit == offer = [type |-> "none", items |-> <<>>] /\ addressed = <<>>

-----------------------------------------------------------------------------
AddNew(s, a) == IF a \in ToSet(s) THEN s ELSE Append(s, a)

\* A picture in a link to a picture: the larger one is meant.
Larger(i) == i.src # NoAddress /\ i.href \in PictureLinks

\* The pictures first, then the links with a text: pages only if there is no other link.
OfHtml(items) ==
    LET links  == {k \in DOMAIN items : items[k].href # NoAddress}
        small  == {items[k].src : k \in {j \in DOMAIN items : Larger(items[j])}}
        Picture(s, i) == IF i.src = NoAddress THEN s
                         ELSE AddNew(s, IF Larger(i) THEN i.href ELSE i.src)
        Link(s, i) == IF /\ i.href # NoAddress /\ i.text /\ i.href \notin small
                         /\ Cardinality(links) = 1 \/ i.href \notin PageLinks
                      THEN AddNew(s, i.href) ELSE s
    IN  FoldLeft(Link, FoldLeft(Picture, <<>>, items), items)

OfText(items) == FoldLeft(AddNew, <<>>, items)

\* Some files, a document or a text come; HTML is preferred to text, and to files.
Offer ==
    /\ offer.type = "none"
    /\ \E n \in 1..MaxItems :
         \/ \E s \in [1..n -> Element] : offer' = [type |-> "html", items |-> s]
         \/ \E s \in [1..n -> Addresses] : offer' = [type |-> "text", items |-> s]
    /\ UNCHANGED addressed

\* dropUpload, or paste, and checkFile.
Take ==
    /\ offer.type # "none"
    /\ addressed' = IF offer.type = "html" THEN OfHtml(offer.items) ELSE OfText(offer.items)
    /\ UNCHANGED offer

DropTextNext == Offer \/ Take

DropTextSpec == DropTextInit /\ [][DropTextNext]_textVars

-----------------------------------------------------------------------------
\* No address is uploaded twice; of HTML every picture is, or the larger one that it
\* leads to, and a picture only shown small is not, whatever else links to it, nor a
\* page beside files; of a text every address is (checkFile).
AddressesTrue ==
    addressed # <<>> =>
      /\ IsInjective(addressed)
      /\ offer.type = "text" => ToSet(addressed) = ToSet(offer.items)
      /\ offer.type = "html" =>
           LET S == ToSet(offer.items)
               alone == {i.src : i \in {j \in S : ~Larger(j)}} \ {NoAddress}
               large == {i.href : i \in {j \in S : Larger(j)}}
               small == {i.src : i \in {j \in S : Larger(j)}}
           IN  /\ alone \cup large \subseteq ToSet(addressed)
               /\ (small \ (alone \cup large)) \cap ToSet(addressed) = {}
               /\ (\E i \in S : i.href \in FileLinks) => ToSet(addressed) \cap PageLinks = {}

-----------------------------------------------------------------------------
(***************************************************************************)
(* Fingers and a mouse over the list of files and the tree.  A finger that  *)
(* rests half a second on something opens the context menu for it, or       *)
(* takes a file out of the selection; the click that the browser makes of   *)
(* the touch is ignored then.  A short touch is a click: it selects, and    *)
(* opens a file that was selected.                                          *)
(***************************************************************************)
CONSTANTS
    TouchRows,   \* the files shown
    TouchLinks,  \* directories of the tree
    ListArea,    \* the list of files, beside its rows
    Nothing,     \* no place
    MaxTouches   \* BOUND: touches, clicks and drawings

Touchable == TouchRows \cup TouchLinks \cup {ListArea}

ASSUME TouchAssumption ==
    /\ TouchRows \cap TouchLinks = {} /\ ListArea \notin TouchRows \cup TouchLinks
    /\ Nothing \notin Touchable /\ MaxTouches \in Nat

VARIABLES
    picked,      \* the selected files: class and selectedFiles
    fixedRows,   \* files that are locked
    touchedRows, \* files with data "touching"
    longTap,     \* data "longtap" of the list, if it is there, and of directories of the tree
    timers3,     \* the timers of half a second, of places with what they will look at
    finger,      \* what the finger is on, whether that was drawn anew since, and the last touch
    lastMenu,    \* HISTORY: the last context menu
    touchDeeds,  \* HISTORY: what the last touch did
    spoilt,      \* HISTORY: since the last touch began a timer of an earlier one ended
    touches      \* BOUND

touchVars == <<picked, fixedRows, touchedRows, longTap, timers3, finger, lastMenu, touchDeeds,
               spoilt, touches>>

NoMenu == [type |-> "none", on |-> Nothing, targets |-> {}, sound |-> TRUE]

TouchTypeOK ==
    /\ {picked, fixedRows, touchedRows} \subseteq SUBSET TouchRows
    /\ longTap \subseteq TouchLinks \cup {ListArea}
    /\ timers3 \subseteq [on : Touchable,
                          cell : BOOLEAN,    \* a cell of the row, beside name and icon
                          others : BOOLEAN,  \* other files were selected
                          there : BOOLEAN,   \* the place was not drawn anew
                          stray : BOOLEAN]   \* HISTORY: the touch ended without touchend
    /\ finger \in [on : Touchable \cup {Nothing}, state : {"none", "down", "gone", "tap", "done"}]
    /\ lastMenu \in [type : {"none", "files", "cwd", "navbar"}, on : Touchable \cup {Nothing},
                     targets : SUBSET TouchRows, sound : BOOLEAN]
    /\ touchDeeds \subseteq {"menu", "unselect", "pick", "open", "held"}
    /\ spoilt \in BOOLEAN

TouchInit ==
    /\ picked = {} /\ fixedRows \in SUBSET TouchRows /\ touchedRows = {} /\ longTap = {}
    /\ timers3 = {} /\ finger = [on |-> Nothing, state |-> "none"] /\ lastMenu = NoMenu
    /\ touchDeeds = {} /\ spoilt = FALSE /\ touches = 0

TouchOnce == touches < MaxTouches /\ touches' = touches + 1

\* Where the data "longtap" of something is: its own, or the list's.
FlagOf(x) == IF x \in TouchLinks THEN x ELSE ListArea

\* evtSelect, evtUnselect and unselectAll of a file: a locked one is not selected.
SelectAlone(r) == picked' = {r} \ fixedRows

-----------------------------------------------------------------------------
(***************************************************************************)
(* Fingers.                                                                *)
(***************************************************************************)
\* touchstart.
TouchStart ==
    /\ TouchOnce /\ finger.state \in {"none", "done"}
    /\ \E x \in Touchable, c \in BOOLEAN :
         /\ c => x \in TouchRows
         /\ longTap' = longTap \ {FlagOf(x)}
         /\ touchedRows' = touchedRows \cup ({x} \cap TouchRows)
         /\ timers3' = timers3 \cup {[on |-> x, cell |-> c, there |-> TRUE, stray |-> FALSE,
                                      others |-> x \in TouchRows /\ picked \ {x} # {}]}
         /\ finger' = [on |-> x, state |-> "down"]
    /\ touchDeeds' = {} /\ spoilt' = FALSE
    /\ UNCHANGED <<picked, fixedRows, lastMenu>>

\* The menu for the selected files, the directory shown, or one of the tree; of a row
\* that is no longer there, or is locked, it is one of what is selected otherwise.
MenuAt(x, targets) ==
    [type |-> IF x \in TouchRows THEN "files" ELSE IF x = ListArea THEN "cwd" ELSE "navbar",
     on |-> x, targets |-> targets,
     sound |-> x \notin fixedRows]

\* The half second is over.  A row that was drawn anew hears no event.
LongTouch ==
    \E t \in timers3 :
      LET x       == t.on
          drops   == x \in TouchRows /\ t.there /\ x \in picked /\ t.others
          opens   == ~drops /\ (x \notin TouchRows \/ ~t.cell \/ picked # {})
          deed    == IF drops THEN "unselect" ELSE IF opens THEN "menu" ELSE "held"
      IN  /\ timers3' = timers3 \ {t}
          /\ longTap' = longTap \cup {FlagOf(x)}
          /\ picked' = IF drops THEN picked \ {x}
                       ELSE IF opens /\ t.there THEN picked \cup (({x} \cap TouchRows) \ fixedRows)
                       ELSE picked
          /\ lastMenu' = IF opens
                         THEN [MenuAt(x, IF x \in TouchRows THEN picked' ELSE {}) EXCEPT
                                 !.sound = @ /\ t.there]
                         ELSE lastMenu
          /\ touchDeeds' = IF t.stray THEN touchDeeds ELSE touchDeeds \cup {deed}
          /\ spoilt' = (spoilt \/ t.stray)
          /\ UNCHANGED <<fixedRows, touchedRows, finger, touches>>

\* The timer that a touch on this place started last, unless the place is gone.
Stopped(x) == {t \in timers3 : t.on # x \/ t.stray}
Strayed == {[t EXCEPT !.stray = TRUE] : t \in timers3}

\* touchend; the browser may make a click of it.
TouchEnd ==
    /\ finger.state \in {"down", "gone"}
    /\ IF finger.state = "gone"
       THEN finger' = [on |-> Nothing, state |-> "none"] /\ timers3' = Strayed
       ELSE /\ timers3' = Stopped(finger.on)
            /\ \/ finger' = [finger EXCEPT !.state = "tap"]
               \/ touchDeeds # {} /\ finger' = [on |-> Nothing, state |-> "none"]
    /\ UNCHANGED <<picked, fixedRows, touchedRows, longTap, lastMenu, touchDeeds, spoilt, touches>>

\* touchmove: no click follows.
TouchMove ==
    /\ finger.state = "down"
    /\ timers3' = Stopped(finger.on) /\ finger' = [on |-> Nothing, state |-> "none"]
    /\ UNCHANGED <<picked, fixedRows, touchedRows, longTap, lastMenu, touchDeeds, spoilt, touches>>

\* The browser takes the touch for its own use: nobody listens to touchcancel.
TouchCancel ==
    /\ finger.state = "down"
    /\ timers3' = Strayed /\ finger' = [on |-> Nothing, state |-> "none"]
    /\ UNCHANGED <<picked, fixedRows, touchedRows, longTap, lastMenu, touchDeeds, spoilt, touches>>

-----------------------------------------------------------------------------
(***************************************************************************)
(* Clicks, of a touch or the mouse.                                        *)
(***************************************************************************)
Opens(x) == x \in touchedRows /\ x \in picked

\* click: on a file that was touched and is selected it opens it; on another file it
\* selects it alone, on the list it selects nothing, on a directory it opens that.
Clicked(x) ==
    IF FlagOf(x) \in longTap THEN UNCHANGED <<picked, touchedRows>>
    ELSE \/ /\ x \in TouchRows /\ Opens(x)
            /\ touchedRows' = touchedRows \ {x} /\ picked' = {}
         \/ /\ x \in TouchRows /\ ~Opens(x) /\ SelectAlone(x) /\ UNCHANGED touchedRows
         \/ x = ListArea /\ picked' = {} /\ UNCHANGED touchedRows
         \/ x \in TouchLinks /\ UNCHANGED <<picked, touchedRows>>

ClickDeed(x) ==
    IF picked' = picked /\ FlagOf(x) \in longTap THEN {}
    ELSE IF x \in TouchLinks \/ Opens(x) THEN {"open"} ELSE {"pick"}

Tap ==
    /\ finger.state = "tap" /\ Clicked(finger.on)
    /\ touchDeeds' = touchDeeds \cup ClickDeed(finger.on)
    /\ finger' = [finger EXCEPT !.state = "done"]
    /\ UNCHANGED <<fixedRows, longTap, timers3, lastMenu, spoilt, touches>>

ByMouse == TouchOnce /\ finger.state \in {"none", "done"} /\ finger' = [on |-> Nothing, state |-> "none"]

ClickMouse ==
    /\ ByMouse /\ \E x \in Touchable : Clicked(x)
    /\ UNCHANGED <<fixedRows, longTap, timers3, lastMenu, touchDeeds, spoilt>>

\* contextmenu, of the mouse or of a browser's own long touch: none for a file that was
\* touched, or is locked; the directory's for a cell beside the name of another file.
RightClick ==
    /\ ByMouse /\ \E x \in Touchable, c \in BOOLEAN :
         /\ c => x \in TouchRows
         /\ IF x \in TouchRows /\ (~c \/ x \in picked)
            THEN IF x \in fixedRows \cup touchedRows THEN UNCHANGED <<picked, lastMenu>>
                 ELSE /\ picked' = (IF x \in picked THEN picked ELSE {x} \ fixedRows)
                      /\ lastMenu' = [MenuAt(x, picked') EXCEPT !.sound = TRUE]
            ELSE UNCHANGED picked /\ lastMenu' = MenuAt(IF c THEN ListArea ELSE x, {})
    /\ UNCHANGED <<fixedRows, touchedRows, longTap, timers3, touchDeeds, spoilt>>

\* content: the rows are made anew, the finger may still be down; a touch that ended
\* meets a row of the same name.
DrawAgain ==
    /\ TouchOnce /\ picked' = {} /\ touchedRows' = {} /\ fixedRows' = {}
    /\ finger' = IF finger.state = "down" /\ finger.on \in TouchRows
                 THEN [finger EXCEPT !.state = "gone"] ELSE finger
    /\ timers3' = {[t EXCEPT !.there = t.on \notin TouchRows] : t \in timers3}
    /\ UNCHANGED <<longTap, lastMenu, touchDeeds, spoilt>>

TouchNext ==
    \/ TouchStart \/ LongTouch \/ TouchEnd \/ TouchMove \/ TouchCancel \/ Tap
    \/ ClickMouse \/ RightClick \/ DrawAgain

TouchSpec == TouchInit /\ [][TouchNext]_touchVars

-----------------------------------------------------------------------------
\* A touch that ended as a click did one thing: the long touch did it or the click,
\* and not both; none only when the timer of an earlier touch ended meanwhile.
OneDeed ==
    finger.state = "done" => Cardinality(touchDeeds) = 1 \/ (spoilt /\ Cardinality(touchDeeds) < 2)

\* The menu of files is one of the file below the finger or the mouse, and whatever
\* else is selected, unless that file was locked or was drawn anew meanwhile.
MenuOfTouched ==
    lastMenu.type = "files" /\ lastMenu.sound => lastMenu.on \in lastMenu.targets

\* A timer runs while the finger rests, unless the touch ended without touchend.
TimersTold ==
    \A t \in timers3 : ~t.stray => t.on = finger.on /\ finger.state \in {"down", "gone"}

TouchTrue == OneDeed /\ MenuOfTouched /\ TimersTold
=============================================================================
