--------------------------------- MODULE Layout ---------------------------------
(***************************************************************************)
(* How a manager fits its parts to its size: the bars take what they need,  *)
(* the work zone the rest, the list of directories and the list of files    *)
(* fill the work zone, and the files' area fills their list.  Some of it is *)
(* done at once and some 200 ms after the last event.  On touch devices the *)
(* list of directories can be put away.  And the preview window, which can  *)
(* fill the browser's.                                                      *)
(***************************************************************************)
EXTENDS Naturals

CONSTANTS
    Heights,    \* heights of a manager
    Bars,       \* heights of its toolbar and its status bar together: rows of buttons
    Lengths2,   \* heights that the files shown need
    Widths2,    \* widths of the list of directories, but for the 8 that are left of it
    MaxShaped   \* BOUND: what happens to manager and window

ASSUME LayoutAssumption ==
    /\ Heights \cup Bars \cup Lengths2 \cup Widths2 \subseteq Nat /\ MaxShaped \in Nat
    /\ \A h \in Heights, b \in Bars : b < h
    /\ 8 \notin Widths2

VARIABLES
    frame2,   \* height of the manager and of its bars
    zone, nav, wrapper, area,  \* heights: work zone, directories, list of files, their area
    content2, \* what the files shown need
    timers2,  \* pending: "window" tells the manager, "list" and "fit" the list of files
    unfit,    \* HISTORY: parts that were not told of a change
    drawer,   \* the list of directories: its width, the width it had, closed, startX, and
              \* HISTORY whether the device was turned while it was closed
    shown2,   \* the preview window: its state, whether it is full, its position
    saved,    \* the position it had before it was full
    hurried,  \* HISTORY: it was made full, or no longer so, while it moved
    buttons,  \* its buttons: whether they can be seen, whether they are about to fade
    shaped    \* BOUND

fitVars    == <<frame2, zone, nav, wrapper, area, content2, timers2, unfit>>
windowVars == <<shown2, saved, hurried, buttons>>
layoutVars == <<fitVars, drawer, windowVars, shaped>>

Positions == {"default", "moved", "full", "icon", "between"}
NoTouch == 0

LayoutTypeOK ==
    /\ frame2 \in [height : Heights, bars : Bars]
    /\ {zone, nav, wrapper, area} \subseteq Nat /\ content2 \in Lengths2
    /\ timers2 \subseteq {"window", "list", "fit"} /\ unfit \subseteq {"nav", "area"}
    /\ drawer \in [width : Widths2 \cup {8}, had : Widths2, closed : BOOLEAN, start : 0 .. 3,
                  turned : BOOLEAN]
    /\ shown2 \in [state : {"closed", "opening", "opened", "closing"}, full : BOOLEAN,
                   at : Positions]
    /\ saved \in Positions /\ hurried \in BOOLEAN
    /\ buttons \in [seen : BOOLEAN, fading : BOOLEAN]

LayoutInit ==
    /\ frame2 \in [height : Heights, bars : Bars] /\ content2 \in Lengths2
    /\ zone = frame2.height - frame2.bars /\ nav = zone /\ wrapper = zone /\ area = content2
    /\ timers2 = {"fit"} /\ unfit = {}
    /\ drawer \in [width : Widths2, had : Widths2, closed : {FALSE}, start : {NoTouch},
                  turned : {FALSE}]
    /\ drawer.width = drawer.had
    /\ shown2 = [state |-> "closed", full |-> FALSE, at |-> "icon"] /\ saved = "icon"
    /\ hurried = FALSE /\ buttons = [seen |-> TRUE, fading |-> FALSE] /\ shaped = 0

Shape == shaped < MaxShaped /\ shaped' = shaped + 1

-----------------------------------------------------------------------------
(***************************************************************************)
(* The parts of a manager.                                                 *)
(***************************************************************************)
Zone(f) == f.height - f.bars

\* The event resize of the manager: work zone, directories and files, in this order;
\* the files' area after 200 ms.  The event bubbles to the browser's window.
ResizeManager ==
    /\ Shape
    /\ frame2' \in [height : Heights, bars : Bars] /\ zone' = Zone(frame2')
    /\ nav' = zone' /\ unfit' = unfit \ {"nav"}
    /\ wrapper' = zone' /\ timers2' = (timers2 \ {"list"}) \cup {"fit", "window"}
    /\ UNCHANGED <<area, content2, drawer, windowVars>>

\* The event resize of the browser's window reaches the work zone only; the bars may
\* take another number of rows.
ResizeBrowser ==
    /\ Shape
    /\ \E b \in Bars : frame2' = [frame2 EXCEPT !.bars = b]
    /\ zone' = Zone(frame2') /\ timers2' = timers2 \cup {"window"}
    /\ unfit' = IF zone' # nav THEN unfit \cup {"nav"} ELSE unfit
    /\ UNCHANGED <<nav, wrapper, area, content2, drawer, windowVars>>

\* 200 ms later the manager's listeners are told.
TellResize ==
    /\ "window" \in timers2
    /\ UNCHANGED zone /\ wrapper' = zone
    /\ timers2' = (timers2 \ {"window", "list"}) \cup {"fit"}
    /\ UNCHANGED <<frame2, nav, area, content2, unfit, drawer, windowVars, shaped>>

\* Other files are shown, or files are added; nothing is told when some are removed.
ShowFiles ==
    /\ Shape /\ content2' \in Lengths2
    /\ \/ timers2' = (timers2 \ {"fit"}) \cup {"list"} /\ UNCHANGED unfit
       \/ /\ content2' < content2 /\ UNCHANGED timers2
          /\ unfit' = unfit \cup {"area"}
    /\ area' = IF area = content2 THEN content2' ELSE IF area < content2' THEN content2' ELSE area
    /\ UNCHANGED <<frame2, zone, nav, wrapper, drawer, windowVars>>

\* The timer of the list of files: its area is as high as the list at least.
FitArea ==
    /\ timers2 \cap {"list", "fit"} # {}
    /\ wrapper' = IF "list" \in timers2 THEN zone ELSE wrapper
    /\ area' = IF content2 < wrapper' THEN wrapper' ELSE content2
    /\ timers2' = timers2 \ {"list", "fit"} /\ unfit' = unfit \ {"area"}
    /\ UNCHANGED <<frame2, zone, nav, content2, drawer, windowVars, shaped>>

-----------------------------------------------------------------------------
(***************************************************************************)
(* The list of directories as a drawer, on touch devices.                  *)
(***************************************************************************)
Toggled ==
    [drawer EXCEPT !.closed = ~@, !.width = IF drawer.closed THEN drawer.had ELSE 8,
                   !.start = NoTouch, !.turned = FALSE]

\* Opening it is an event resize, which work zone and directories hear; it bubbles to
\* the browser's window.
Toggle ==
    /\ drawer' = Toggled
    /\ IF drawer.closed
       THEN /\ zone' = Zone(frame2) /\ nav' = zone'
            /\ timers2' = timers2 \cup {"window"} /\ unfit' = unfit \ {"nav"}
            /\ UNCHANGED <<frame2, wrapper, area, content2>>
       ELSE UNCHANGED fitVars

TouchHandle ==
    /\ Shape /\ drawer.start = NoTouch /\ drawer' = [drawer EXCEPT !.start = 2]
    /\ UNCHANGED <<fitVars, windowVars>>

\* A finger that moves to the right or to the left toggles it, whichever it is; and so
\* does one that did not move.
MoveOnHandle ==
    /\ Shape /\ \E x \in 1 .. 3 :
         LET opens == drawer.start # NoTouch /\ drawer.start < x
             closes == drawer.start > x
         IN  IF opens \/ closes THEN Toggle ELSE UNCHANGED <<drawer, fitVars>>
    /\ UNCHANGED windowVars

LeaveHandle ==
    /\ drawer.start # NoTouch /\ Toggle
    /\ UNCHANGED <<windowVars, shaped>>

\* The window of a mobile device is turned: the list gets at most half of it.
TurnDevice ==
    /\ Shape
    /\ \E w \in Widths2 :
         drawer' = [drawer EXCEPT !.width = w, !.had = w, !.turned = @ \/ drawer.closed]
    /\ zone' = Zone(frame2) /\ timers2' = timers2 \cup {"window"}
    /\ UNCHANGED <<frame2, nav, wrapper, area, content2, unfit, windowVars>>

-----------------------------------------------------------------------------
(***************************************************************************)
(* The preview window.                                                     *)
(***************************************************************************)
\* The icon "full screen": the position is kept, and restored; over the full window
\* the buttons fade 3 s after the pointer moved, and 3 s after it was made full.
TurnFull(w) ==
    IF w.full THEN [w EXCEPT !.full = FALSE, !.at = saved] ELSE [w EXCEPT !.full = TRUE, !.at = "full"]

ClickFull ==
    /\ Shape /\ shown2.state # "closed"
    /\ shown2' = TurnFull(shown2)
    /\ saved' = IF shown2.full THEN saved
                ELSE IF shown2.state = "opened" THEN shown2.at ELSE "between"
    /\ hurried' = (hurried \/ shown2.state # "opened")
    /\ buttons' = [seen |-> TRUE, fading |-> ~shown2.full]
    /\ UNCHANGED <<fitVars, drawer>>

\* open: at its default position in the end, whatever it was before.
OpenPreview ==
    /\ Shape /\ shown2.state = "closed"
    /\ shown2' = [shown2 EXCEPT !.state = "opening", !.at = "icon"]
    /\ buttons' = [buttons EXCEPT !.seen = TRUE]
    /\ UNCHANGED <<fitVars, drawer, saved, hurried>>

\* close: it is no longer full, and shrinks to the file's icon.
ClosePreview ==
    /\ Shape /\ shown2.state = "opened"
    /\ shown2' = [(IF shown2.full THEN TurnFull(shown2) ELSE shown2) EXCEPT !.state = "closing"]
    /\ buttons' = IF shown2.full THEN [buttons EXCEPT !.seen = TRUE] ELSE buttons
    /\ UNCHANGED <<fitVars, drawer, saved, hurried>>

EndMoving ==
    /\ shown2.state \in {"opening", "closing"}
    /\ shown2' = IF shown2.state = "opening" THEN [shown2 EXCEPT !.state = "opened", !.at = "default"]
                 ELSE [shown2 EXCEPT !.state = "closed", !.at = "icon"]
    /\ UNCHANGED <<fitVars, drawer, saved, hurried, buttons, shaped>>

\* The user moves or resizes it.
MovePreview ==
    /\ Shape /\ shown2.state = "opened" /\ ~shown2.full
    /\ shown2' = [shown2 EXCEPT !.at = "moved"]
    /\ UNCHANGED <<fitVars, drawer, saved, hurried, buttons>>

\* The pointer moves over a full window, or over its buttons, which stay then.
MovePointer ==
    /\ shown2.full /\ shown2.state # "closed"
    /\ buttons' \in {[seen |-> TRUE, fading |-> f] : f \in BOOLEAN}
    /\ UNCHANGED <<fitVars, drawer, shown2, saved, hurried, shaped>>

FadeButtons ==
    /\ buttons.fading /\ buttons' = [seen |-> FALSE, fading |-> FALSE]
    /\ hurried' = (hurried \/ ~shown2.full)
    /\ UNCHANGED <<fitVars, drawer, shown2, saved, shaped>>

LayoutNext ==
    \/ ResizeManager \/ ResizeBrowser \/ TellResize \/ ShowFiles \/ FitArea
    \/ TouchHandle \/ MoveOnHandle \/ LeaveHandle \/ TurnDevice
    \/ ClickFull \/ OpenPreview \/ ClosePreview \/ EndMoving
    \/ MovePreview \/ MovePointer \/ FadeButtons

LayoutSpec == LayoutInit /\ [][LayoutNext]_layoutVars

-----------------------------------------------------------------------------
\* When no timer is pending every part has the room that is left: the list of
\* directories but for changes of the bars that only the browser's window told of,
\* the area of the files but for files that were removed.
PartsFit ==
    timers2 = {} =>
        /\ zone = Zone(frame2) /\ wrapper = zone
        /\ nav = zone \/ "nav" \in unfit
        /\ area >= content2 /\ (area >= wrapper \/ "area" \in unfit)

\* A window that was made full at rest gets back the position it had when it ends, and
\* one that is not full shows its buttons.
PreviewRestored ==
    ~hurried =>
        /\ shown2.state = "opened" => (shown2.full <=> shown2.at = "full")
        /\ shown2.full => saved \in {"default", "moved"}
        /\ ~shown2.full => buttons.seen

\* The drawer that is put away leaves 8 pixels, but on a device that was turned since;
\* else it has the width that it had, or the device's.
DrawerTrue == IF drawer.closed THEN drawer.width = 8 \/ drawer.turned ELSE drawer.width = drawer.had

LayoutTrue == PartsFit /\ PreviewRestored /\ DrawerTrue
=============================================================================
