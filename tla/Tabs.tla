---------------------------------- MODULE Tabs ----------------------------------
(***************************************************************************)
(* The tab containers of DEVMaid's page, one for the local and one for the *)
(* remote side: the panels that fade, and the hash of the page's address,  *)
(* which both containers and the histories of both elFinders write.  The   *)
(* containers have easytabs' default settings.  Below them the keyboard,   *)
(* which the managers in the tabs share.                                   *)
(***************************************************************************)
EXTENDS Naturals, Sequences, FiniteSets, SequencesExt

CONSTANTS
    Boxes,     \* containers: 1 .. n, in the order their handlers were bound
    Tabs,      \* tabs of each: 1 .. n, in the order of their panels
    MaxPlaces, \* BOUND: entries of the browser's history
    MaxEvents  \* BOUND: hashchange events under way

ASSUME TabConstants ==
    /\ 1 \in Boxes /\ Boxes = 1 .. Cardinality(Boxes)
    /\ 1 \in Tabs /\ Tabs = 1 .. Cardinality(Tabs)
    /\ MaxPlaces \in Nat \ {0} /\ MaxEvents \in Nat

VARIABLES
    boxes,        \* the containers
    places, here, \* the history of the browser: hashes, and which is current
    hashEvents    \* hashchange events not yet handled

tabVars == <<boxes, places, here, hashEvents>>

Other == [box |-> 0, tab |-> 0]   \* a directory of an elFinder
NoHash == [box |-> 0, tab |-> 1]
Hash == [box : Boxes, tab : Tabs] \cup {Other, NoHash}
DefaultTab == 1

\* Effects a panel has in its queue, the one that runs first; and when one that
\* hides is over, the panel to show.
Effect == [op : {"hide"}, next : Tabs] \cup [op : {"show"}, next : {0}]
Box == [active : Tabs, visible : SUBSET Tabs, fx : [Tabs -> Seq(Effect)],
        skipUpdateToHash : BOOLEAN, lastHash : Hash]

TabsTypeOK ==
    /\ boxes \in [Boxes -> Box]
    /\ places \in Seq(Hash) /\ Len(places) <= MaxPlaces
    /\ here \in 1 .. Len(places)
    /\ hashEvents \in 0 .. MaxEvents

\* The page is loaded with no hash, or with that of one tab.
TabsInit ==
    /\ \E hash \in Hash \ {Other} :
         /\ places = <<hash>>
         /\ boxes = [b \in Boxes |->
              LET tab == IF hash.box = b THEN hash.tab ELSE DefaultTab
              IN  [active |-> tab, visible |-> {tab}, fx |-> [t \in Tabs |-> <<>>],
                   skipUpdateToHash |-> FALSE, lastHash |-> NoHash]]
    /\ here = 1 /\ hashEvents = 0

-----------------------------------------------------------------------------
\* The page: what a handler changes on its way.
Page == [boxes |-> boxes, places |-> places, here |-> here, events |-> hashEvents]
PageBecomes(p) ==
    /\ boxes' = p.boxes /\ places' = p.places /\ here' = p.here /\ hashEvents' = p.events
    /\ Len(p.places) <= MaxPlaces /\ p.events <= MaxEvents

HashOf(p) == p.places[p.here]

SetHash(p, hash) ==
    IF HashOf(p) = hash THEN p
    ELSE [p EXCEPT !.places = Append(SubSeq(@, 1, p.here), hash), !.here = @ + 1, !.events = @ + 1]

\* An effect begins: what hides is visible until it is over, what shows at once.
Begin(p, b, t) ==
    IF p.boxes[b].fx[t] # <<>> /\ p.boxes[b].fx[t][1].op = "show"
    THEN [p EXCEPT !.boxes[b].visible = @ \cup {t}] ELSE p

Queue(p, b, t, effect) ==
    LET q == [p EXCEPT !.boxes[b].fx[t] = Append(@, effect)]
    IN  IF Len(q.boxes[b].fx[t]) = 1 THEN Begin(q, b, t) ELSE q

\* showPanel, when the panel before is hidden.
ShowPanel(p, b, t) ==
    LET q == IF p.boxes[b].skipUpdateToHash
             THEN [p EXCEPT !.boxes[b].skipUpdateToHash = FALSE]
             ELSE SetHash(p, [box |-> b, tab |-> t])
    IN  Queue(q, b, t, [op |-> "show", next |-> 0])

\* What is left to do when the effect in front of a queue is over.
Ended(p, b, t, effect) ==
    IF effect.op = "hide"
    THEN ShowPanel([p EXCEPT !.boxes[b].visible = @ \ {t}], b, effect.next)
    ELSE p

\* plugin.panels.stop(true, true): one panel after the other loses its queue, and
\* what runs is over at once.
Stop(p, b) ==
    LET StopOne(q, t) ==
            LET fx == q.boxes[b].fx[t]
                cleared == [q EXCEPT !.boxes[b].fx[t] = <<>>]
            IN  IF fx = <<>> THEN q ELSE Ended(cleared, b, t, fx[1])
    IN  FoldLeft(StopOne, p, [t \in Tabs |-> t])

\* activateTab: the tab is marked at once, and every panel that can be seen hides.
Activate(p, b, t) ==
    LET q == Stop(p, b)
        visible == q.boxes[b].visible
        marked  == [q EXCEPT !.boxes[b].active = t, !.boxes[b].lastHash = HashOf(q)]
        Hide(r, v) == IF v \in visible THEN Queue(r, b, v, [op |-> "hide", next |-> t]) ELSE r
    IN  IF visible = {} THEN Queue(marked, b, t, [op |-> "show", next |-> 0])
        ELSE FoldLeft(Hide, marked, [v \in Tabs |-> v])

SelectTab(p, b, t) == IF p.boxes[b].active = t THEN p ELSE Activate(p, b, t)

Skip(p, b, value) == [p EXCEPT !.boxes[b].skipUpdateToHash = value]

\* selectTabFromHashChange, with the hash of the moment: the tab it names, or the
\* default one when no tab is named and the hash before the last change was here.
FromHashChange(p, b) ==
    LET hash == HashOf(p) IN
    IF hash.box = b THEN SelectTab(Skip(p, b, TRUE), b, hash.tab)
    ELSE IF p.boxes[b].active # DefaultTab /\ (hash = NoHash \/ p.boxes[b].lastHash.box = b)
    THEN SelectTab(Skip(p, b, TRUE), b, DefaultTab)
    ELSE p

-----------------------------------------------------------------------------
Click(b, t) == PageBecomes(SelectTab(Skip(Page, b, FALSE), b, t))

\* An effect is over, and the next in its queue begins.
EffectEnds(b, t) ==
    /\ boxes[b].fx[t] # <<>>
    /\ LET q == Ended(Page, b, t, boxes[b].fx[t][1])
       IN  PageBecomes(Begin([q EXCEPT !.boxes[b].fx[t] = Tail(@)], b, t))

\* The handlers of all containers.
HashChange ==
    /\ hashEvents > 0
    /\ PageBecomes(FoldLeft(FromHashChange, [Page EXCEPT !.events = @ - 1], [b \in Boxes |-> b]))

\* Back and forward.
Go(to) ==
    /\ to \in DOMAIN places
    /\ PageBecomes([Page EXCEPT !.here = to,
                                !.events = IF places[to] = places[here] THEN @ ELSE @ + 1])

\* A directory is opened in an elFinder: pushState, which is no hashchange.
OpenDirectory ==
    PageBecomes([Page EXCEPT !.places = Append(SubSeq(@, 1, here), Other), !.here = @ + 1])

TabsNext ==
    \/ \E b \in Boxes, t \in Tabs : Click(b, t) \/ EffectEnds(b, t)
    \/ HashChange
    \/ Go(here - 1) \/ Go(here + 1)
    \/ OpenDirectory

-----------------------------------------------------------------------------
Still == \A b \in Boxes, t \in Tabs : boxes[b].fx[t] = <<>>

\* Whatever fades, one panel of a container can be seen; when nothing fades any
\* more that is the one of the tab that is marked, and a hash that names a tab
\* of a container names that one.
TabsTrue ==
    /\ \A b \in Boxes : Cardinality(boxes[b].visible) = 1
    /\ Still => \A b \in Boxes : boxes[b].visible = {boxes[b].active}
    /\ Still /\ hashEvents = 0 =>
         \A b \in Boxes : places[here].box = b => boxes[b].active = places[here].tab

-----------------------------------------------------------------------------
(***************************************************************************)
(* The keyboard of a page with two file managers.  Both listen on the       *)
(* document, each for itself, and act while they are enabled; a manager is  *)
(* disabled by a click beside it, but a click on a file is never heard of   *)
(* outside.  Keys go first to what has the focus: the input for a name, or  *)
(* a button of a dialog.  Enabling a manager takes the focus away, and an   *)
(* input that loses it sends the name as far as it was typed.              *)
(***************************************************************************)
CONSTANTS
    Managers,  \* a sequence of the page's managers, in the order they were made
    Tabbed,    \* BOUND: managers whose tab is left and entered
    MaxNames   \* BOUND: names asked for

ASSUME KeysAssumption ==
    /\ Managers \in Seq(STRING) /\ IsInjective(Managers)
    /\ Tabbed \subseteq ToSet(Managers) /\ MaxNames \in Nat

M == ToSet(Managers)

VARIABLES
    on, prev,   \* enabled and prevEnabled of a manager
    dialog,     \* its dialog: only the question, "confirm", has the overlay
    shown,      \* whether the tab shows it
    naming,     \* the inputs for names that ever were
    focus,      \* what has the focus
    due,        \* managers that are about to be clicked, after their last dialog
    heard       \* HISTORY: managers the user turned to since a click was heard last

uiVars  == <<on, prev, dialog, naming, focus, due>>
keyVars == <<uiVars, shown, heard>>

Body == [at |-> "body"]
Input(w) == [at |-> "input", of |-> w]
Button(m) == [at |-> "button", of |-> m]

\* A name is typed or left as proposed.  HISTORY: whether nothing else was under way
\* when it was asked for, and what took the focus from its input.
Naming == [of : M, kind : {"rename", "make"}, typed : BOOLEAN,
           state : {"typing", "sent", "over"}, alone : BOOLEAN,
           by : {"", "key", "click", "program"}]

KeysTypeOK ==
    /\ on \in [M -> BOOLEAN] /\ prev \in [M -> BOOLEAN]
    /\ dialog \in [M -> {"none", "error", "confirm"}]
    /\ shown \in [M -> BOOLEAN]
    /\ naming \in Seq(Naming) /\ Len(naming) <= MaxNames
    /\ focus \in {Body} \cup {Input(w) : w \in DOMAIN naming} \cup {Button(m) : m \in M}
    /\ due \subseteq M /\ heard \subseteq M

-----------------------------------------------------------------------------
(***************************************************************************)
(* The shortcuts: commands claim keys in the order they are loaded, then    *)
(* the list of files and the search; a key goes to the first that claims it.*)
(***************************************************************************)
Claims ==
    << <<"open", {"ctrl+down", "numpad_enter", "enter"}>>,
       <<"reload", {"ctrl+shift+r", "f5"}>>,
       <<"home", {"ctrl+home", "ctrl+shift+up"}>>, <<"up", {"ctrl+up"}>>,
       <<"back", {"ctrl+left", "backspace"}>>, <<"forward", {"ctrl+right"}>>,
       <<"quicklook", {"space"}>>, <<"download", {"shift+enter"}>>,
       <<"rm", {"delete", "ctrl+backspace"}>>, <<"rename", {"f2"}>>,
       <<"mkdir", {"ctrl+shift+n"}>>, <<"upload", {"ctrl+u"}>>,
       <<"copy", {"ctrl+c", "ctrl+insert"}>>, <<"cut", {"ctrl+x", "shift+insert"}>>,
       <<"paste", {"ctrl+v", "shift+insert"}>>, <<"edit", {"ctrl+e"}>>,
       <<"info", {"ctrl+i"}>>, <<"help", {"f1"}>>, <<"find", {"ctrl+f", "f3"}>>,
       <<"selectall", {"ctrl+a"}>>, <<"first", {"home"}>>, <<"last", {"end"}>> >>

Claimants(key) == {i \in DOMAIN Claims : key \in Claims[i][2]}
Command(key) == Claims[CHOOSE i \in Claimants(key) : \A j \in Claimants(key) : i <= j][1]

-----------------------------------------------------------------------------
(***************************************************************************)
(* The page as handlers change it.  An operator yields all that may become  *)
(* of it: a name that is left is sent, or refused with an error.            *)
(***************************************************************************)
Keyboard == [on |-> on, prev |-> prev, dialog |-> dialog, naming |-> naming,
             focus |-> focus, due |-> due]

KeyboardIs(ui) ==
    /\ on' = ui.on /\ prev' = ui.prev /\ dialog' = ui.dialog /\ naming' = ui.naming
    /\ focus' = ui.focus /\ due' = ui.due

DisableKeys(ui, m) == [ui EXCEPT !.prev[m] = ui.on[m], !.on[m] = FALSE]
CanEnable(ui, m) == ~ui.on[m] /\ shown[m] /\ ui.dialog[m] # "confirm"

\* enable, when no input has the focus.
Wake(ui, m) ==
    IF CanEnable(ui, m) THEN [ui EXCEPT !.on[m] = TRUE, !.focus = Body] ELSE ui

\* An error comes to the front and takes the focus.
ShowError(ui, m) ==
    [ui EXCEPT !.dialog[m] = "error", !.focus = IF shown[m] THEN Button(m) ELSE @]

SendName(ui, w, by) == [ui EXCEPT !.naming[w].state = "sent", !.naming[w].by = by]
DropName(ui, w) == [ui EXCEPT !.naming[w] = [@ EXCEPT !.state = "over", !.typed = FALSE,
                                                  !.alone = FALSE, !.by = ""]]

\* blur, of the input that had the focus: a file's name that was not changed is
\* left alone; else the name is refused, or sent.
Leave(ui, w, by) ==
    LET m == ui.naming[w].of
    IN  IF ui.naming[w].kind = "rename" /\ ~ui.naming[w].typed
        THEN {Wake(DropName(ui, w), m)}
        ELSE LET refused == Wake(ShowError(DropName(ui, w), m), m)
             IN  {SendName(ui, w, by)} \cup IF ui.dialog[m] = "none" THEN {refused} ELSE {}

Blur(ui, by) ==
    IF ui.focus.at = "input" THEN Leave([ui EXCEPT !.focus = Body], ui.focus.of, by)
    ELSE {[ui EXCEPT !.focus = Body]}

\* enable: it takes the focus away.
EnableKeys(ui, m, by) ==
    IF CanEnable(ui, m) THEN Blur([ui EXCEPT !.on[m] = TRUE], by) ELSE {ui}

\* The manager whose input has the focus: it is enabled when its name is refused.
Left == IF focus.at = "input" THEN {naming[focus.of].of} ELSE {}

\* The focus goes to something else.
FocusOn(ui, to, by) == {[u EXCEPT !.focus = to] : u \in Blur(ui, by)}

\* The click on the document that a manager hears.
Heard(ui, in) ==
    [ui EXCEPT !.on = [m \in M |-> ui.on[m] /\ m = in],
               !.prev = [m \in M |-> ui.prev[m] \/ (m # in /\ ui.on[m])]]

-----------------------------------------------------------------------------
\* rename and mkdir; only mkdir disables its manager while the name is typed.
Name(ui, m, kind) ==
    IF Len(ui.naming) >= MaxNames THEN {}
    ELSE LET alone == /\ \A w \in DOMAIN ui.naming : ui.naming[w].state = "over"
                      /\ \A n \in M : ui.dialog[n] = "none" /\ (on[n] => n = m)
                      /\ ui.due = {}
             input == [of |-> m, kind |-> kind, typed |-> FALSE, state |-> "typing",
                       alone |-> alone, by |-> ""]
             asked == [ui EXCEPT !.naming = Append(@, input)]
             still == IF kind = "make" THEN DisableKeys(asked, m) ELSE asked
         IN  IF shown[m] THEN FocusOn(still, Input(Len(still.naming)), "program")
             ELSE {still}

\* rm asks first; the overlay disables the manager.
AskBefore(ui, m) ==
    LET asks == DisableKeys([ui EXCEPT !.dialog[m] = "confirm"], m)
    IN  IF shown[m] THEN FocusOn(asks, Button(m), "program") ELSE {asks}

\* What a manager does with a key that reaches the document, with a file selected or
\* none.
Run(ui, m, key) ==
    IF ~ui.on[m] \/ Claimants(key) = {} THEN {ui}
    ELSE CASE Command(key) = "rm" /\ ui.dialog[m] = "none" -> {ui} \cup AskBefore(ui, m)
           [] Command(key) = "rename" -> {ui} \cup Name(ui, m, "rename")
           [] Command(key) = "mkdir" -> Name(ui, m, "make")
           [] OTHER -> {ui}

\* execShortcut, of one manager after the other.
ExecShortcut(uis, key) ==
    FoldLeft(LAMBDA us, m : UNION {Run(u, m, key) : u \in us}, uis, Managers)

\* close: the overlay goes, and the manager that was enabled before it is so again.
CloseDialog(ui, m) ==
    LET gone == [ui EXCEPT !.dialog[m] = "none", !.due = @ \cup {m},
                           !.focus = IF @ = Button(m) THEN Body ELSE @]
    IN  IF ui.dialog[m] = "confirm" /\ ui.prev[m] THEN EnableKeys(gone, m, "program")
        ELSE {gone}

-----------------------------------------------------------------------------
KeysInit ==
    /\ on = [m \in M |-> TRUE] /\ prev = [m \in M |-> TRUE]
    /\ dialog = [m \in M |-> "none"] /\ shown = [m \in M |-> TRUE]
    /\ naming = <<>> /\ focus = Body /\ due = {} /\ heard = M

\* A click on a file: the manager is enabled, the browser may move the focus, and the
\* event ends there.
ClickFile ==
    \E m \in M :
      /\ shown[m] /\ dialog[m] # "confirm"
      /\ \E pressed \in EnableKeys(Keyboard, m, "click") :
           \E u \in {pressed} \cup Blur(pressed, "click") : KeyboardIs(u)
      /\ heard' = heard \cup {m} \cup Left /\ UNCHANGED shown

\* A click elsewhere in a manager: the other one hears of it.
ClickBlank ==
    \E m \in M :
      /\ shown[m] /\ dialog[m] # "confirm"
      /\ \E pressed \in EnableKeys(Keyboard, m, "click") :
           \E u \in {pressed} \cup Blur(pressed, "click") : KeyboardIs(Heard(u, m))
      /\ heard' = {m} /\ UNCHANGED shown

\* A click beside the managers, on a tab or not.
ClickOutside ==
    /\ \E u \in Blur(Keyboard, "click") : KeyboardIs(Heard(u, "outside"))
    /\ shown' \in {shown} \cup {[shown EXCEPT ![m] = ~@] : m \in Tabbed}
    /\ heard' = {}

\* The browser goes back: the tabs follow the address, and nothing is clicked.
GoBack ==
    /\ \E m \in Tabbed : shown' = [shown EXCEPT ![m] = ~@]
    /\ \E u \in {Keyboard} \cup Blur(Keyboard, "click") : KeyboardIs(u)
    /\ heard' = heard \cup Left

\* A name is typed, or the input is left with Enter or Escape.
TypeName ==
    /\ focus.at = "input"
    /\ \/ KeyboardIs([Keyboard EXCEPT !.naming[focus.of].typed = TRUE])
       \/ \E u \in Blur(Keyboard, "key") : KeyboardIs(u)
       \/ LET left == DropName([Keyboard EXCEPT !.focus = Body], focus.of)
          IN  KeyboardIs(Wake(left, naming[focus.of].of))
    /\ heard' = heard \cup Left /\ UNCHANGED shown

\* A key on a button of a dialog: Enter presses it, and then reaches the document.
PressButton ==
    /\ focus.at = "button"
    /\ \E u \in ExecShortcut(CloseDialog(Keyboard, focus.of), "enter") : KeyboardIs(u)
    /\ heard' = heard \cup {focus.of} /\ UNCHANGED shown

PressShortcut ==
    /\ focus.at # "input"
    /\ \E key \in {"delete", "f2", "ctrl+shift+n", "enter"} :
         /\ key = "enter" => focus.at = "body"
         /\ \E u \in ExecShortcut({Keyboard}, key) : KeyboardIs(u)
    /\ UNCHANGED <<shown, heard>>

\* Escape forgets what was cut, and when the key is let go closes dialogs.
PressEscape ==
    /\ focus.at # "input"
    /\ LET open == {m \in M : dialog[m] # "none"}
           closed == FoldLeft(LAMBDA us, m : IF dialog[m] = "none" THEN us
                                             ELSE UNION {CloseDialog(u, m) : u \in us},
                              ExecShortcut({Keyboard}, "escape"), Managers)
       IN  \E u \in closed : KeyboardIs(u) /\ heard' = heard \cup open
    /\ UNCHANGED shown

\* Ten milliseconds after its last dialog closed a manager is clicked by the program.
Return ==
    \E m \in due :
      /\ \E u \in EnableKeys(Keyboard, m, "program") :
           KeyboardIs(Heard([u EXCEPT !.due = @ \ {m}], m))
      /\ heard' = {m} /\ UNCHANGED shown

\* The answer to a name: the manager is enabled; mkdir shows an error, rename none.
TakeAnswer ==
    \E w \in DOMAIN naming :
      LET m == naming[w].of IN
      /\ naming[w].state = "sent"
      /\ \/ \E u \in EnableKeys(DropName(Keyboard, w), m, "program") : KeyboardIs(u)
         \/ /\ naming[w].kind = "make" /\ dialog[m] = "none"
            /\ \E u \in Blur(DropName(Keyboard, w), "program") :
                 /\ u.dialog[m] = "none"
                 /\ KeyboardIs(Wake(ShowError(u, m), m))
      /\ heard' = heard \cup {m} \cup Left /\ UNCHANGED shown

KeysNext ==
    \/ ClickFile \/ ClickBlank \/ ClickOutside \/ GoBack
    \/ TypeName \/ PressButton \/ PressShortcut \/ PressEscape
    \/ Return \/ TakeAnswer

KeysSpec == KeysInit /\ [][KeysNext]_keyVars

-----------------------------------------------------------------------------
\* A key makes only managers act that the user turned to since a click was heard
\* last: clicked in, left a name or a dialog of, or was answered by.
ActsWhereTurned == \A m \in M : on[m] => m \in heard

\* A manager takes no commands behind a question, nor while the name of a directory
\* it is to make is being typed.
DeafWhileAsking ==
    \A m \in M : on[m] =>
        /\ dialog[m] # "confirm"
        /\ focus.at = "input" =>
              ~(naming[focus.of].of = m /\ naming[focus.of].kind = "make")

\* A name that is asked for when no other is and no dialog is open is sent when the
\* user says so, with a key or a click; else an answer or the end of a dialog may send
\* it as far as it was typed.
NamesFinished ==
    \A w \in DOMAIN naming :
        naming[w].alone /\ naming[w].state = "sent" => naming[w].by \in {"key", "click"}

\* A key belongs to one command, but for the one that cuts where it should paste.
OneClaim ==
    \A i, j \in DOMAIN Claims : i < j =>
        Claims[i][2] \cap Claims[j][2] =
            IF Claims[i][1] = "cut" /\ Claims[j][1] = "paste" THEN {"shift+insert"} ELSE {}

KeysTrue == ActsWhereTurned /\ DeafWhileAsking /\ NamesFinished /\ OneClaim
=============================================================================
