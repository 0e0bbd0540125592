------------------------------ MODULE FinderDialogs ------------------------------
(***************************************************************************)
(* Dialogs of elFinder: their order, the overlay that modal ones share and *)
(* whether elFinder takes commands; and the editor of one file, which      *)
(* loads it, saves it by requests the server may handle in any order, and  *)
(* asks before it drops what was typed.  The upload dialog and the         *)
(* question a paste asks are modal too; an error is not.                   *)
(***************************************************************************)
EXTENDS Integers, Sequences, FiniteSets, SequencesExt

CONSTANTS
    MaxEditors, \* BOUND: requests for the text of the file
    MaxTyped,   \* BOUND: changes of the text
    MaxSaves,   \* BOUND: times it is saved
    MaxPopups   \* BOUND: errors, questions and upload dialogs

ASSUME DialogBounds ==
    MaxEditors \in Nat /\ MaxTyped \in Nat /\ MaxSaves \in Nat /\ MaxPopups \in Nat

VARIABLES
    dialogs,     \* those that are visible, the front one last
    cnt, covers, \* the overlay: its count, and whether it is visible
    enabled, prevEnabled,
    gets,        \* requests for the text without an answer
    editors,     \* a record for each editor that ever was
    content,     \* what the server holds: the text of some change
    puts,        \* requests to save, in the order they were sent
    givenUp,     \* HISTORY: editors whose text the user chose to drop
    adrift,      \* HISTORY: a modal dialog was left without the overlay, behind an error
    typed, popups  \* BOUND

dialogVars == <<dialogs, cnt, covers, enabled, prevEnabled>>
editVars   == <<gets, editors, content, puts, givenUp>>
finderDialogVars == <<dialogVars, editVars, adrift, typed, popups>>

EditorId == 1 .. MaxEditors
Dialog == [kind : {"edit"}, of : EditorId] \cup [kind : {"error", "upload", "exists"}, of : {0}]
          \cup [kind : {"confirm"}, of : EditorId]
Modal(d) == d.kind \in {"upload", "exists", "confirm"}
\* What it shows, what counts as saved, whether it is there; HISTORY: what it loaded.
Editor == [text : 0 .. MaxTyped, old : 0 .. MaxTyped, open : BOOLEAN, loaded : 0 .. MaxTyped]
Put == [of : EditorId, text : 0 .. MaxTyped, state : {"sent", "written", "failed"}]

DialogsTypeOK ==
    /\ dialogs \in Seq(Dialog)
    /\ cnt \in Int /\ covers \in BOOLEAN
    /\ enabled \in BOOLEAN /\ prevEnabled \in BOOLEAN
    /\ gets \in Nat /\ editors \in Seq(Editor) /\ gets + Len(editors) <= MaxEditors
    /\ content \in 0 .. MaxTyped
    /\ puts \in Seq(Put) /\ Len(puts) <= MaxSaves
    /\ givenUp \subseteq EditorId
    /\ adrift \in BOOLEAN /\ typed \in 0 .. MaxTyped /\ popups \in 0 .. MaxPopups

DialogsInit ==
    /\ dialogs = <<>> /\ cnt = 0 /\ covers = FALSE /\ enabled = TRUE /\ prevEnabled = TRUE
    /\ gets = 0 /\ editors = <<>> /\ content = 0 /\ puts = <<>> /\ givenUp = {}
    /\ adrift = FALSE /\ typed = 0 /\ popups = 0

-----------------------------------------------------------------------------
\* The dialogs and the overlay together: what the handlers change.
Ui == [stack |-> dialogs, cnt |-> cnt, covers |-> covers, on |-> enabled, prev |-> prevEnabled]

Becomes(ui) ==
    /\ dialogs' = ui.stack /\ cnt' = ui.cnt /\ covers' = ui.covers
    /\ enabled' = ui.on /\ prevEnabled' = ui.prev

Disable(ui) == [ui EXCEPT !.on = FALSE, !.prev = ui.on]
Enable(ui)  == [ui EXCEPT !.on = @ \/ ~ui.covers]

\* elfinderoverlay.
Show(ui) == Disable([ui EXCEPT !.cnt = @ + 1, !.covers = TRUE])
Hide(ui) ==
    LET hidden == [ui EXCEPT !.cnt = @ - 1, !.covers = @ /\ ui.cnt # 1]
    IN  IF ui.covers /\ ~hidden.covers /\ ui.prev THEN Enable(hidden) ELSE hidden

\* totop, of the dialog in front.
ToTop(ui) == IF Modal(Last(ui.stack)) /\ ~ui.covers THEN Show(ui) ELSE ui

\* open; an editor disables elFinder.
Open(ui, d) ==
    LET top == ToTop([ui EXCEPT !.stack = Append(@, d)])
    IN  IF d.kind = "edit" THEN Disable(top) ELSE top

\* close: the overlay goes, the next dialog comes to the top, or elFinder gets the
\* focus back.
Close(ui, d) ==
    LET rest == [ui EXCEPT !.stack = SelectSeq(@, LAMBDA e : e # d)]
        bare == IF Modal(d) THEN Hide(rest) ELSE rest
    IN  IF bare.stack # <<>> THEN ToTop(bare) ELSE Enable(bare)

Top == IF dialogs = <<>> THEN [kind |-> "none", of |-> 0] ELSE Last(dialogs)
Edits(e) == [kind |-> "edit", of |-> e]
Asks(e)  == [kind |-> "confirm", of |-> e]
Popup(kind) == [kind |-> kind, of |-> 0]
HasDialog(d) == d \in ToSet(dialogs)

-----------------------------------------------------------------------------
\* The upload dialog, the question of a paste whose answer came, and errors, each
\* of which may come when other dialogs are open.
PopUp ==
    /\ popups < MaxPopups /\ popups' = popups + 1
    /\ \E kind \in {"upload", "exists", "error"} :
         /\ kind = "upload" => enabled /\ ~covers
         /\ ~HasDialog(Popup(kind))
         /\ Becomes(Open(Ui, Popup(kind)))
    /\ UNCHANGED <<editVars, typed>>

\* The button, the cross, or ESC.
ClosePopup ==
    /\ Top.kind \in {"upload", "exists", "error"}
    /\ Becomes(Close(Ui, Top))
    /\ UNCHANGED <<editVars, typed, popups>>

\* A dialog comes to the front when it is clicked, without totop.
Raise ==
    /\ ~covers
    /\ \E i \in 1 .. Len(dialogs) - 1 : dialogs' = Append(RemoveAt(dialogs, i), dialogs[i])
    /\ UNCHANGED <<cnt, covers, enabled, prevEnabled, editVars, typed, popups>>

\* A click beside the dialogs.
Focus ==
    /\ ~covers /\ ~enabled /\ enabled' = TRUE
    /\ UNCHANGED <<dialogs, cnt, covers, prevEnabled, editVars, typed, popups>>

-----------------------------------------------------------------------------
\* edit: the text is asked for, if there is no editor of the file yet; one that is
\* asked for is not known.
Edit ==
    /\ enabled /\ ~covers /\ gets + Len(editors) < MaxEditors
    /\ \A e \in DOMAIN editors : ~editors[e].open
    /\ gets' = gets + 1
    /\ UNCHANGED <<dialogVars, editors, content, puts, givenUp, typed, popups>>

Got ==
    /\ gets > 0 /\ gets' = gets - 1
    /\ editors' = Append(editors, [text |-> content, old |-> content, open |-> TRUE, loaded |-> content])
    /\ Becomes(Open(Ui, Edits(Len(editors'))))
    /\ UNCHANGED <<content, puts, givenUp, typed, popups>>

TypeText ==
    /\ Top.kind = "edit" /\ typed < MaxTyped /\ typed' = typed + 1
    /\ editors' = [editors EXCEPT ![Top.of].text = typed + 1]
    /\ UNCHANGED <<dialogVars, gets, content, puts, givenUp, popups>>

Sent(e) == Append(puts, [of |-> e, text |-> editors[e].text, state |-> "sent"])

\* save: the text counts as saved from now on.
Save ==
    /\ Top.kind = "edit" /\ Len(puts) < MaxSaves
    /\ editors' = [editors EXCEPT ![Top.of].old = editors[Top.of].text]
    /\ puts' = Sent(Top.of)
    /\ UNCHANGED <<dialogVars, gets, content, givenUp, typed, popups>>

\* savecl.
SaveClose ==
    /\ Top.kind = "edit" /\ Len(puts) < MaxSaves
    /\ editors' = [editors EXCEPT ![Top.of].old = editors[Top.of].text, ![Top.of].open = FALSE]
    /\ puts' = Sent(Top.of)
    /\ Becomes(Close(Ui, Top))
    /\ UNCHANGED <<gets, content, givenUp, typed, popups>>

\* cancel, and the cross of the dialog, which hides it first: if the text was
\* changed since it was saved, there is a question.
CancelEdit ==
    /\ Top.kind = "edit"
    /\ LET e == Top.of IN
       IF editors[e].old # editors[e].text
       THEN \/ /\ editors' = [editors EXCEPT ![e].old = editors[e].text]
               /\ Becomes(Open(Ui, Asks(e)))
            \/ Becomes(Open(Close(Ui, Top), Asks(e))) /\ UNCHANGED editors
       ELSE /\ Becomes(Close(Ui, Top))
            /\ editors' = [editors EXCEPT ![e].open = FALSE]
    /\ UNCHANGED <<gets, content, puts, givenUp, typed, popups>>

\* MUTANT: the answer closes the editor without saving.
AcceptUnsaved ==
    /\ Top.kind = "confirm" /\ Len(puts) < MaxSaves
    /\ LET e == Top.of IN
       /\ editors' = [editors EXCEPT ![e].old = editors[e].text, ![e].open = FALSE]
       /\ UNCHANGED puts
       /\ Becomes(Close(IF HasDialog(Edits(e)) THEN Close(Ui, Edits(e)) ELSE Ui, Top))
    /\ UNCHANGED <<gets, content, givenUp, typed, popups>>
\* "Save and close": the editor goes first, then the question.
Accept ==
    /\ Top.kind = "confirm" /\ Len(puts) < MaxSaves
    /\ LET e == Top.of IN
       /\ editors' = [editors EXCEPT ![e].old = editors[e].text, ![e].open = FALSE]
       /\ puts' = Sent(e)
       /\ Becomes(Close(IF HasDialog(Edits(e)) THEN Close(Ui, Edits(e)) ELSE Ui, Top))
    /\ UNCHANGED <<gets, content, givenUp, typed, popups>>

\* "Close", the cross, or ESC: the question goes, and the editor with it.
Decline ==
    /\ Top.kind = "confirm"
    /\ LET e == Top.of  gone == Close(Ui, Top) IN
       /\ editors' = [editors EXCEPT ![e].open = FALSE]
       /\ givenUp' = givenUp \cup {e}
       /\ Becomes(IF HasDialog(Edits(e)) THEN Close(gone, Edits(e)) ELSE gone)
    /\ UNCHANGED <<gets, content, puts, typed, popups>>

-----------------------------------------------------------------------------
\* The server writes the texts in the order its threads get to; an error is shown,
\* and the text still counts as saved.
Written ==
    /\ \E i \in DOMAIN puts :
         /\ puts[i].state = "sent"
         /\ puts' = [puts EXCEPT ![i].state = "written"]
         /\ content' = puts[i].text
    /\ UNCHANGED <<dialogVars, gets, editors, givenUp, typed, popups>>

PutFailed ==
    /\ popups < MaxPopups /\ popups' = popups + 1
    /\ ~HasDialog(Popup("error"))
    /\ \E i \in DOMAIN puts :
         /\ puts[i].state = "sent"
         /\ puts' = [puts EXCEPT ![i].state = "failed"]
    /\ Becomes(Open(Ui, Popup("error")))
    /\ UNCHANGED <<gets, editors, content, givenUp, typed>>

DialogSteps ==
    \/ PopUp \/ ClosePopup \/ Raise \/ Focus
    \/ Edit \/ Got \/ TypeText \/ Save \/ SaveClose \/ CancelEdit \/ Accept \/ Decline
    \/ Written \/ PutFailed
DialogsNext ==
    /\ DialogSteps
    /\ adrift' = (adrift \/ (/\ ~covers' /\ dialogs' # <<>> /\ ~Modal(Last(dialogs'))
                          /\ \E d \in ToSet(dialogs') : Modal(d)))

-----------------------------------------------------------------------------
\* The overlay is there while a modal dialog is in front, and gone when there is
\* none, its count then zero; and with no dialog left elFinder takes commands
\* again.  Not held against the code once a modal dialog was closed in front of an
\* error in front of another modal one (adrift): that has no overlay then, and if
\* it closes next the count goes below zero, and the overlay of the next modal
\* dialog stays for good.
OverlayTrue ==
    ~adrift =>
      /\ Modal(Top) => covers
      /\ covers => cnt = 1 /\ \E d \in ToSet(dialogs) : Modal(d)
      /\ ~covers => cnt = 0
      /\ dialogs = <<>> => enabled

\* What was typed in an editor that is gone was sent to be saved, unless the user
\* said it need not be.  Not held against the code when the question lost its
\* overlay (adrift): the editor can then be raised from behind it and cancelled,
\* and takes its text for saved.
EditsKept ==
    ~adrift => \A e \in DOMAIN editors :
        ~editors[e].open /\ e \notin givenUp =>
            \/ editors[e].text = editors[e].loaded
            \/ \E i \in DOMAIN puts : puts[i].of = e /\ puts[i].text = editors[e].text

-----------------------------------------------------------------------------
(***************************************************************************)
(* The preview window (quicklook): it opens and closes with an animation,  *)
(* follows the selection while it is open, and the plugins that fill it    *)
(* load what they show after the file may have changed again.              *)
(***************************************************************************)
CONSTANTS
    Previews,  \* files that can be selected
    PluginOf   \* the plugin for each, or "none"

Players == {"audio", "video", "flash"}

ASSUME PreviewConstants ==
    PluginOf \in [Previews -> {"image", "text", "pdf", "none"} \cup Players]

VARIABLES
    window,    \* "closed", "opening", "opened" or "closing"
    state,     \* of the command: -1, 0 or 1
    value,     \* the file it is to show
    picked,    \* the selected files, the first of them first
    titled,    \* the file whose name and data the window shows
    loading,   \* what is on its way: text that is asked for, an image, a frame
    preview,   \* the files whose content can be seen
    info,      \* the file's data: "hidden", "delayed" or "shown"
    timers,    \* images in the window whose 1 ms timer runs
    orphans,   \* such timers of images that are not in the window any more
    overlate   \* HISTORY: one of those hid the data that are shown now

onScreen == <<titled, loading, preview, info, timers, orphans, overlate>>
quicklookVars == <<window, state, value, picked, onScreen>>

NoFile == "none"
Files == Previews \cup {NoFile}

QuicklookTypeOK ==
    /\ window \in {"closed", "opening", "opened", "closing"}
    /\ state \in {-1, 0, 1}
    /\ value \in Files /\ titled \in Files
    /\ picked \in {<<>>} \cup {<<f>> : f \in Previews} \cup (Previews \X Previews)
    /\ loading \cup preview \cup timers \subseteq Previews
    /\ info \in {"hidden", "delayed", "shown"} /\ orphans \in BOOLEAN /\ overlate \in BOOLEAN

QuicklookInit ==
    /\ window = "closed" /\ state = -1 /\ value = NoFile /\ picked = <<>>
    /\ titled = NoFile /\ loading = {} /\ preview = {} /\ info = "hidden"
    /\ timers = {} /\ orphans = FALSE /\ overlate = FALSE

-----------------------------------------------------------------------------
First(s) == IF s = <<>> THEN NoFile ELSE s[1]

\* getstate.
Getstate(s, win) == IF s = <<>> \/ Tail(s) # <<>> THEN -1 ELSE IF win = "opened" THEN 1 ELSE 0

\* The plugin for a file asks for a text, or for an image or a frame; a player for
\* sound, video or flash is there at once.
Loads(f) == IF PluginOf[f] \in {"image", "text", "pdf"} THEN {f} ELSE {}
Plays(f) == IF PluginOf[f] \in Players THEN {f} ELSE {}

\* The file's data are shown after 100 ms; at once if there is no plugin for it, and
\* never beside a film.
InfoOf(f) ==
    CASE PluginOf[f] = "none"             -> "shown"
      [] PluginOf[f] \in {"video", "flash"} -> "hidden"
      [] OTHER                            -> "delayed"

\* What the window held is removed from it; the timers of images go on.
Emptied == timers' = {} /\ orphans' = (orphans \/ timers # {})

\* The event update, after change: nothing is left of the file before, and the
\* plugin for the new one begins.
ShowFile(f) ==
    /\ titled' = f /\ loading' = Loads(f) /\ preview' = Plays(f)
    /\ info' = InfoOf(f) /\ overlate' = FALSE
    /\ Emptied

\* The animation ends, or there is no row to return to.
WindowGone == window' = "closed" /\ state' = 0 /\ preview' = {} /\ loading' = {} /\ Emptied

\* The event close, of an open window: what is being loaded or played is stopped,
\* but for images and flash, which stay until the window is gone.
BeginClose(s) ==
    /\ info' = "hidden" /\ UNCHANGED <<titled, overlate>>
    /\ \/ WindowGone
       \/ /\ window' = "closing" /\ state' = s
          /\ loading' = {f \in loading : PluginOf[f] = "image"}
          /\ preview' = {f \in preview : PluginOf[f] \notin {"audio", "video"}}
          /\ UNCHANGED <<timers, orphans>>

\* The listener of the command's changes.
Changed(s, v) ==
    IF v # NoFile THEN ShowFile(v) /\ state' = s /\ window' = "opened" ELSE BeginClose(s)

\* update of the command.
Update(s, v) ==
    /\ value' = v
    /\ IF window = "opened" /\ (s # state \/ v # value)
       THEN Changed(s, v)
       ELSE state' = s /\ UNCHANGED <<window, onScreen>>

-----------------------------------------------------------------------------
\* The selection changes.
Select ==
    /\ \E s \in {<<>>} \cup {<<f>> : f \in Previews} \cup {<<f, g>> \in Previews \X Previews : f # g} :
         s # picked /\ picked' = s
    /\ Update(Getstate(picked', window), First(picked'))

\* The events enable and disable, of elFinder.
EnableQuicklook  == Update(Getstate(picked, window), value) /\ UNCHANGED picked
DisableQuicklook == Update(-1, value) /\ UNCHANGED picked

\* The events open, reload and load: the listener runs whether or not anything changed.
RefreshQuicklook ==
    /\ UNCHANGED <<value, picked>>
    /\ LET s == Getstate(picked, window)
       IN IF window = "opened" THEN Changed(s, value) ELSE state' = s /\ UNCHANGED <<window, onScreen>>

\* exec: the space bar or the button.
OpenWindow ==
    /\ window = "closed" /\ state > -1 /\ value # NoFile
    /\ window' = "opening"
    /\ UNCHANGED <<state, value, picked, onScreen>>

\* The end of the animation: the window is opened and shows what is the value now.
EndOpening ==
    /\ window = "opening" /\ Changed(1, value)
    /\ UNCHANGED <<value, picked>>

\* exec, ESC, the cross, an error, a search shown or hidden.
CloseWindow ==
    /\ window = "opened" /\ BeginClose(state)
    /\ UNCHANGED <<value, picked>>

EndClosing ==
    /\ window = "closing" /\ WindowGone
    /\ UNCHANGED <<value, picked, titled, info, overlate>>

-----------------------------------------------------------------------------
\* A text or a frame arrives and takes the place of the file's data; an image
\* does after 1 ms.
Arrive ==
    /\ \E f \in loading :
         /\ loading' = loading \ {f}
         /\ IF PluginOf[f] = "image"
            THEN timers' = timers \cup {f} /\ UNCHANGED <<preview, info>>
            ELSE preview' = preview \cup {f} /\ info' = "hidden" /\ UNCHANGED timers
    /\ UNCHANGED <<window, state, value, picked, titled, orphans, overlate>>

\* An answer is an error, which is not shown.
ArriveNot ==
    /\ \E f \in loading : PluginOf[f] # "pdf" /\ loading' = loading \ {f}
    /\ UNCHANGED <<window, state, value, picked, titled, preview, info, timers, orphans, overlate>>

\* The timer shows its image, if that is still there, and hides the data of
\* whatever file is shown by then.
Timer ==
    /\ info' = "hidden"
    /\ \/ /\ timers # {} /\ timers' = {} /\ preview' = preview \cup timers
          /\ UNCHANGED <<orphans, overlate>>
       \/ /\ orphans /\ orphans' \in BOOLEAN /\ overlate' = TRUE
          /\ UNCHANGED <<timers, preview>>
    /\ UNCHANGED <<window, state, value, picked, titled, loading>>

Delayed ==
    /\ info = "delayed" /\ info' = "shown"
    /\ UNCHANGED <<window, state, value, picked, titled, loading, preview, timers, orphans, overlate>>

QuicklookNext ==
    \/ Select \/ EnableQuicklook \/ DisableQuicklook \/ RefreshQuicklook
    \/ OpenWindow \/ EndOpening \/ CloseWindow \/ EndClosing
    \/ Arrive \/ ArriveNot \/ Timer \/ Delayed

-----------------------------------------------------------------------------
\* An open window shows the file that is selected, the first if there are several:
\* its content once that is there and nothing else's, its data as long as it has
\* none; and a closed one holds nothing.  Not held against the code: the timer of
\* an image hides the data of the file that was selected meanwhile (overlate).
QuicklookTrue ==
    /\ window = "opened" =>
         /\ value = First(picked) /\ titled = value
         /\ preview \cup loading \cup timers \subseteq {value}
         /\ preview = {} /\ ~overlate => info # "hidden"
    /\ window = "closed" => preview = {} /\ loading = {} /\ timers = {}
=============================================================================
