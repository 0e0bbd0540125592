--------------------------- MODULE FinderCommandsMC ---------------------------
(***************************************************************************)
(* What a user does with the files of a window: the commands on them, the   *)
(* controls that offer commands, the dialogs "resize" and "info", the       *)
(* notices of what is under way, the two managers of the page, pasting,     *)
(* dragging and dropping, touches, the room of the parts, and what is       *)
(* written about a file.  The parts share no variable; one of them moves in *)
(* a behaviour.                                                             *)
(***************************************************************************)
EXTENDS FinderCommands, Controls, ImageResize, FileDetails, Notices, FilePages,
        Pasting, Drops, Layout, ElFinder, TLC

VARIABLE
    part     \* BOUND: the part of the window that moves

Parts == {"commands", "controls", "resize", "details", "notices", "pages",
          "pasting", "formats", "drops", "layout", "touch", "droptext",
          "lookups", "events", "renaming", "thumbs"}

WindowVars == <<part, cvars, controlVars, resizeVars, detailVars, noticeVars, pageVars,
                pasteVars, formatVars, dropVars, layoutVars, touchVars, textVars,
                lookupVars, eventVars, renamingVars, photoVars>>

-----------------------------------------------------------------------------
(***************************************************************************)
(* Values of the constants.                                                *)
(***************************************************************************)
Names == ("a" :> 1) @@ ("b" :> 2) @@ ("c" :> 3)
Sides == [x \in {"a", "b", "c", "here", "there"} |-> IF x \in {"c", "here"} THEN "local" ELSE "remote"]

MCPictures == {<<4, 2>>, <<7, 1>>, <<2, 5>>}
MCTurned   == {-30, 90}

MCDirsOf == ("local" :> {"l1", "l2"}) @@ ("remote" :> {"r1"})
MCHomeOf == ("local" :> "l1") @@ ("remote" :> "r1")
MCSample == {[dir |-> d, name |-> n, size |-> IF d THEN 0 ELSE 2 - n] : d \in BOOLEAN, n \in {1, 2}}
            \cup {[dir |-> FALSE, name |-> 3, size |-> 1]}
MCLeftAt == {("local" :> Unset) @@ ("remote" :> Unset), ("local" :> "l2") @@ ("remote" :> Unset)}
MCOtherSorts == {[type |-> "size", order |-> "desc", stick |-> FALSE]}

MCParentOf   == ("top" :> "top") @@ ("sub" :> "top") @@ ("deep" :> "sub")
MCFolderName == ("top" :> "") @@ ("sub" :> "s") @@ ("deep" :> "s")
MCFirstDisks == {{[dir |-> "top", name |-> "x", is |-> "c1"],
                  [dir |-> "sub", name |-> "x", is |-> "c2"]}}

\* The third day has 23 hours.
MCMidnights == <<0, 24, 47, 71>>

MCUpOf == ("r" :> NoHash) @@ ("d" :> "r") @@ ("e" :> "d")

MCTargetOf == [s \in {"list1", "list2"} |-> "list"] @@ [s \in {"dir1", "dir2"} |-> "dir"]
              @@ [s \in {"branch1", "branch2"} |-> "branch"] @@ [s \in {"box1", "box2"} |-> "box"]
              @@ ("other" :> "none")

-----------------------------------------------------------------------------
Moves(p) == part = p

\* A part that does not move is at one of its initial states.
Init ==
    /\ part \in Parts
    /\ CommandsInit /\ (Moves("commands") \/ size = [h \in Hash |-> 0])
    /\ ControlsInit /\ (Moves("controls") \/ (fm.known = {} /\ fm.write /\ ~fm.list))
    /\ ResizeInit /\ (Moves("resize") \/ natural = <<4, 2>>)
    /\ DetailsInit /\ NoticesInit
    /\ PagesInit /\ (Moves("pages") \/ (othersKept = 0 /\ store["local"].lastdir = Unset))
    /\ PastingInit /\ FormatsInit
    /\ DropsInit /\ (Moves("drops") \/ (writable /\ \A b \in Branches : branch[b].loaded))
    /\ LayoutInit /\ (Moves("layout") \/ (frame2 = [height |-> 5, bars |-> 1] /\ content2 = 2
                                         /\ drawer.width = 20))
    /\ DropTextInit
    /\ LookupsInit /\ EventsInit
    /\ RenamingInit /\ (Moves("renaming") \/ isIn = "list")
    /\ PhotosInit /\ (Moves("thumbs") \/ waiting = <<1, 2, 3>>)
    /\ TouchInit /\ (Moves("touch") \/ fixedRows = {})

Next ==
    \/ /\ Moves("commands") /\ CommandsNext
       /\ UNCHANGED <<part, controlVars, resizeVars, detailVars, noticeVars, pageVars,
                      pasteVars, formatVars, dropVars, layoutVars, touchVars, textVars, lookupVars,
                      eventVars, renamingVars, photoVars>>
    \/ /\ Moves("controls") /\ ControlsNext
       /\ UNCHANGED <<part, cvars, resizeVars, detailVars, noticeVars, pageVars,
                      pasteVars, formatVars, dropVars, layoutVars, touchVars, textVars, lookupVars,
                      eventVars, renamingVars, photoVars>>
    \/ /\ Moves("resize") /\ ResizeNext
       /\ UNCHANGED <<part, cvars, controlVars, detailVars, noticeVars, pageVars,
                      pasteVars, formatVars, dropVars, layoutVars, touchVars, textVars, lookupVars,
                      eventVars, renamingVars, photoVars>>
    \/ /\ Moves("details") /\ DetailsNext
       /\ UNCHANGED <<part, cvars, controlVars, resizeVars, noticeVars, pageVars,
                      pasteVars, formatVars, dropVars, layoutVars, touchVars, textVars, lookupVars,
                      eventVars, renamingVars, photoVars>>
    \/ /\ Moves("notices") /\ NoticesNext
       /\ UNCHANGED <<part, cvars, controlVars, resizeVars, detailVars, pageVars,
                      pasteVars, formatVars, dropVars, layoutVars, touchVars, textVars, lookupVars,
                      eventVars, renamingVars, photoVars>>
    \/ /\ Moves("pages") /\ PagesNext
       /\ UNCHANGED <<part, cvars, controlVars, resizeVars, detailVars, noticeVars,
                      pasteVars, formatVars, dropVars, layoutVars, touchVars, textVars, lookupVars,
                      eventVars, renamingVars, photoVars>>
    \/ /\ Moves("pasting") /\ PastingNext
       /\ UNCHANGED <<part, cvars, controlVars, resizeVars, detailVars, noticeVars,
                      pageVars, formatVars, dropVars, layoutVars, touchVars, textVars, lookupVars,
                      eventVars, renamingVars, photoVars>>
    \/ /\ Moves("formats") /\ FormatsNext
       /\ UNCHANGED <<part, cvars, controlVars, resizeVars, detailVars, noticeVars,
                      pageVars, pasteVars, dropVars, layoutVars, touchVars, textVars, lookupVars,
                      eventVars, renamingVars, photoVars>>
    \/ /\ Moves("drops") /\ DropsNext
       /\ UNCHANGED <<part, cvars, controlVars, resizeVars, detailVars, noticeVars,
                      pageVars, pasteVars, formatVars, layoutVars, touchVars, textVars, lookupVars,
                      eventVars, renamingVars, photoVars>>
    \/ /\ Moves("layout") /\ LayoutNext
       /\ UNCHANGED <<part, cvars, controlVars, resizeVars, detailVars, noticeVars,
                      pageVars, pasteVars, formatVars, dropVars, touchVars, textVars, lookupVars,
                      eventVars, renamingVars, photoVars>>
    \/ /\ Moves("touch") /\ TouchNext
       /\ UNCHANGED <<part, cvars, controlVars, resizeVars, detailVars, noticeVars,
                      pageVars, pasteVars, formatVars, dropVars, layoutVars, textVars, lookupVars,
                      eventVars, renamingVars, photoVars>>
    \/ /\ Moves("droptext") /\ DropTextNext
       /\ UNCHANGED <<part, cvars, controlVars, resizeVars, detailVars, noticeVars,
                      pageVars, pasteVars, formatVars, dropVars, layoutVars, touchVars, lookupVars,
                      eventVars, renamingVars, photoVars>>
    \/ /\ Moves("lookups") /\ LookupsNext
       /\ UNCHANGED <<part, cvars, controlVars, resizeVars, detailVars, noticeVars,
                      pageVars, pasteVars, formatVars, dropVars, layoutVars, touchVars, textVars,
                      eventVars, renamingVars, photoVars>>
    \/ /\ Moves("events") /\ EventsNext
       /\ UNCHANGED <<part, cvars, controlVars, resizeVars, detailVars, noticeVars,
                      pageVars, pasteVars, formatVars, dropVars, layoutVars, touchVars, textVars,
                      lookupVars, renamingVars, photoVars>>
    \/ /\ Moves("renaming") /\ RenamingNext
       /\ UNCHANGED <<part, cvars, controlVars, resizeVars, detailVars, noticeVars,
                      pageVars, pasteVars, formatVars, dropVars, layoutVars, touchVars, textVars,
                      lookupVars, eventVars, photoVars>>
    \/ /\ Moves("thumbs") /\ PhotosNext
       /\ UNCHANGED <<part, cvars, controlVars, resizeVars, detailVars, noticeVars,
                      pageVars, pasteVars, formatVars, dropVars, layoutVars, touchVars, textVars,
                      lookupVars, eventVars, renamingVars>>

Spec == Init /\ [][Next]_WindowVars

\* The variables of every part have values of their types.
WindowTypeOK ==
    /\ Moves("commands") => CommandsTypeOK
    /\ Moves("controls") => ControlsTypeOK
    /\ Moves("resize") => ResizeTypeOK
    /\ Moves("details") => DetailsTypeOK
    /\ Moves("notices") => NoticesTypeOK
    /\ Moves("pages") => PagesTypeOK
    /\ Moves("pasting") => PastingTypeOK
    /\ Moves("formats") => FormatsTypeOK
    /\ Moves("drops") => DropsTypeOK
    /\ Moves("layout") => LayoutTypeOK
    /\ Moves("touch") => TouchTypeOK
    /\ Moves("droptext") => DropTextTypeOK
    /\ Moves("lookups") => LookupsTypeOK
    /\ Moves("events") => EventsTypeOK
    /\ Moves("renaming") => RenamingTypeOK
    /\ Moves("thumbs") => PhotosTypeOK

\* What the window tells of itself is true: buttons and menus offer what can be
\* done, path, status and header say where the user is, the dialog of notices tells
\* of what is under way, what is highlighted under a drag would take it, the parts
\* have the room that they are given, and a touch does one thing and opens the menu of
\* what is below it (elfinderbutton, elfindercontextmenu, notify, droppable, resize,
\* elfindercwd).
OffersTrue ==
    /\ Moves("controls") => ControlsTrue
    /\ Moves("notices") => NoticesTrue
    /\ Moves("drops") => DropsTrue
    /\ Moves("layout") => LayoutTrue
    /\ Moves("touch") => TouchTrue
    /\ Moves("events") => EventsTrue

=============================================================================
