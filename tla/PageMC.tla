------------------------------- MODULE PageMC -------------------------------
(***************************************************************************)
(* The parts of the page that keep state of their own beside the files and *)
(* the line that is typed: the tabs of the page; elFinder's uploads, scan  *)
(* of a drop, tree of directories, dialogs, preview and keyboard; and      *)
(* jquery.terminal's interpreters, output, formatting and Tab.  They share *)
(* no variable, so that what each can do does not depend on the others;    *)
(* one of them moves in a behaviour.                                       *)
(***************************************************************************)
EXTENDS Uploads, FinderTree, FinderDialogs, Tabs, Interpreters,
        TerminalOutput, TLC

VARIABLE
    part     \* BOUND: the part of the page that moves

Parts == {"uploads", "scan", "tree", "order", "dialogs", "quicklook", "keys", "tabs",
          "interpreters", "output", "text", "completion"}

finderVars  == <<uploadVars, scanVars, treeVars, orderVars, finderDialogVars, quicklookVars,
                 keyVars>>
consoleVars == <<interpreterVars, outputVars, textVars, completionVars>>
PageVars    == <<part, finderVars, consoleVars, tabVars>>

-----------------------------------------------------------------------------
(***************************************************************************)
(* Values of the constants.                                                *)
(***************************************************************************)
MCFileLists == {<<"small">>, <<"large", "small", "small">>, <<"small", "small", "small">>}
MCListings  == UNION {[1 .. n -> {File, 1, 2}] : n \in 0 .. 3}
               \cup {<<Litter>>, <<Litter, File>>, <<1, Litter>>, <<Litter, 2>>}
MCFolderOf  == (1 :> 0) @@ (2 :> 1) @@ (3 :> 2) @@ (4 :> 3)
MCManagers  == <<"local", "remote">>
MCPluginOf  == ("i" :> "image") @@ ("t" :> "text") @@ ("a" :> "audio") @@ ("v" :> "video") @@ ("d" :> "none")
MCSizes     == [cols : {2, 4}, rows : {2, 3}]
MCDirectories == {<<>>, << <<"a", "e", "a">>, <<"a", "e", "e">>, <<"e">> >>,
                  << <<"a", " ", "e">>, <<"a", ",", "e", "a">> >>,
                  << <<"a", "e">>, <<"a", "a">> >>}
MCClips     == {<<"a">>}
MCCodes     == {<<>>, <<0>>, <<31>>, <<1, 42>>, <<7>>, <<38, 5, 9>>}

-----------------------------------------------------------------------------
Moves(p) == part = p

\* A part that does not move is at one of its initial states.
Init ==
    /\ part \in Parts
    /\ UploadsInit /\ DialogsInit /\ QuicklookInit /\ KeysInit
    /\ ScanInit
    /\ Moves("scan") \/ tree = [d \in Dirs \cup {0} |-> IF d = 0 THEN <<File>> ELSE <<>>]
    /\ TreeInit /\ (Moves("tree") \/ served = {1})
    /\ TreeOrderInit
    /\ TabsInit /\ (Moves("tabs") \/ places = <<NoHash>>)
    /\ InterpretersInit /\ (Moves("interpreters") \/ stack[1].kind = "rpc")
    /\ OutputInit /\ (Moves("output") \/ (lines = <<1>> /\ frame = Hidden))
    /\ TextInit /\ (Moves("text") \/ width = 1)
    /\ CompletionInit /\ (Moves("completion") \/ names = << <<>> >>)

Next ==
    \/ /\ Moves("uploads") /\ UploadsNext
       /\ UNCHANGED <<part, scanVars, treeVars, orderVars, finderDialogVars, quicklookVars,
                      keyVars, consoleVars, tabVars>>
    \/ /\ Moves("scan") /\ ScanNext
       /\ UNCHANGED <<part, uploadVars, treeVars, orderVars, finderDialogVars, quicklookVars,
                      keyVars, consoleVars, tabVars>>
    \/ /\ Moves("tree") /\ TreeNext
       /\ UNCHANGED <<part, uploadVars, scanVars, orderVars, finderDialogVars, quicklookVars,
                      keyVars, consoleVars, tabVars>>
    \/ /\ Moves("order") /\ TreeOrderNext
       /\ UNCHANGED <<part, uploadVars, scanVars, treeVars, finderDialogVars, quicklookVars,
                      keyVars, consoleVars, tabVars>>
    \/ /\ Moves("dialogs") /\ DialogsNext
       /\ UNCHANGED <<part, uploadVars, scanVars, treeVars, orderVars, quicklookVars, keyVars,
                      consoleVars, tabVars>>
    \/ /\ Moves("quicklook") /\ QuicklookNext
       /\ UNCHANGED <<part, uploadVars, scanVars, treeVars, orderVars, finderDialogVars,
                      keyVars, consoleVars, tabVars>>
    \/ /\ Moves("keys") /\ KeysNext
       /\ UNCHANGED <<part, uploadVars, scanVars, treeVars, orderVars, finderDialogVars,
                      quicklookVars,
                      consoleVars, tabVars>>
    \/ /\ Moves("tabs") /\ TabsNext
       /\ UNCHANGED <<part, finderVars, consoleVars>>
    \/ /\ Moves("interpreters") /\ InterpretersNext
       /\ UNCHANGED <<part, finderVars, outputVars, textVars, completionVars, tabVars>>
    \/ /\ Moves("output") /\ OutputNext
       /\ UNCHANGED <<part, finderVars, interpreterVars, textVars, completionVars,
                      tabVars>>
    \/ /\ Moves("text") /\ TextNext
       /\ UNCHANGED <<part, finderVars, interpreterVars, outputVars,
                      completionVars, tabVars>>
    \/ /\ Moves("completion") /\ CompletionNext
       /\ UNCHANGED <<part, finderVars, interpreterVars, outputVars, textVars, tabVars>>

Spec == Init /\ [][Next]_PageVars

\* The variables of every part have values of their types.
PageTypeOK ==
    /\ Moves("uploads") => UploadsTypeOK
    /\ Moves("scan") => ScanTypeOK
    /\ Moves("tree") => TreeTypeOK
    /\ Moves("order") => TreeOrderTypeOK
    /\ Moves("dialogs") => DialogsTypeOK
    /\ Moves("quicklook") => QuicklookTypeOK
    /\ Moves("keys") => KeysTypeOK
    /\ Moves("tabs") => TabsTypeOK
    /\ Moves("interpreters") => InterpretersTypeOK
    /\ Moves("output") => OutputTypeOK
    /\ Moves("text") => TextTypeOK
    /\ Moves("completion") => CompletionTypeOK

\* Of what is dropped every file is found, and every upload is accounted for by the
\* flag, the connections and the notices that it holds.
UploadsWhole == (Moves("uploads") => UploadsAccounted) /\ (Moves("scan") => ScanFindsAll)

\* What elFinder and the tabs draw is true: the tree of directories and its order, the overlay
\* below dialogs, the preview, the tab that is shown, and the managers that look
\* enabled: they alone take keys.
FinderShown ==
    /\ Moves("tree") => TreeTrue
    /\ Moves("order") => TreeSorted
    /\ Moves("dialogs") => OverlayTrue
    /\ Moves("quicklook") => QuicklookTrue
    /\ Moves("keys") => KeysTrue
    /\ Moves("tabs") => TabsTrue

\* What jquery.terminal draws is what was written: no line is lost when lines are
\* cut, wrapped, formatted and drawn again, and what Tab adds is what the names of
\* the directory agree in (complete_helper).
TerminalDrawn ==
    /\ Moves("output") => ScreenTrue
    /\ Moves("text") => TextTrue
    /\ Moves("completion") => CompletionTrue
=============================================================================
