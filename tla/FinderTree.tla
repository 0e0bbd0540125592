----------------------------- MODULE FinderTree -----------------------------
(***************************************************************************)
(* The tree of directories in elFinder's navbar: the nodes that the events *)
(* open, add, change and remove put there, what the arrows ask the server  *)
(* for, and what DEVMaid's server answers to "tree" and "parents".  A node *)
(* lies in the subtree of its parent's node.                               *)
(***************************************************************************)
EXTENDS Naturals, Sequences, FiniteSets
LOCAL INSTANCE SequencesExt
LOCAL INSTANCE FiniteSetsExt

CONSTANTS
    Folders,   \* directories of the server; the root is 1, a child is greater
    FolderOf,  \* the directory each lies in; of the root: 0
    MaxAsked,  \* BOUND: requests of the tree under way
    MaxUpsets  \* BOUND: directories made, removed and changed, and listings that fail

ASSUME TreeConstants ==
    /\ Folders \subseteq Nat \ {0} /\ 1 \in Folders
    /\ FolderOf \in [Folders -> Folders \cup {0}]
    /\ \A f \in Folders : FolderOf[f] < f /\ (f = 1 <=> FolderOf[f] = 0)
    /\ MaxAsked \in Nat /\ MaxUpsets \in Nat

VARIABLES
    served,     \* directories that exist on the server
    nav,        \* the tree: nodes and their classes
    workdir,    \* the working directory
    inSearch,   \* search results are shown
    asking,     \* requests, and their answers once the server has made them
    unseen,     \* HISTORY: directories somebody else made
    unlisted,   \* HISTORY: directories whose listing failed or came from an open
    upsets      \* BOUND

treeVars == <<served, nav, workdir, inSearch, asking, unseen, unlisted, upsets>>

Nav == [shown : SUBSET Folders, twice : SUBSET Folders, collapsed : SUBSET Folders,
        expanded : SUBSET Folders, loaded : SUBSET Folders, active : SUBSET Folders]
Asking == [cmd : {"tree", "parents"}, target : Folders, noCwd : BOOLEAN,
           dirs : SUBSET Folders, answer : SUBSET Folders, state : {"asked", "answered", "failed"}]

TreeTypeOK ==
    /\ served \subseteq Folders /\ 1 \in served
    /\ nav \in Nav
    /\ workdir \in Folders /\ inSearch \in BOOLEAN
    /\ asking \subseteq Asking
    /\ unseen \cup unlisted \subseteq Folders
    /\ upsets \in 0 .. MaxUpsets

-----------------------------------------------------------------------------
Above[f \in Folders] ==
    IF f = 1 THEN {} ELSE {FolderOf[f]} \cup Above[FolderOf[f]]

In(f, set) == {g \in set : FolderOf[g] = f}
Below(f)   == {g \in Folders : f \in Above[g]}

\* itemhtml: collapsed if the server says there are subdirectories.
Added(n, new) ==
    [n EXCEPT !.shown = @ \cup new,
              !.collapsed = @ \cup {f \in new : In(f, served) # {}}]

\* updateTree: again and again, while there are directories whose parent has a
\* node.  A first child is put in at the end, with all the others: those in the
\* list two times get two nodes.
UpdateTree(n, dirs, listedTwice) ==
    LET new == {f \in dirs \ n.shown : Above[f] \subseteq n.shown \cup dirs}
    IN  [Added(n, new) EXCEPT
           !.twice = @ \cup {f \in new \cap listedTwice : In(FolderOf[f], n.shown) = {}}]

\* updateArrows.
UpdateArrowsLoaded(n, dirs) ==
    [n EXCEPT !.loaded = @ \cup
       {f \in n.collapsed : In(f, dirs) # {} /\ In(f, n.shown) # {}}]
UpdateArrowsCollapsed(n, dirs) ==
    [n EXCEPT !.collapsed = @ \cup
       {f \in n.shown : In(f, dirs) # {} /\ In(f, n.shown) # {}}]

\* MUTANT: the directory that was active stays so when another becomes it.
SyncKeeping(n, cwd, noCwd) ==
    LET m == IF cwd \in n.shown THEN n
             ELSE IF FolderOf[cwd] \in n.loaded THEN UpdateTree(n, {cwd}, {})
             ELSE n
    IN  IF cwd \notin m.shown THEN m
        ELSE [m EXCEPT
           !.active   = @ \cup {cwd},
           !.loaded   = IF noCwd THEN @ ELSE @ \cup {cwd},
           !.expanded = @ \cup Above[cwd] \cup (IF ~noCwd /\ cwd \in m.collapsed THEN {cwd} ELSE {})]
\* sync: the working directory becomes the active one and its parents expand.  If
\* it has no node it gets one, or its parents have to be asked for.
Sync(n, cwd, noCwd) ==
    LET m == IF cwd \in n.shown THEN n
             ELSE IF FolderOf[cwd] \in n.shown \cap n.loaded THEN UpdateTree(n, {cwd}, {})
             ELSE n
    IN  IF cwd \notin m.shown THEN [m EXCEPT !.active = {}]
        ELSE [m EXCEPT
           !.active   = IF cwd \in @ THEN @ ELSE {cwd},
           !.loaded   = IF noCwd THEN @ ELSE @ \cup {cwd},
           !.expanded = @ \cup Above[cwd] \cup (IF ~noCwd /\ cwd \in m.collapsed THEN {cwd} ELSE {})]

AskParents(n, cwd, noCwd, dirs) ==
    IF cwd \in n.shown THEN {}
    ELSE {[cmd |-> "parents", target |-> cwd, noCwd |-> noCwd, dirs |-> dirs, answer |-> {}, state |-> "asked"]}

\* remove: the node and what is under it; of two nodes the first.
Removed(n, f) ==
    LET gone == Below(f) \cup (IF f \in n.twice THEN {} ELSE {f})
        up   == FolderOf[f]
        left == n.shown \ gone
        bare == IF f \in n.shown /\ In(up, left) = {} THEN {up} ELSE {}
        drop == gone \cup bare \cup {f}
    IN  IF f \notin n.shown THEN n
        ELSE [shown |-> left, twice |-> n.twice \ (gone \cup {f}),
              collapsed |-> n.collapsed \ drop, expanded |-> n.expanded \ drop,
              loaded |-> n.loaded \ drop, active |-> n.active \ (gone \cup {f})]

-----------------------------------------------------------------------------
\* The first open: the root and its subdirectories.
TreeInit ==
    /\ served \in {s \in SUBSET Folders : 1 \in s /\ \A f \in s : Above[f] \subseteq s}
    /\ LET n == UpdateTree([shown |-> {}, twice |-> {}, collapsed |-> {}, expanded |-> {},
                            loaded |-> {}, active |-> {}], {1} \cup In(1, served), {})
           l == UpdateArrowsLoaded(n, In(1, served))
       IN  nav = Sync([l EXCEPT !.expanded = l.loaded \cap {1}], 1, FALSE)
    /\ workdir = 1 /\ inSearch = FALSE /\ asking = {} /\ unseen = {} /\ unlisted = {} /\ upsets = 0

\* The event open, for a directory opened in the tree, in the files, or from
\* among the results of a search.
Opened(f) ==
    LET dirs == {f} \cup In(f, served)
        n    == UpdateArrowsLoaded(UpdateTree(nav, dirs, {}), dirs)
        m    == Sync(n, f, FALSE)
    IN  /\ workdir' = f
        /\ nav' = m
        /\ asking' = asking \cup AskParents(m, f, FALSE, dirs)
        /\ unlisted' = unlisted \cup
             (IF FolderOf[f] \in m.loaded \ nav.loaded THEN {FolderOf[f]} ELSE {})
        /\ unseen' = unseen \ (In(f, served) \cap m.shown)
        /\ UNCHANGED <<served, upsets>>

\* A click on a directory in the tree; on the working directory, on its arrow.
Arrow(f) ==
    /\ f \in nav.collapsed
    /\ IF f \in nav.loaded
       THEN /\ nav' = [nav EXCEPT !.expanded = IF f \in @ THEN @ \ {f} ELSE @ \cup {f}]
            /\ UNCHANGED asking
       ELSE /\ nav' = [nav EXCEPT !.collapsed = @ \ {f}]
            /\ asking' = asking \cup {[cmd |-> "tree", target |-> f, noCwd |-> TRUE, dirs |-> {},
                                     answer |-> {}, state |-> "asked"]}
    /\ UNCHANGED <<served, workdir, inSearch, unseen, unlisted, upsets>>

ClickTree(f) ==
    /\ f \in nav.shown /\ f \in served /\ f # workdir
    /\ Opened(f) /\ inSearch' = FALSE

\* The event searchend is triggered, and the working directory is active again.
ClickCwd ==
    /\ workdir \in nav.shown /\ inSearch
    /\ inSearch' = FALSE
    /\ nav' = [nav EXCEPT !.active = @ \cup {workdir}]
    /\ UNCHANGED <<served, workdir, asking, unseen, unlisted, upsets>>

OpenFound(f) ==
    /\ inSearch /\ f \in served /\ f # workdir
    /\ Opened(f) /\ inSearch' = FALSE

ShowResults ==
    /\ ~inSearch /\ inSearch' = TRUE
    /\ nav' = [nav EXCEPT !.active = @ \ {workdir}]
    /\ UNCHANGED <<served, workdir, asking, unseen, unlisted, upsets>>

-----------------------------------------------------------------------------
\* The server answers: the subdirectories of the target; for "parents" also those
\* of the directories above, but not of the root.
Serve ==
    /\ \E r \in asking :
         /\ r.state = "asked"
         /\ \E answered \in (IF upsets < MaxUpsets THEN {[r EXCEPT !.state = "failed"]} ELSE {}) \cup {
                [r EXCEPT !.state = "answered",
                   !.answer = UNION {In(f, served) : f \in
                      IF r.cmd = "tree" THEN {r.target} ELSE ({r.target} \cup Above[r.target]) \ {1}}]} :
              /\ asking' = (asking \ {r}) \cup {answered}
              /\ upsets' = IF answered.state = "failed" THEN upsets + 1 ELSE upsets
    /\ UNCHANGED <<served, nav, workdir, inSearch, unseen, unlisted>>

\* done and always of the arrow's request.
TreeAnswered ==
    /\ \E r \in asking :
         /\ r.cmd = "tree" /\ r.state # "asked"
         /\ LET n == UpdateTree(nav, r.answer, {})
                e == IF In(r.target, n.shown) = {} THEN n
                     ELSE [n EXCEPT !.collapsed = @ \cup {r.target}, !.expanded = @ \cup {r.target}]
                m == IF r.state = "failed" THEN nav ELSE Sync(e, workdir, TRUE)
            IN  /\ nav' = [m EXCEPT !.loaded = @ \cup ({r.target} \cap m.shown)]
                /\ asking' = (asking \ {r}) \cup
                     (IF r.state = "failed" THEN {} ELSE AskParents(m, workdir, TRUE, {}))
         /\ unlisted' = IF r.state = "failed" THEN unlisted \cup {r.target} ELSE unlisted
    /\ UNCHANGED <<served, workdir, inSearch, unseen, upsets>>

\* done of the request for parents: as long as the directory is the working one
\* and still has no node, they are asked for again.
ParentsAnswered ==
    /\ \E r \in asking :
         /\ r.cmd = "parents" /\ r.state # "asked"
         /\ unlisted' = IF r.state = "failed" THEN unlisted \cup {r.target} ELSE unlisted
         /\ IF r.state = "failed"
            THEN asking' = asking \ {r} /\ UNCHANGED nav
            ELSE LET all == r.dirs \cup r.answer
                     n   == UpdateArrowsLoaded(UpdateTree(nav, all, r.dirs \cap r.answer), all)
                     m   == IF r.target = workdir THEN Sync(n, workdir, r.noCwd) ELSE n
                 IN  /\ nav' = m
                     /\ asking' = (asking \ {r}) \cup
                          (IF r.target = workdir THEN AskParents(m, workdir, r.noCwd, {}) ELSE {})
    /\ UNCHANGED <<served, workdir, inSearch, unseen, upsets>>

-----------------------------------------------------------------------------
\* The user makes a directory in the working directory, or removes one: the events
\* add and remove.  Somebody else makes one, which nobody tells the browser.
Mkdir(f) ==
    /\ f \notin served /\ FolderOf[f] = workdir /\ upsets < MaxUpsets /\ upsets' = upsets + 1
    /\ workdir \in served
    /\ served' = served \cup {f}
    /\ nav' = UpdateArrowsCollapsed(UpdateTree(nav, {f}, {}), {f})
    /\ unseen' = unseen \ {f}
    /\ UNCHANGED <<workdir, inSearch, asking, unlisted>>

MadeByOther(f) ==
    /\ f \notin served /\ FolderOf[f] \in served /\ upsets < MaxUpsets /\ upsets' = upsets + 1
    /\ served' = served \cup {f}
    /\ unseen' = unseen \cup {f}
    /\ UNCHANGED <<nav, workdir, inSearch, asking, unlisted>>

Rm(f) ==
    /\ f \in served /\ FolderOf[f] = workdir /\ upsets < MaxUpsets /\ upsets' = upsets + 1
    /\ served' = served \ ({f} \cup Below(f))
    /\ nav' = Removed(nav, f)
    /\ UNCHANGED <<workdir, inSearch, asking, unseen, unlisted>>

\* The event change: the node is made anew, and sync makes it active again if it
\* is the working directory.
Change(f) ==
    /\ f \in nav.shown \cap served /\ upsets < MaxUpsets /\ upsets' = upsets + 1
    /\ LET kept == In(f, served) # {} /\ In(f, nav.shown) # {}
           n == [nav EXCEPT !.collapsed = IF In(f, served) # {} THEN @ \cup {f} ELSE @ \ {f},
                            !.expanded = IF kept THEN @ ELSE @ \ {f},
                            !.loaded = IF kept THEN @ ELSE @ \ {f},
                            !.active = @ \ {f}]
           m == Sync(n, workdir, FALSE)
       IN  /\ nav' = m
           /\ asking' = asking \cup AskParents(m, workdir, FALSE, {})
    /\ UNCHANGED <<served, workdir, inSearch, unseen, unlisted>>

TreeSteps ==
    \/ ShowResults \/ ClickCwd \/ Serve \/ TreeAnswered \/ ParentsAnswered
    \/ \E f \in Folders :
         \/ Arrow(f) \/ ClickTree(f) \/ OpenFound(f)
         \/ Mkdir(f) \/ MadeByOther(f) \/ Rm(f) \/ Change(f)
TreeNext == TreeSteps /\ Cardinality(asking') <= MaxAsked

-----------------------------------------------------------------------------
\* A node lies under nodes; the working directory and nothing else is marked as
\* active, and if it has no node its parents are being asked for; and an arrow
\* that is not asked any more shows every subdirectory.  Not held against the
\* code: a listing that fails counts as loaded, and so does the parent of any
\* directory that is opened ("unlisted"); what others make is not seen
\* ("unseen").  A directory listed by an open and again by "parents" gets two
\* nodes (twice), and a directory of the root that others made is never given by
\* "parents", so that they are asked for without end.
TreeTrue ==
    /\ \A f \in nav.shown : Above[f] \subseteq nav.shown
    /\ nav.active \subseteq {workdir}
    /\ ~inSearch /\ workdir \in nav.shown => nav.active = {workdir}
    /\ workdir \notin nav.shown =>
         workdir \in unlisted \/ \E r \in asking : r.cmd = "parents" /\ r.target = workdir
    /\ \A f \in nav.loaded \ unlisted : In(f, served) \subseteq nav.shown \cup unseen

-----------------------------------------------------------------------------
(***************************************************************************)
(* The rows of one subtree of the tree of directories: where updateTree    *)
(* puts new ones, and where a change puts one again.  A row is a wrapper   *)
(* with the directory's node and its subtree; the handler of "change"      *)
(* moves the node without the wrapper.  A list that names a directory      *)
(* twice is modelled above.                                                *)
(***************************************************************************)

CONSTANTS
    Branch,     \* directories of the subtree: their places in the order of names
    Gone,       \* a wrapper whose node was moved out of it
    MaxGrown    \* BOUND: events

ASSUME TreeOrderAssumption == Branch \subseteq Nat /\ Gone \notin Branch /\ MaxGrown \in Nat

VARIABLES
    rows3,      \* the rows
    inCache,    \* directories that the cache has
    grown       \* BOUND

orderVars == <<rows3, inCache, grown>>

\* bare: a node outside a wrapper
TreeRow == [dir : Branch \cup {Gone}, bare : BOOLEAN]

TreeOrderTypeOK == rows3 \in Seq(TreeRow) /\ inCache \subseteq Branch /\ grown \in 0 .. MaxGrown

-----------------------------------------------------------------------------
TreeRowOf(dir) == [dir |-> dir, bare |-> FALSE]
HasNode(rows, dir) == \E k \in DOMAIN rows : rows[k].dir = dir

\* findSibling: the first row of a directory that the cache has and whose name comes
\* later; 0 for none.
FindSibling(rows, cache, dir) ==
    LET later == {k \in DOMAIN rows : ~rows[k].bare /\ rows[k].dir \in cache /\ dir < rows[k].dir}
    IN  IF later = {} THEN 0 ELSE Min(later)

Placed(rows, row, before) ==
    IF before = 0 THEN Append(rows, row) ELSE InsertAt(rows, before, row)

\* updateTree: into an empty subtree all at once, sorted; else one by one, the last first.
Grown(rows, cache, dirs) ==
    LET one(d, r) == IF HasNode(r, d) THEN r ELSE Placed(r, TreeRowOf(d), FindSibling(r, cache, d))
    IN  IF rows = <<>>
        THEN [k \in DOMAIN dirs |-> TreeRowOf(SetToSortSeq(ToSet(dirs), <)[k])]
        ELSE FoldRight(one, dirs, rows)

\* change: if the row after it is not the one that findSibling finds, the node moves.
Moved(rows, dir) ==
    LET at      == CHOOSE k \in DOMAIN rows : rows[k].dir = dir
        sibling == FindSibling(rows, inCache, dir)
        next    == IF at = Len(rows) THEN 0 ELSE at + 1
    IN  IF sibling = next THEN rows
        ELSE Placed([rows EXCEPT ![at].dir = Gone], [dir |-> dir, bare |-> TRUE], sibling)

-----------------------------------------------------------------------------
TreeOrderInit == rows3 = <<>> /\ inCache = {} /\ grown = 0

Grow == grown < MaxGrown /\ grown' = grown + 1

\* open, add, tree, parents: the cache has them when updateTree is called.
AddDirs ==
    /\ Grow
    /\ \E dirs \in UNION {SetToSeqs(D) : D \in (SUBSET Branch) \ {{}}} :
         /\ inCache' = inCache \cup ToSet(dirs)
         /\ rows3' = Grown(rows3, inCache', dirs)

\* remove: the cache has lost it before the tree removes its row, the node's parent.
RemoveDir ==
    /\ Grow
    /\ \E d \in Branch :
         /\ HasNode(rows3, d) /\ \A k \in DOMAIN rows3 : rows3[k].dir = d => ~rows3[k].bare
         /\ inCache' = inCache \ {d}
         /\ rows3' = SelectSeq(rows3, LAMBDA r : r.dir # d)

ChangeDir ==
    /\ Grow
    /\ \E d \in Branch : HasNode(rows3, d) /\ rows3' = Moved(rows3, d)
    /\ UNCHANGED inCache

\* open of another directory drops directories from the cache: the subtrees they were
\* in are emptied.
DropSubtree ==
    /\ Grow
    /\ \E D \in SUBSET Branch : inCache' = inCache \ D
    /\ rows3' = <<>>

TreeOrderNext == AddDirs \/ RemoveDir \/ ChangeDir \/ DropSubtree

TreeOrderSpec == TreeOrderInit /\ [][TreeOrderNext]_orderVars

-----------------------------------------------------------------------------
\* The subtree shows directories in the order of their names, each once, all of them
\* known to the cache; and a change leaves every node in its wrapper.
TreeSorted ==
    /\ \A j, k \in DOMAIN rows3 : j < k => rows3[j].dir < rows3[k].dir
    /\ \A k \in DOMAIN rows3 : rows3[k].dir \in inCache /\ ~rows3[k].bare
=============================================================================
