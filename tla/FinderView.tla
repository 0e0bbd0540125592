------------------------------ MODULE FinderView ------------------------------
(***************************************************************************)
(* The view of the current directory: which files have a row, which only   *)
(* wait for one until the user scrolls, which look selected, and which     *)
(* ones commands take for selected.                                        *)
(***************************************************************************)
EXTENDS Naturals, Sequences, FiniteSets

CONSTANTS
    Hash,      \* files the view meets
    Here,      \* those in the current directory; the others are elsewhere
    NameOf,    \* the order of their names
    Matching,  \* those whose name contains what is searched for
    Size,      \* what the files are sorted by, before the name
    Page       \* options.showFiles: the rows drawn at once

ASSUME HashAssumption == IsFiniteSet(Hash) /\ Here \subseteq Hash /\ Matching \subseteq Hash
ASSUME NameAssumption ==
    /\ NameOf \in [Hash -> Nat]
    /\ \A a, b \in Hash : NameOf[a] = NameOf[b] => a = b
ASSUME PageAssumption == Size \subseteq Nat /\ Size # {} /\ Page \in Nat \ {0}

VARIABLES
    cached,     \* the files elFinder knows
    size,       \* their sizes
    asc,        \* sortOrder is "asc"
    query,      \* a search is shown
    found,      \* lastSearch
    drawn,      \* rows, from top to bottom
    buffer,     \* files that wait for a row
    marked,     \* rows that look selected
    disabled,   \* rows that are locked
    chosen,     \* selectedFiles
    selected,   \* fm.selected()
    selectLock, \* something is dragged
    unmarked,   \* HISTORY: chosen files whose row was locked or made anew
    mishaps     \* HISTORY: "moved", "twice": see RowsInOrder

core  == <<cached, size, asc>>
rows  == <<drawn, buffer>>
marks == <<marked, disabled, chosen, selected, unmarked>>
searching == <<query, found>>
viewVars == <<core, rows, marks, searching, selectLock, mishaps>>

RangeOf(s) == {s[i] : i \in DOMAIN s}
Drawn == RangeOf(drawn)

-----------------------------------------------------------------------------
\* compare.
Less(sizes, a, b) == sizes[a] < sizes[b] \/ (sizes[a] = sizes[b] /\ NameOf[a] < NameOf[b])
Before(sizes, up, a, b) == IF up THEN Less(sizes, a, b) ELSE Less(sizes, b, a)

\* sortFiles.
Sorted(S, sizes, up) ==
    LET At(i) == CHOOSE h \in S : Cardinality({g \in S : Before(sizes, up, g, h)}) = i - 1
    IN  [i \in 1 .. Cardinality(S) |-> At(i)]

Inserted(s, i, h) == SubSeq(s, 1, i - 1) \o <<h>> \o SubSeq(s, i, Len(s))
Without(s, h) == SelectSeq(s, LAMBDA g : g # h)
First(S) == CHOOSE i \in S : \A j \in S : i <= j

\* MUTANT: what is behind the last row is appended, whatever waits.
AddedAppended(r, h, sizes, known) ==
    LET at   == {i \in DOMAIN r.drawn : r.drawn[i] \in known /\ Before(sizes, asc, h, r.drawn[i])}
    IN  IF h \in RangeOf(r.drawn) THEN r
        ELSE IF at # {} THEN [r EXCEPT !.drawn = Inserted(@, First(at), h)]
        ELSE [r EXCEPT !.drawn = Append(@, h)]

\* add, for one file: its row goes before the first it precedes, or it waits
\* with those that have none.
Added(r, h, sizes, known) ==
    LET at   == {i \in DOMAIN r.drawn : r.drawn[i] \in known /\ Before(sizes, asc, h, r.drawn[i])}
        wait == {i \in DOMAIN r.buffer : Before(sizes, asc, h, r.buffer[i])} \cup {Len(r.buffer) + 1}
    IN  IF h \in RangeOf(r.drawn) THEN r
        ELSE IF at # {} THEN [r EXCEPT !.drawn = Inserted(@, First(at), h)]
        ELSE IF r.buffer # <<>> THEN [r EXCEPT !.buffer = Inserted(@, First(wait), h)]
        ELSE [r EXCEPT !.drawn = Append(@, h)]

\* remove, for one file.
Removed(r, h) ==
    IF h \in RangeOf(r.drawn) THEN [r EXCEPT !.drawn = Without(@, h)]
    ELSE [r EXCEPT !.buffer = Without(@, h)]

-----------------------------------------------------------------------------
\* The classes of the rows.

\* evtSelect, of rows.
Select(hashes) ==
    LET S == IF selectLock THEN {} ELSE hashes \ disabled IN
    /\ marked' = marked \cup S /\ chosen' = chosen \cup S

\* evtUnselect of some rows, then evtSelect of others.
Reselect(off, on) ==
    LET S == on \ disabled IN
    IF selectLock THEN UNCHANGED <<marked, chosen>>
    ELSE marked' = (marked \ off) \cup S /\ chosen' = (chosen \ off) \cup S

\* unselectAll, then evtSelect of some.
SelectOnly(on) ==
    LET S == IF selectLock THEN {} ELSE on \ disabled IN
    /\ marked' = (IF selectLock THEN marked ELSE {}) \cup S
    /\ chosen' = S

\* unselectAll takes the looks of no row while something is dragged.
Stays == mishaps' = IF ~selectLock THEN mishaps \ {"dragged", "all"}
                    ELSE IF marked # {} THEN mishaps \cup {"dragged"} ELSE mishaps

\* trigger, and elFinder's handler of "select".
Trigger == selected' = chosen' \cap cached'

Forgets == unmarked' = unmarked \cap chosen'

\* content, for the files of a set: all rows are made anew, the first are drawn.
Content(files) ==
    LET all == Sorted(files, size', asc')
        n   == IF Len(all) < Page THEN Len(all) ELSE Page
    IN  /\ drawn' = SubSeq(all, 1, n) /\ buffer' = SubSeq(all, n + 1, Len(all))
        /\ marked' = {} /\ disabled' = {} /\ chosen' = {} /\ selected' = {} /\ unmarked' = {}
        /\ mishaps' = {}

-----------------------------------------------------------------------------
\* elFinder's events.

\* "open" of a directory with these files.
ViewOpened(files) ==
    /\ cached' = files /\ size' = size /\ asc' = asc
    /\ Content(files \cap Here)
    /\ UNCHANGED <<searching, selectLock>>

\* render, as the user scrolls.
Scroll ==
    LET n == IF Len(buffer) < Page THEN Len(buffer) ELSE Page IN
    /\ buffer # <<>>
    /\ drawn' = drawn \o SubSeq(buffer, 1, n) /\ buffer' = SubSeq(buffer, n + 1, Len(buffer))
    /\ marked' = marked \cup (IF selectLock THEN {} ELSE (chosen \cap RangeOf(drawn')) \ disabled)
    /\ unmarked' = IF selectLock THEN unmarked \cup (chosen \ Drawn) ELSE unmarked \ marked'
    /\ UNCHANGED <<core, disabled, chosen, selected, searching, selectLock, mishaps>>

\* add: of one file, which may be known.
ViewAdd(h) ==
    LET fits == IF query THEN h \in Matching ELSE h \in Here
        r    == Added([drawn |-> drawn, buffer |-> buffer], h, size, cached)
    IN
    /\ cached' = cached \cup {h}
    /\ IF fits THEN drawn' = r.drawn /\ buffer' = r.buffer ELSE UNCHANGED rows
    /\ mishaps' = mishaps \cup (IF fits /\ h \in RangeOf(buffer) THEN {"twice"} ELSE {})
    /\ unmarked' = unmarked \cup ({h} \cap chosen)
    /\ UNCHANGED <<size, asc, marked, disabled, chosen, selected, searching, selectLock>>

\* change: sizes are new in the cache; then the rows are made anew one by one,
\* and those that were selected are selected again.
ViewChange(new) ==
    LET sized == [h \in Hash |-> IF h \in DOMAIN new THEN new[h] ELSE size[h]]
        hit   == IF query THEN DOMAIN new ELSE DOMAIN new \cap Here
        todo  == Sorted(hit, [h \in Hash |-> 0], TRUE)
        Made[i \in 0 .. Len(todo)] ==
            IF i = 0 THEN [drawn |-> drawn, buffer |-> buffer]
            ELSE IF query /\ todo[i] \notin Matching THEN Removed(Made[i - 1], todo[i])
            ELSE Added(Removed(Made[i - 1], todo[i]), todo[i], sized, cached)
        r     == Made[Len(todo)]
        again == (hit \cap selected) \cap RangeOf(r.drawn)
    IN
    /\ DOMAIN new \subseteq cached
    /\ size' = sized
    /\ drawn' = r.drawn /\ buffer' = r.buffer
    /\ marked' = (marked \ hit) \cup (IF selectLock THEN {} ELSE again)
    /\ chosen' = chosen \cup (IF selectLock THEN {} ELSE again)
    /\ disabled' = disabled \ hit
    /\ unmarked' = unmarked \cup ((hit \cap chosen') \ marked')
    /\ mishaps' = mishaps \cup (IF Cardinality(DOMAIN new) > 1 /\ sized # size
                                THEN {"moved"} ELSE {})
    /\ cached' = cached /\ Trigger
    /\ UNCHANGED <<asc, searching, selectLock>>

\* remove.  The rows go; selectedFiles keeps them.
ViewRemove(h) ==
    LET r == Removed([drawn |-> drawn, buffer |-> buffer], h) IN
    /\ cached' = cached \ {h}
    /\ drawn' = r.drawn /\ buffer' = r.buffer
    /\ marked' = marked \ {h} /\ disabled' = disabled \ {h}
    /\ chosen' = chosen /\ Trigger
    /\ unmarked' = unmarked \cup ({h} \cap chosen)
    /\ UNCHANGED <<size, asc, searching, selectLock, mishaps>>

\* MUTANT: files without a row are locked too.
ViewLockAll(hashes) ==
    /\ marked' = marked \ hashes /\ disabled' = disabled \cup hashes
    /\ chosen' = chosen /\ cached' = cached /\ Trigger
    /\ unmarked' = unmarked \cup (hashes \cap chosen)
    /\ UNCHANGED <<size, asc, rows, searching, selectLock, mishaps>>
\* lockfiles: rows no longer look selected; selectedFiles keeps them.
ViewLock(hashes) ==
    LET S == hashes \cap Drawn IN
    /\ marked' = marked \ S /\ disabled' = disabled \cup S
    /\ chosen' = chosen /\ cached' = cached /\ Trigger
    /\ unmarked' = unmarked \cup (S \cap chosen)
    /\ UNCHANGED <<size, asc, rows, searching, selectLock, mishaps>>

ViewUnlock(hashes) ==
    /\ disabled' = disabled \ hashes
    /\ chosen' = chosen /\ cached' = cached /\ Trigger
    /\ UNCHANGED <<size, asc, rows, marked, unmarked, searching, selectLock, mishaps>>

\* selectfiles, of a command that is cancelled after it locked them.
ViewSelectFiles(hashes) ==
    /\ Select(hashes \cap Drawn)
    /\ cached' = cached /\ Trigger
    /\ unmarked' = unmarked \ marked'
    /\ UNCHANGED <<size, asc, rows, disabled, searching, selectLock, mishaps>>

\* "mkdir", "paste", "upload" ...: what they added is selected.
ViewSelectAdded(hashes) ==
    /\ SelectOnly(hashes \cap Here \cap Drawn) /\ Stays
    /\ cached' = cached /\ Trigger /\ Forgets
    /\ UNCHANGED <<size, asc, rows, disabled, searching, selectLock>>

\* searchstart and search.
ViewSearch(files) ==
    /\ query' = TRUE /\ found' = files
    /\ cached' = cached \cup files /\ size' = size /\ asc' = asc
    /\ Content(files)
    /\ UNCHANGED selectLock

\* searchend, sortchange, viewchange.
Refreshed(q) == Content(IF q THEN found' ELSE cached' \cap Here)

ViewSearchEnd ==
    /\ query /\ query' = FALSE /\ found' = {}
    /\ UNCHANGED core
    /\ Refreshed(FALSE)
    /\ UNCHANGED selectLock

ViewSort ==
    /\ asc' = ~asc /\ cached' = cached /\ size' = size
    /\ UNCHANGED searching
    /\ Refreshed(query)
    /\ UNCHANGED selectLock

ViewSwitch ==
    /\ LET all == Sorted(IF query THEN found ELSE cached \cap Here, size, asc)
           n   == IF Len(all) < Page THEN Len(all) ELSE Page
       IN  /\ drawn' = SubSeq(all, 1, n) /\ buffer' = SubSeq(all, n + 1, Len(all))
    /\ marked' = IF selectLock THEN {} ELSE selected \cap RangeOf(drawn')
    /\ chosen' = marked' /\ cached' = cached /\ Trigger
    /\ disabled' = {} /\ unmarked' = {} /\ mishaps' = {}
    /\ UNCHANGED <<size, asc, searching, selectLock>>

-----------------------------------------------------------------------------
\* The user selects.
Chooses == cached' = cached /\ Trigger /\ Forgets
           /\ UNCHANGED <<size, asc, rows, disabled, searching, selectLock>>

RowOf(h) == First({i \in DOMAIN drawn : drawn[i] = h})
Above(i) == {j \in 1 .. i - 1 : drawn[j] \in marked}
Below(i) == {j \in i + 1 .. Len(drawn) : drawn[j] \in marked}
Last(S) == CHOOSE i \in S : \A j \in S : j <= i

Click(h) == h \in Drawn /\ SelectOnly({h}) /\ Stays /\ Chooses

CtrlClick(h) ==
    /\ h \in Drawn
    /\ IF h \in marked THEN Reselect({h}, {}) ELSE Reselect({}, {h})
    /\ UNCHANGED mishaps /\ Chooses

\* All up to the nearest row above that is selected, else below.
ShiftClick(h) ==
    /\ h \in Drawn
    /\ LET i == RowOf(h) IN
       IF Above(i) # {} THEN Reselect({}, {drawn[j] : j \in Last(Above(i)) + 1 .. i}) /\ UNCHANGED mishaps
       ELSE IF Below(i) # {} THEN Reselect({}, {drawn[j] : j \in i .. First(Below(i)) - 1}) /\ UNCHANGED mishaps
       ELSE SelectOnly({h}) /\ Stays
    /\ Chooses

\* select, for an arrow key with or without shift; by rows, as in the list.
Arrow(up, append) ==
    LET free == {i \in DOMAIN drawn : drawn[i] \notin disabled}
        sel  == {i \in DOMAIN drawn : drawn[i] \in marked}
        s    == IF up THEN First(sel) ELSE Last(sel)
        next == {i \in free : IF up THEN i < s ELSE i > s}
        n    == IF next = {} THEN s ELSE IF up THEN Last(next) ELSE First(next)
        way  == IF up THEN n .. s ELSE s .. n
    IN
    /\ IF sel = {}
       THEN free # {} /\ Reselect({}, {drawn[IF up THEN Last(free) ELSE First(free)]})
       ELSE IF append THEN Reselect({}, {drawn[i] : i \in way})
       ELSE Reselect(marked, {drawn[n]})
    /\ UNCHANGED mishaps /\ Chooses

\* selectAll: rows are selected; then selectedFiles are the files of the
\* current directory, also when it is not they that are shown.
SelectAll ==
    /\ marked' = marked \cup (IF selectLock THEN {} ELSE Drawn \ disabled)
    /\ chosen' = cached \cap Here
    /\ cached' = cached /\ Trigger
    /\ unmarked' = chosen' \cap (IF selectLock THEN Hash ELSE unmarked \cup disabled)
    /\ mishaps' = IF query THEN mishaps \cup {"all"} ELSE mishaps
    /\ UNCHANGED <<size, asc, rows, disabled, searching, selectLock>>

UnselectAll == SelectOnly({}) /\ Stays /\ Chooses

HomeEnd(home) ==
    /\ SelectOnly(IF drawn = <<>> THEN {} ELSE {drawn[IF home THEN 1 ELSE Len(drawn)]})
    /\ Stays /\ Chooses

\* The rubber band: of some rows in it the selection is taken, others get it.
Band(off, on) == off \cup on \subseteq Drawn /\ Reselect(off, on) /\ UNCHANGED mishaps /\ Chooses

\* What a drag begins with, and ends with.
ViewDragStart(h, keys) ==
    /\ h \in Drawn \ disabled /\ ~selectLock
    /\ IF h \in marked THEN UNCHANGED <<marked, chosen, selected, unmarked>>
       ELSE /\ IF keys THEN Reselect({}, {h}) ELSE SelectOnly({h})
            /\ selected' = chosen' \cap cached /\ Forgets
    /\ selectLock' = TRUE
    /\ UNCHANGED <<core, rows, disabled, searching, mishaps>>

ViewInit ==
    /\ cached = {} /\ asc = TRUE /\ size \in [Hash -> Size]
    /\ query = FALSE /\ found = {} /\ drawn = <<>> /\ buffer = <<>>
    /\ marked = {} /\ disabled = {} /\ chosen = {} /\ selected = {} /\ unmarked = {}
    /\ selectLock = FALSE /\ mishaps = {}

ViewTypeOK ==
    /\ cached \subseteq Hash /\ size \in [Hash -> Size] /\ asc \in BOOLEAN
    /\ query \in BOOLEAN /\ found \subseteq Hash
    /\ drawn \in Seq(Hash) /\ buffer \in Seq(Hash)
    /\ marked \subseteq Drawn /\ disabled \subseteq Drawn
    /\ chosen \subseteq Hash /\ selected \subseteq Hash /\ unmarked \subseteq Hash
    /\ selectLock \in BOOLEAN /\ mishaps \subseteq {"moved", "twice", "dragged", "all"}

\* What looks selected is what commands act on.  Not held against the code: rows
\* that were locked or made anew stay chosen and do not look it; and see mishaps.
SelectionTrue ==
    /\ marked \cap disabled = {}
    /\ selected \subseteq chosen \cap cached
    /\ mishaps \cap {"dragged", "all", "twice"} = {} => marked \subseteq chosen
    /\ chosen \cap Drawn \subseteq marked \cup unmarked

\* Every file of the directory has one row, or waits for one; in their order.
RowsInOrder ==
    /\ "twice" \notin mishaps /\ ~query =>
          /\ Drawn \cap RangeOf(buffer) = {}
          /\ Cardinality(Drawn) = Len(drawn) /\ Cardinality(RangeOf(buffer)) = Len(buffer)
          /\ Drawn \cup RangeOf(buffer) = cached \cap Here
    /\ mishaps \cap {"moved", "twice"} = {} /\ ~query =>
          LET all == drawn \o buffer IN
          \A i, j \in DOMAIN all : i < j => ~Before(size, asc, all[j], all[i])
=============================================================================
