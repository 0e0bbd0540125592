----------------------------- MODULE CommandLine -----------------------------
(***************************************************************************)
(* The command line of the web terminal (the cmd plugin of jquery.terminal *)
(* and its History), with the page's handler of entered commands: how the  *)
(* line is drawn, and one action per key.  Keys that end a search do so    *)
(* and then act as ever.                                                   *)
(***************************************************************************)
EXTENDS Integers, Sequences, SequencesExt, FiniteSetsExt

CONSTANTS
    Char,      \* characters; a text is a sequence of them
    Space, NewLine,
    Width      \* what may fit: num_chars in a line, of which the prompt takes prompt_len

ASSUME CharAssumption == Space \in Char
ASSUME WidthAssumption == Width \subseteq [chars : Nat \ {0}, prompt : Nat]

Text == Seq(Char)

\* Positions count from 0, as in the code.
\* s.slice(i, j) and s.slice(i), for i and j that are not negative.
Slice(s, i, j) == SubSeq(s, i + 1, Min({j, Len(s)}))
Rest(s, i) == SubSeq(s, i + 1, Len(s))

\* str_parts: a text that is too short stays whole, also an empty one.
Parts(s, n) ==
    IF Len(s) < n THEN <<s>>
    ELSE [k \in 1 .. (Len(s) + n - 1) \div n |-> Slice(s, (k - 1) * n, k * n)]

\* split("\n"), with a blank for each new line.
Broken(s) ==
    LET ends == SetToSortSeq({i \in 1 .. Len(s) : s[i] = NewLine} \cup {Len(s) + 1}, <)
    IN  [k \in 1 .. Len(ends) |->
            LET from == IF k = 1 THEN 1 ELSE ends[k - 1] + 1 IN
            SubSeq(s, from, ends[k] - 1) \o (IF k < Len(ends) THEN <<Space>> ELSE <<>>)]

\* The first piece of a text leaves room for the prompt.
CutFirst(s, n, w) == <<Slice(s, 0, n)>> \o Parts(Rest(s, Max({n, 0})), w.chars)

\* The lines of a command (get_splited_command_line, or line by line).
Lines(s, w) ==
    IF ~Contains(s, NewLine) THEN CutFirst(s, w.chars - w.prompt, w)
    ELSE LET room   == w.chars - w.prompt - 1
             broken == Broken(s)
             Fitted(k) == IF k = 1
                          THEN IF Len(broken[1]) > room THEN CutFirst(broken[1], room, w)
                               ELSE <<broken[1]>>
                          ELSE IF Len(broken[k]) > w.chars THEN Parts(broken[k], w.chars)
                               ELSE <<broken[k]>>
         IN  FlattenSeq([k \in 1 .. Len(broken) |-> Fitted(k)])

\* draw_cursor_line: what is before the cursor, under it and after it.
CursorLine(s, p) ==
    [before |-> Slice(s, 0, p), under |-> Slice(s, p, p + 1), after |-> Rest(s, p + 1)]

\* A drawing: whole lines above and below the line with the cursor.
Drawing(lines, k, p) ==
    [above |-> SubSeq(lines, 1, k - 1), line |-> CursorLine(lines[k], p),
     below |-> SubSeq(lines, k + 1, Len(lines))]

\* How many characters come before line k.
Offset(lines, k) == Len(FlattenSeq(SubSeq(lines, 1, k - 1)))

\* In the middle of four lines or more: the first line the position lies in.
LineAt(lines, p) == Min({k \in 1 .. Len(lines) : p < Offset(lines, k + 1)})

\* redraw, the part for a command that does not fit beside the prompt.
DrawnLong(s, p, w) ==
    LET lines == Lines(s, w)
        n     == Len(lines)
        first == Len(lines[1])
        last  == Len(lines[n])
    IN  IF p < first THEN Drawing(lines, 1, p)
        ELSE IF p = first THEN Drawing(lines, 2, 0)
        ELSE IF Len(s) - p <= last THEN Drawing(lines, n, last - (Len(s) - p))
        ELSE IF n = 3 THEN Drawing(lines, 2, p - first - 1)
        ELSE LET k == LineAt(lines, p) IN Drawing(lines, k, p - Offset(lines, k))

\* redraw.
Drawn(s, p, w) ==
    IF Len(s) > w.chars - w.prompt - 1 \/ Contains(s, NewLine) THEN DrawnLong(s, p, w)
    ELSE [above |-> <<>>, line |-> CursorLine(s, p), below |-> <<>>]

\* The text a drawing shows, and the position of its cursor.
Shown(d) ==
    FlattenSeq(d.above) \o d.line.before \o d.line.under \o d.line.after \o FlattenSeq(d.below)
CursorOf(d) == Len(FlattenSeq(d.above)) + Len(d.line.before)

-----------------------------------------------------------------------------
(***************************************************************************)
(* The keys.                                                               *)
(***************************************************************************)

CONSTANTS
    Pasted,      \* the texts the user pastes or Tab completes
    HistorySize, \* size: how many commands the history keeps
    Operators,   \* the characters that a search leaves to RegExp: $ ^ | ( ) \
    Refused,     \* the texts with operators that are no regular expressions ...
    Matched,     \* ... and <<s, c>> when s is one and text c matches it
    Entered,     \* BOUND: commands the user enters
    MaxLength,   \* BOUND: length of a command, and half that of its cursor's way
    MaxSought,   \* BOUND: length of what is sought
    MaxKilled,   \* BOUND: length of what is killed
    Undefined    \* the value of last_command on a new page

ASSUME PastedAssumption == Pasted \subseteq Text
ASSUME SizeAssumption ==
    HistorySize \in Nat \ {0} /\ MaxLength \in Nat
    /\ MaxSought \in 0 .. MaxLength /\ MaxKilled \in Nat
ASSUME OperatorAssumption == Operators \subseteq Char
ASSUME UndefinedAssumption == Undefined \notin Text

VARIABLES
    command, position, \* the text and the cursor
    kill,              \* kill_text
    last,              \* last_command
    firstUp,           \* first_up_history
    history, pos,      \* History: data and pos
    search,            \* reverse_search
    sought,            \* reverse_search_string
    found,             \* reverse_search_position, 0 for null
    before,            \* HISTORY: the command before a part of it was killed, just now
    adrift             \* HISTORY: a search emptied or gave back the line

line  == <<command, position>>
past  == <<history, pos>>
seek  == <<search, sought, found>>
vars  == <<line, kill, last, firstUp, past, seek, before, adrift>>

Cmd == UNION {[1 .. n -> Char] : n \in 0 .. MaxLength}

TypeOK ==
    /\ command \in Cmd
    /\ position \in 0 .. 2 * MaxLength
    /\ kill \in Cmd
    /\ last \in Cmd \cup {Undefined}
    /\ firstUp \in BOOLEAN
    /\ history \in Seq(Cmd)
    /\ pos \in -1 .. HistorySize - 1
    /\ search \in BOOLEAN
    /\ sought \in Cmd
    /\ found \in 0 .. HistorySize
    /\ before \in Cmd \cup {Undefined}
    /\ adrift \in BOOLEAN

\* A new page; the history is what the browser stored.
Fresh ==
    /\ command' = <<>> /\ position' = 0 /\ kill' = <<>> /\ last' = Undefined
    /\ firstUp' = TRUE /\ search' = FALSE /\ sought' = <<>> /\ found' = 0
    /\ before' = Undefined /\ adrift' = FALSE

Init ==
    /\ command = <<>> /\ position = 0 /\ kill = <<>> /\ last = Undefined
    /\ firstUp = TRUE /\ history = <<>> /\ pos = -1
    /\ search = FALSE /\ sought = <<>> /\ found = 0
    /\ before = Undefined /\ adrift = FALSE

-----------------------------------------------------------------------------
\* The line.

Adrift(begins) == adrift' = (position' > Len(command') /\ (adrift \/ begins))

\* set(text): the cursor goes behind it.
Set(text) == command' = text /\ position' = Len(text)

\* position(n)
MoveTo(n) == position' = Max({0, Min({n, Len(command)})}) /\ UNCHANGED command

Inserted(text) == Slice(command, 0, position) \o text \o Rest(command, position)

\* insert(text)
Insert(text) ==
    /\ Len(command) + Len(text) <= MaxLength
    /\ position + Len(text) <= 2 * MaxLength
    /\ command' = Inserted(text)
    /\ position' = position + Len(text)

\* What every key but UP does first; what keys that leave searches do.
KeyDown == firstUp' = TRUE
EndSearch == search' = FALSE /\ found' = 0 /\ sought' = <<>>
\* An arrow, HOME or END leaves a search; its CTRL+letter does not.
LeaveSearch == EndSearch \/ UNCHANGED seek
Plain == KeyDown /\ UNCHANGED <<kill, last, past>> /\ before' = Undefined /\ Adrift(FALSE)

-----------------------------------------------------------------------------
\* The history.

\* MUTANT: the oldest does not go.
AppendedUntrimmed(data, c) == IF data # <<>> /\ Last(data) = c THEN data ELSE Append(data, c)

\* MUTANT: a command is compared with the first one.
AppendedUnlessFirst(data, c) ==
    LET d == IF data # <<>> /\ Head(data) = c THEN data ELSE Append(data, c) IN
    SubSeq(d, Max({1, Len(d) - HistorySize + 1}), Len(d))

\* History.append: not what was just entered; the oldest goes.
Appended(data, c) ==
    LET d == IF data # <<>> /\ Last(data) = c THEN data ELSE Append(data, c) IN
    SubSeq(d, Max({1, Len(d) - HistorySize + 1}), Len(d))

\* Enter: the command line appends the command unless it is empty, and
\* commands() of the terminal appends it again, empty or not.
Enter ==
    /\ command \in Entered
    /\ LET once == IF command = <<>> THEN history ELSE Appended(history, command) IN
       history' = Appended(once, command)
    /\ pos' = Len(history') - 1
    /\ Set(<<>>)
    /\ KeyDown /\ EndSearch /\ Adrift(FALSE)
    /\ before' = Undefined /\ UNCHANGED <<kill, last>>

\* UP: first the command the history stands at, then those before it.
Up ==
    LET to == IF firstUp THEN pos ELSE Max({pos - 1, Min({pos, 0})}) IN
    /\ last' = IF firstUp THEN command ELSE last
    /\ pos' = to
    /\ IF to = -1 THEN UNCHANGED line ELSE Set(history[to + 1])
    /\ firstUp' = FALSE
    /\ LeaveSearch /\ Adrift(FALSE)
    /\ before' = Undefined /\ UNCHANGED <<kill, history>>

\* DOWN: the commands after it, and at the end what there was before UP (or a
\* search) -- also when there was none since.
Down ==
    LET end == pos = Len(history) - 1 IN
    /\ pos' = IF end THEN pos ELSE pos + 1
    /\ IF end /\ last = Undefined THEN UNCHANGED line
       ELSE Set(IF end THEN last ELSE history[pos' + 1])
    /\ KeyDown /\ LeaveSearch /\ Adrift(FALSE)
    /\ before' = Undefined /\ UNCHANGED <<kill, last, history>>

-----------------------------------------------------------------------------
\* The search.

Occurs(s, c) == \E i \in 0 .. Len(c) - Len(s) : SubSeq(c, i + 1, i + Len(s)) = s

\* A search escapes . * + { } [ ] and ?, and takes the text for a regular expression:
\* what has no other operators stands for itself.
Literal(s)    == \A i \in 1 .. Len(s) : s[i] \notin Operators
Throws(s)     == ~Literal(s) /\ s \in Refused
Matches(s, c) == IF Literal(s) THEN Occurs(s, c) ELSE <<s, c>> \in Matched

\* MUTANT: the oldest command that matches is found first.
SearchForward(s, next) ==
    LET n     == Len(history)
        limit == IF next /\ found > 0 THEN n - found ELSE n
        hits  == {k \in 1 .. limit : Matches(s, history[k])}
    IN  IF hits = {} \/ s = <<>> THEN sought' = <<>> /\ UNCHANGED <<line, found>>
        ELSE /\ command' = history[Min(hits)] /\ position' = 0
             /\ found' = n - Min(hits) + 1
             /\ sought' = s

\* reverse_history_search: the newest command (before the one found, for the
\* next one) that matches the longest beginning of s that any matches -- unless
\* RegExp throws on a longer one, and the search is left as it is.
Search(s, next) ==
    LET n     == Len(history)
        limit == IF next /\ found > 0 THEN n - found ELSE n
        hits  == {j \in 1 .. Len(s) : \E k \in 1 .. limit : Matches(SubSeq(s, 1, j), history[k])}
        stops == {j \in 1 .. Len(s) : Throws(SubSeq(s, 1, j))}
        m     == Max(hits \cup stops)
    IN  IF hits \cup stops = {} THEN sought' = <<>> /\ UNCHANGED <<line, found>>
        ELSE IF m \in stops THEN sought' = s /\ UNCHANGED <<line, found>>
        ELSE LET k == Max({k \in 1 .. limit : Matches(SubSeq(s, 1, m), history[k])})
             IN  /\ command' = history[k] /\ position' = 0
                 /\ found' = n - k + 1
                 /\ sought' = SubSeq(s, 1, m)

\* CTRL+R, not while searching: the line is emptied, its cursor stays.
BeginSearch ==
    /\ ~search /\ search' = TRUE
    /\ last' = command
    /\ command' = <<>>
    /\ UNCHANGED <<position, kill, past, sought, found>>
    /\ KeyDown /\ before' = Undefined /\ Adrift(TRUE)

\* CTRL+R, while searching.
SearchNext == search /\ Search(sought, TRUE) /\ Plain /\ UNCHANGED search

\* A character, while searching.  (keypress does not touch first_up_history,
\* but its keydown does.)
TypeInSearch(ch) ==
    /\ search /\ ch # NewLine /\ Len(sought) < MaxSought
    /\ Search(Append(sought, ch), FALSE)
    /\ Plain /\ UNCHANGED search

\* Backspace, while searching.
ShortenSearch ==
    /\ search
    /\ sought' = SubSeq(sought, 1, Len(sought) - 1)
    /\ UNCHANGED <<line, search, found>> /\ Plain

\* CTRL+G: the command is given back, the cursor stays.
CancelSearch ==
    /\ search /\ search' = FALSE /\ sought' = <<>>
    /\ command' = last
    /\ UNCHANGED <<position, kill, last, past, found>>
    /\ KeyDown /\ before' = Undefined /\ Adrift(TRUE)

\* Escape: the search ends and the line is emptied, its cursor stays.
Escape ==
    /\ search
    /\ command' = <<>> /\ UNCHANGED position
    /\ KeyDown /\ EndSearch /\ Adrift(TRUE)
    /\ before' = Undefined /\ UNCHANGED <<kill, last, past>>

-----------------------------------------------------------------------------
\* Editing.

Type(ch) == ~search /\ ch # NewLine /\ Insert(<<ch>>) /\ Plain /\ UNCHANGED seek

\* SHIFT+Enter, where there are new lines.
ShiftEnter == NewLine \in Char /\ Insert(<<NewLine>>) /\ Plain /\ EndSearch

\* CTRL+V, CTRL+SHIFT+V and Tab insert when the text is there; a search goes on.
Paste(text) == Insert(text) /\ Plain /\ UNCHANGED seek

\* MUTANT: the cursor stays where it was.
BackspaceInPlace ==
    /\ ~search
    /\ IF command # <<>> /\ position > 0
       THEN /\ command' = Slice(command, 0, position - 1) \o Rest(command, position)
            /\ position' = position
       ELSE UNCHANGED line
    /\ Plain /\ UNCHANGED seek

Backspace ==
    /\ ~search
    /\ IF command # <<>> /\ position > 0
       THEN /\ command' = Slice(command, 0, position - 1) \o Rest(command, position)
            /\ position' = position - 1
       ELSE UNCHANGED line
    /\ Plain /\ UNCHANGED seek

Delete ==
    /\ command' = IF position < Len(command)
                  THEN Slice(command, 0, position) \o Rest(command, position + 1)
                  ELSE command
    /\ UNCHANGED <<position, seek>> /\ Plain

\* The arrows, HOME and END; CTRL+B, F, A and E.
MoveKey(move) == move /\ Plain /\ LeaveSearch

Left  == MoveKey(position' = Max({0, position - 1}) /\ UNCHANGED command)
Right == MoveKey(/\ position' = IF position < Len(command) THEN position + 1 ELSE position
                 /\ UNCHANGED command)
Home  == MoveKey(MoveTo(0))
End   == MoveKey(MoveTo(Len(command)))

At(i) == IF i \in 0 .. Len(command) - 1 THEN command[i + 1] ELSE Undefined

\* CTRL+LEFT: behind the last blank, or before the last new line, that another
\* character follows.
WordLeft ==
    LET from   == IF At(position - 1) = Space THEN position - 2 ELSE position - 1
        breaks == {i \in 1 .. from : At(i) \in {Space, NewLine} /\ At(i + 1) # At(i)}
    IN  /\ MoveTo(IF breaks = {} THEN 0
                  ELSE IF At(Max(breaks)) = Space THEN Max(breaks) + 1 ELSE Max(breaks))
        /\ Plain /\ EndSearch

\* CTRL+RIGHT: the end of a word, or the last of the blanks in front of one; a new
\* line that ends a word, or is the first before one, is passed.
WordRight ==
    LET from   == IF At(position) = Space THEN position + 1 ELSE position
        blanks == {i \in from .. Len(command) - 1 : At(i) \in {Space, NewLine}}
        first  == Min(blanks)
        after  == {i \in first .. Len(command) - 1 : i \notin blanks}
    IN  /\ UNCHANGED command
        /\ position' = IF blanks = {} THEN Len(command)
                       ELSE IF after = {} /\ (first = from \/ first = Len(command) - 1)
                            THEN Len(command)
                       ELSE IF At(first) = NewLine /\ (first = from \/ first + 1 \notin blanks)
                            THEN first + 1
                       ELSE IF first > from THEN first
                       ELSE Min(after) - 1
        /\ Plain /\ EndSearch

\* ALT+D: the next word and the blank behind it.
DeleteWord ==
    LET rest  == Rest(command, position)
        start == {i \in 1 .. Len(rest) : rest[i] # Space}
        stop  == {i \in Min(start) .. Len(rest) : rest[i] = Space}
    IN  /\ command' = Slice(command, 0, position) \o
              (IF start = {} THEN rest
               ELSE SubSeq(rest, 1, Min(start) - 1) \o
                    (IF stop = {} THEN <<>> ELSE SubSeq(rest, Min(stop) + 1, Len(rest))))
        /\ UNCHANGED <<position, seek>> /\ Plain

\* CTRL+H: the character before the cursor, and all that follows it.
RubOut ==
    /\ command # <<>> /\ position > 0
    /\ command' = Slice(command, 0, position - 1)
    /\ position' = position - 1
    /\ Plain /\ UNCHANGED seek

Killing == Len(kill') <= MaxKilled /\ KeyDown /\ Adrift(FALSE) /\ UNCHANGED <<last, past, seek>>

\* CTRL+K and CTRL+U.
KillRest ==
    /\ position = 0 \/ position # Len(command)
    /\ kill' = Rest(command, position)
    /\ Set(Slice(command, 0, position))
    /\ before' = command
    /\ Killing

KillStart ==
    /\ command # <<>> /\ position # 0
    /\ kill' = Slice(command, 0, position)
    /\ command' = Rest(command, position) /\ position' = 0
    /\ before' = command
    /\ Killing

\* The key for CTRL+W (which has the code of Q): the word before the cursor, and
\* the character under it.  It throws when only blanks are before the cursor.
KillWord ==
    LET head  == Slice(command, 0, position)
        words == {i \in 1 .. Len(head) : head[i] # Space}
        cut   == {i \in 1 .. Max(words) : head[i] = Space}
        start == IF cut = {} THEN 0 ELSE Max(cut)
    IN  /\ command # <<>> /\ position # 0 /\ words # {}
        /\ position' = start
        /\ kill' = Rest(head, start)
        /\ command' = Slice(head, 0, start) \o Rest(command, position + 1)
        /\ before' = IF position >= Len(command) THEN command ELSE Undefined
        /\ Killing

\* CTRL+Y
Yank == kill # <<>> /\ Insert(kill) /\ Plain /\ UNCHANGED seek

\* The page is loaded again: the browser has kept the history.
Reload == Fresh /\ pos' = Len(history) - 1 /\ UNCHANGED history

Searching ==
    BeginSearch \/ SearchNext \/ ShortenSearch \/ CancelSearch \/ Escape
    \/ \E ch \in Char : TypeInSearch(ch)

Editing ==
    \/ \E ch \in Char : Type(ch)
    \/ \E text \in Pasted : Paste(text)
    \/ ShiftEnter
    \/ Backspace \/ Delete \/ DeleteWord \/ RubOut
    \/ KillRest \/ KillStart \/ KillWord \/ Yank

Moving == Left \/ Right \/ Home \/ End \/ WordLeft \/ WordRight

Next == Enter \/ Up \/ Down \/ Searching \/ Editing \/ Moving \/ Reload

Spec == Init /\ [][Next]_vars

-----------------------------------------------------------------------------
(***************************************************************************)
(* What holds.                                                             *)
(***************************************************************************)

\* However commands are entered, recalled and searched for, the history holds at
\* most its size, no command twice in a row, and stands at one of its commands.
HistoryKept ==
    /\ Len(history) <= HistorySize
    /\ \A i \in 1 .. Len(history) - 1 : history[i] # history[i + 1]
    /\ pos \in (IF history = <<>> THEN {-1} ELSE 0 .. Len(history) - 1)

\* The cursor is in the line, unless a search emptied the line or gave it back
\* and nothing has been done to it since.
CursorInLine == position <= Len(command) \/ adrift

\* Yanking at once what was killed gives the line back (a word must have been
\* killed at the end of the line).
YankUndoesKill == before # Undefined => Inserted(kill) = before

\* Going on with a search for a text without operators finds older commands only,
\* each with what is sought.
SearchGoesBack ==
    [][sought' # <<>> /\ Literal(sought) /\ SearchNext =>
          found' > found /\ Occurs(sought', command')]_vars

\* A search for a text without operators finds the newest command that contains what
\* it says it sought, and what it says is the longest beginning of what was typed that
\* any contains.
SearchFindsNewest ==
    [][\A ch \in Char : sought' # <<>> /\ Literal(Append(sought, ch)) /\ TypeInSearch(ch) =>
          /\ command' = history[Len(history) - found' + 1]
          /\ Occurs(sought', command')
          /\ \A k \in Len(history) - found' + 2 .. Len(history) : ~Occurs(sought', history[k])
          /\ sought' = Append(sought, ch) \/
             \A k \in 1 .. Len(history) :
                ~Occurs(SubSeq(Append(sought, ch), 1, Len(sought') + 1), history[k])]_vars

\* Whatever is typed, operators included: what is shown as found is the command of the
\* history that the next search goes on from.
SearchShowsHistory ==
    [][found' \notin {0, found} => command' = history'[Len(history') - found' + 1]]_vars

\* However it is cut, a line is drawn whole: a blank stands for each new line.
DrawnWhole ==
    \A w \in Width : Shown(Drawn(command, position, w)) =
        [i \in 1 .. Len(command) |-> IF command[i] = NewLine THEN Space ELSE command[i]]

\* Whatever keys are pressed, the line is what is drawn, the cursor is in it and
\* what was killed from it can be had back.
LineTrue == CursorInLine /\ YankUndoesKill /\ DrawnWhole

\* The search goes through the history backwards and, for a text without operators,
\* misses no command.
SearchesBackwards == SearchGoesBack /\ SearchFindsNewest /\ SearchShowsHistory
=============================================================================
