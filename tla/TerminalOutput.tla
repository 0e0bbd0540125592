--------------------------- MODULE TerminalOutput ---------------------------
(***************************************************************************)
(* What a terminal shows: the lines it was given, cut at the number of     *)
(* characters that fit.  DEVMaid's terminals live in frames that are       *)
(* hidden until their tab is chosen, are not told of a resize in their     *)
(* first 100 ms, and learn of a scroll bar when something is printed.      *)
(***************************************************************************)
EXTENDS Naturals, Sequences, FiniteSets, SequencesExt

CONSTANTS
    Lengths,  \* lengths of lines, in characters
    Sizes,    \* sizes of the frame: records of columns and rows
    MaxLines  \* BOUND: lines printed between two clears

ASSUME OutputConstants ==
    /\ Lengths \subseteq Nat \ {0} /\ MaxLines \in Nat
    /\ Sizes \subseteq [cols : Nat \ {0, 1}, rows : Nat \ {0}]

Hidden == [cols |-> 0, rows |-> 0]
Unknown == 0   \* num_chars before it was ever computed, or computed while hidden

VARIABLES
    lines,       \* lengths of what was printed
    screen,      \* what is drawn: lengths and where they are cut
    num_chars, num_rows,
    frame,       \* the size of the frame
    old,         \* old_width and old_height: the size when last drawn anew
    scroll_bars, \* as it was when last looked at
    bound,       \* the handler of resize is bound
    unheard      \* HISTORY: the size changed and there was no handler yet

outputVars == <<lines, screen, num_chars, num_rows, frame, old, scroll_bars, bound, unheard>>

Drawn == [len : Lengths, cut : Nat]

OutputTypeOK ==
    /\ lines \in Seq(Lengths) /\ Len(lines) <= MaxLines
    /\ screen \in Seq(Drawn)
    /\ num_chars \in Nat /\ num_rows \in Nat
    /\ frame \in Sizes \cup {Hidden} /\ old \in Sizes \cup {Hidden}
    /\ scroll_bars \in BOOLEAN /\ bound \in BOOLEAN /\ unheard \in BOOLEAN

-----------------------------------------------------------------------------
Rows(drawn) == IF drawn.cut = Unknown THEN 1 ELSE (drawn.len + drawn.cut - 1) \div drawn.cut
AllRows(s) == FoldLeft(LAMBDA n, drawn : n + Rows(drawn), 0, s)

HaveScrollbars(s, f) == f # Hidden /\ AllRows(s) > f.rows

\* get_num_chars: a scroll bar takes a column.
Fitting(s, f) ==
    IF f = Hidden THEN Unknown ELSE IF HaveScrollbars(s, f) THEN f.cols - 1 ELSE f.cols

Redrawn(ls, cut) == [i \in DOMAIN ls |-> [len |-> ls[i], cut |-> cut]]

\* MUTANT: what was printed before stays as it was drawn.
ResizeKeeping(ls, s, f) ==
    LET cut == Fitting(s, f) IN
    IF cut # num_chars \/ f.rows # num_rows
    THEN /\ num_chars' = cut /\ num_rows' = f.rows /\ old' = f
         /\ screen' = s
    ELSE screen' = s /\ UNCHANGED <<num_chars, num_rows, old>>
\* resize: if what fits has changed everything is drawn anew.
Resize(ls, s, f) ==
    LET cut == Fitting(s, f) IN
    IF cut # num_chars \/ f.rows # num_rows
    THEN /\ num_chars' = cut /\ num_rows' = f.rows /\ old' = f
         /\ screen' = Redrawn(ls, cut)
    ELSE screen' = s /\ UNCHANGED <<num_chars, num_rows, old>>

-----------------------------------------------------------------------------
\* The greeting is printed first, and then the size looked at, without a redraw.
OutputInit ==
    /\ \E len \in Lengths : lines = <<len>>
    /\ screen = Redrawn(lines, Unknown)
    /\ frame \in Sizes \cup {Hidden} /\ old = Hidden
    /\ num_chars = Fitting(screen, frame) /\ num_rows = frame.rows
    /\ scroll_bars = HaveScrollbars(<<>>, frame)
    /\ bound = FALSE /\ unheard = FALSE

\* 100 ms later.
BindResize ==
    /\ ~bound /\ bound' = TRUE
    /\ UNCHANGED <<lines, screen, num_chars, num_rows, frame, old, scroll_bars, unheard>>

\* The window is resized, or the tab of the terminal is shown or hidden.
FrameChanges ==
    /\ \E f \in (Sizes \cup {Hidden}) \ {frame} :
         /\ frame' = f
         /\ IF bound /\ f # Hidden /\ f # old
            THEN Resize(lines, screen, f) /\ unheard' = FALSE
            ELSE /\ unheard' = (unheard \/ (~bound /\ f # Hidden))
                 /\ UNCHANGED <<screen, num_chars, num_rows, old>>
    /\ UNCHANGED <<lines, scroll_bars, bound>>

\* echo: the line is drawn, and if the scroll bar came or went since the last one,
\* there is a resize.
Echo ==
    /\ Len(lines) < MaxLines
    /\ \E len \in Lengths :
         /\ lines' = Append(lines, len)
         /\ LET s == Append(screen, [len |-> len, cut |-> num_chars]) IN
            IF scroll_bars # HaveScrollbars(s, frame)
            THEN Resize(lines', s, frame)
            ELSE screen' = s /\ UNCHANGED <<num_chars, num_rows, old>>
         /\ scroll_bars' = HaveScrollbars(screen', frame)
    /\ UNCHANGED <<frame, bound, unheard>>

Clear ==
    /\ lines # <<>> /\ lines' = <<>> /\ screen' = <<>>
    /\ UNCHANGED <<num_chars, num_rows, frame, old, scroll_bars, bound, unheard>>

OutputNext == BindResize \/ FrameChanges \/ Echo \/ Clear

-----------------------------------------------------------------------------
\* What is shown is what was printed, in order; and while the terminal can be
\* seen all of it is cut at one place, where the frame ends or a column before,
\* but the greeting, which was printed before the size was known.
ScreenTrue ==
    /\ [i \in DOMAIN screen |-> screen[i].len] = lines
    /\ frame # Hidden /\ bound /\ ~unheard =>
         /\ num_chars \in {frame.cols, frame.cols - 1}
         /\ \A i \in DOMAIN screen :
              screen[i].cut = num_chars \/ (i = 1 /\ screen[i].cut = Unknown)

-----------------------------------------------------------------------------
(***************************************************************************)
(* How a terminal draws the output of a command: the escape sequences of   *)
(* its colours become formatting, and formatted text is cut into rows.     *)
(* Text is a sequence of tokens: a character (or an entity, which counts   *)
(* as one), a line break, an escape sequence, and where formatting begins  *)
(* and ends.                                                               *)
(***************************************************************************)

CONSTANTS
    Codes,   \* the escape sequences: sequences of numbers
    MaxText, \* BOUND: tokens of the output of a command
    Widths   \* widths of a terminal

ASSUME TextConstants ==
    /\ Codes \subseteq Seq(Nat) /\ MaxText \in Nat /\ Widths \subseteq Nat \ {0}

VARIABLES
    input,     \* what the command printed
    formatted, \* with formatting instead of escape sequences
    rows,      \* cut for the width
    width, stage

textVars == <<input, formatted, rows, width, stage>>

Char  == [t |-> "char"]
Break == [t |-> "break"]
CloseTag == [t |-> "close"]
EscapeCode(code) == [t |-> "escape", code |-> code]
OpenTag(look)   == [t |-> "open", look |-> look]

\* A colour is a tone and a number, or none.
None == <<>>
Plain == [styles |-> {}, color |-> None, background |-> None]

-----------------------------------------------------------------------------
\* format_ansi, one number of a code after the other.
Control(s, num) ==
    LET next == [s EXCEPT !.eight = FALSE] IN
    CASE num = 1  -> [next EXCEPT !.styles = @ \cup {"b"}, !.tone = "bold"]
      [] num = 2  -> [next EXCEPT !.tone = "faited"]
      [] num = 3  -> [next EXCEPT !.styles = @ \cup {"i"}]
      [] num = 4  -> [next EXCEPT !.styles = @ \cup {"u"}]
      [] num = 5  -> [s EXCEPT !.eight = TRUE]
      [] num = 7  -> [next EXCEPT !.reverse = TRUE]
      [] num = 38 -> [next EXCEPT !.eightColor = TRUE]
      [] num = 48 -> [next EXCEPT !.eightBack = TRUE]
      [] OTHER ->
           [next EXCEPT
              !.color = IF s.eightColor /\ s.eight /\ num > 0 THEN num - 1
                        ELSE IF num = 39 THEN 7 ELSE IF num \in 30 .. 37 THEN num - 30 ELSE @,
              !.background = IF s.eightBack /\ s.eight /\ num > 0 THEN num - 1
                             ELSE IF num = 49 THEN 0 ELSE IF num \in 40 .. 47 THEN num - 40 ELSE @]

NoColour == 1000
FormatAnsi(code) ==
    LET s == FoldLeft(Control, [styles |-> {}, tone |-> "normal", color |-> NoColour,
                 background |-> NoColour, reverse |-> FALSE, eight |-> FALSE,
                 eightColor |-> FALSE, eightBack |-> FALSE], code)
        both == s.color # NoColour /\ s.background # NoColour
        fore == IF ~s.reverse THEN s.color ELSE IF both THEN s.background ELSE 0
        back == IF ~s.reverse THEN s.background ELSE IF both THEN s.color ELSE 7
        Toned(n, eight) == IF n = NoColour THEN None
                           ELSE IF eight THEN <<"palette", n>> ELSE <<s.tone, n>>
    IN  [styles |-> s.styles, color |-> Toned(fore, s.eightColor),
         background |-> Toned(back, s.eightBack)]

Over(look, prev) ==
    [look EXCEPT !.color = IF @ = None THEN prev.color ELSE @,
                 !.background = IF @ = None THEN prev.background ELSE @]

\* from_ansi: "0" closes what is open, any other code closes and opens, and a code
\* without numbers is dropped.
FromAnsi(text) ==
    LET Step(s, token) ==
            IF token.t # "escape" THEN [s EXCEPT !.out = Append(@, token)]
            ELSE IF token.code = <<>> THEN s
            ELSE IF token.code = <<0>>
            THEN IF s.inside THEN [s EXCEPT !.out = Append(@, CloseTag), !.inside = FALSE, !.prev = Plain]
                 ELSE s
            ELSE LET look == Over(FormatAnsi(token.code), s.prev)
                 IN  [out |-> (IF s.inside THEN Append(s.out, CloseTag) ELSE s.out) \o <<OpenTag(look)>>,
                      inside |-> TRUE, prev |-> look]
        s == FoldLeft(Step, [out |-> <<>>, inside |-> FALSE, prev |-> Plain], text)
    IN  IF s.inside THEN Append(s.out, CloseTag) ELSE s.out

-----------------------------------------------------------------------------
Opens(s) == {i \in DOMAIN s : s[i].t = "open"}
LastOpen(s) == s[CHOOSE i \in Opens(s) : \A j \in Opens(s) : j <= i]
Unclosed(s) == Opens(s) # {} /\ \A i \in DOMAIN s : s[i].t = "close" =>
                                   \E j \in Opens(s) : i < j

\* A row of split_equal is complete: formatting that is open is closed, and opened
\* again in the next row; one that begins at its end moves there.
Cut(s, row) ==
    LET full == s.prev \o row IN
    [s EXCEPT !.rows = Append(@, IF ~Unclosed(full) THEN full
                                 ELSE IF Last(full).t = "open" THEN Front(full)
                                 ELSE Append(full, CloseTag)),
              !.row = <<>>, !.count = 0,
              !.prev = IF Unclosed(full) THEN <<LastOpen(full)>> ELSE <<>>]

\* split_equal, of one line: a row is cut when it has enough characters, and at
\* the end of the line.
SplitLine(s, line, w) ==
    LET Step(r, i) ==
            LET row == Append(r.row, line[i])
                count == IF line[i].t = "char" THEN r.count + 1 ELSE r.count
            IN  IF count = w \/ i = Len(line) THEN Cut(r, row)
                ELSE [r EXCEPT !.row = row, !.count = count]
    IN  IF line = <<>> THEN [s EXCEPT !.rows = Append(@, <<>>)]
        ELSE FoldLeft(Step, s, [i \in DOMAIN line |-> i])

\* The lines of a text.
Lines(text) ==
    FoldLeft(LAMBDA ls, token : IF token = Break THEN Append(ls, <<>>)
                                ELSE Append(Front(ls), Append(Last(ls), token)),
             << <<>> >>, text)

SplitEqual(text, w) ==
    FoldLeft(LAMBDA s, line : SplitLine(s, line, w),
             [rows |-> <<>>, row |-> <<>>, count |-> 0, prev |-> <<>>], Lines(text)).rows

-----------------------------------------------------------------------------
\* The output of a command grows, and is drawn: draw_line.
TextInit ==
    /\ input = <<>> /\ formatted = <<>> /\ rows = <<>> /\ stage = "print"
    /\ width \in Widths

CommandPrints ==
    /\ stage = "print" /\ Len(input) < MaxText
    /\ \E token \in {Char, Break} \cup {EscapeCode(code) : code \in Codes} : input' = Append(input, token)
    /\ UNCHANGED <<formatted, rows, width, stage>>

Format ==
    /\ stage = "print" /\ stage' = "split"
    /\ formatted' = FromAnsi(input)
    /\ UNCHANGED <<input, rows, width>>

Split ==
    /\ stage = "split" /\ stage' = "drawn"
    /\ rows' = SplitEqual(formatted, width)
    /\ UNCHANGED <<input, formatted, width>>

TextNext == CommandPrints \/ Format \/ Split

TextTypeOK ==
    /\ \A i \in DOMAIN input : input[i].t \in {"char", "break", "escape"}
    /\ \A i \in DOMAIN formatted : formatted[i].t \in {"char", "break", "open", "close"}
    /\ \A i \in DOMAIN rows : \A j \in DOMAIN rows[i] : rows[i][j].t \in {"char", "open", "close"}
    /\ width \in Widths /\ stage \in {"print", "split", "drawn"}

-----------------------------------------------------------------------------
\* How characters look: in formatted text, and by what was printed.
Looks(text) ==
    FoldLeft(LAMBDA s, token :
               CASE token.t = "open"  -> [s EXCEPT !.look = token.look]
                 [] token.t = "close" -> [s EXCEPT !.look = Plain]
                 [] token.t = "char"  -> [s EXCEPT !.seen = Append(@, s.look)]
                 [] OTHER -> s,
             [look |-> Plain, seen |-> <<>>], text).seen

Printed(text) ==
    FoldLeft(LAMBDA s, token :
               CASE token.t = "char" -> [s EXCEPT !.seen = Append(@, s.look)]
                 [] token.t = "escape" ->
                      [s EXCEPT !.look = IF token.code = <<>> THEN @
                                         ELSE IF token.code = <<0>> THEN Plain
                                         ELSE Over(FormatAnsi(token.code), @)]
                 [] OTHER -> s,
             [look |-> Plain, seen |-> <<>>], text).seen

Balanced(row) == ~Unclosed(row) /\ \A i \in DOMAIN row : row[i].t = "close" =>
                    \E j \in Opens(row) : j < i

\* Every character is drawn in the colours that were last set before it, and has
\* the style of the last code; no row has more characters than fit (the assertion
\* of the library's own test); and each row can be drawn on its own.
TextTrue ==
    stage = "drawn" =>
        /\ Looks(FlattenSeq(rows)) = Printed(input)
        /\ \A i \in DOMAIN rows :
             /\ Len(SelectSeq(rows[i], LAMBDA token : token.t = "char")) <= width
             /\ Balanced(rows[i])
=============================================================================
