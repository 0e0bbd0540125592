----------------------------- MODULE FileDetails -----------------------------
(***************************************************************************)
(* The commands "info" and "download": dialogs that ask the server for the *)
(* size of directories and the dimensions of images and are closed and     *)
(* opened again while it answers, and frames that load files and are       *)
(* removed by timers.                                                      *)
(***************************************************************************)
EXTENDS Integers, Sequences, FiniteSets
LOCAL INSTANCE SequencesExt

CONSTANTS
    Thing,       \* files and directories
    Folders,     \* those that are directories
    Pictures2,   \* those that are images
    MaxVersion,  \* BOUND: versions of a file
    MaxInfos,    \* BOUND: dialogs that are opened
    MaxLoads,    \* BOUND: downloads
    MaxTurns     \* BOUND: what users do in a behaviour

ASSUME DetailsConstants ==
    /\ Folders \cup Pictures2 \subseteq Thing /\ Folders \cap Pictures2 = {}
    /\ MaxVersion \in Nat \ {0} /\ MaxInfos \in Nat /\ MaxLoads \in Nat /\ MaxTurns \in Nat

VARIABLES
    version,    \* of each file on the server
    known,      \* elFinder's object of a file: its version, that of its dimensions; or Unknown
    infos,      \* the dialogs so far
    asks,       \* requests of dialogs
    overtaken,  \* HISTORY: files of which an answer about another version came in
    frames,     \* the frames of downloads, in the order of the document
    timers,     \* the frames each timer is to remove
    doings

detailVars == <<version, known, infos, asks, overtaken, frames, timers, doings>>

Unknown == [version |-> 0, dim |-> 0]
Row == {"none", "spinner", "shown"}
Info == [files : Seq(Thing), open : BOOLEAN, size : Row, dim : Row]
Waiting == -1
Ask2 == [dialog : 1 .. MaxInfos, row : {"size", "dim"}, served : -1 .. MaxVersion]

DetailsTypeOK ==
    /\ version \in [Thing -> 1 .. MaxVersion]
    /\ known \in [Thing -> [version : 0 .. MaxVersion, dim : 0 .. MaxVersion]]
    /\ infos \in Seq(Info) /\ Len(infos) <= MaxInfos
    /\ asks \subseteq Ask2
    /\ overtaken \subseteq Thing
    /\ frames \in Seq(Thing)
    /\ timers \in Seq(SUBSET Thing) /\ Len(timers) <= MaxLoads
    /\ doings \in 0 .. MaxTurns

DetailsInit ==
    /\ version = [f \in Thing |-> 1]
    /\ known = [f \in Thing |-> [version |-> 1, dim |-> 0]]
    /\ infos = <<>> /\ asks = {} /\ overtaken = {}
    /\ frames = <<>> /\ timers = <<>> /\ doings = 0

Turn == doings < MaxTurns /\ doings' = doings + 1

InCache(f) == known[f] # Unknown

-----------------------------------------------------------------------------
(***************************************************************************)
(* info: the id of a dialog is made of the files in the order of their     *)
(* selection; one that is open is raised.                                  *)
(***************************************************************************)
OpenFor(files) == \E i \in DOMAIN infos : infos[i].open /\ infos[i].files = files

\* One directory, or some among other files: the size is asked for.
SizeRow(files) ==
    IF Folders \cap {files[i] : i \in DOMAIN files} # {} THEN "spinner" ELSE "shown"

\* Of an image alone: what is known is shown.
DimRow(files) ==
    IF Len(files) > 1 \/ files[1] \notin Pictures2 THEN "none"
    ELSE IF known[files[1]].dim # 0 THEN "shown" ELSE "spinner"

Spinners(i, dialog) ==
    {[dialog |-> i, row |-> row, served |-> Waiting] :
        row \in {r \in {"size", "dim"} : (IF r = "size" THEN dialog.size ELSE dialog.dim) = "spinner"}}

\* One more dialog, with a request for every row that is not known.
ShowAnother(files) ==
    /\ Len(infos) < MaxInfos
    /\ LET dialog == [files |-> files, open |-> TRUE, size |-> SizeRow(files), dim |-> DimRow(files)]
       IN  infos' = Append(infos, dialog) /\ asks' = asks \cup Spinners(Len(infos) + 1, dialog)

Show(files) ==
    IF OpenFor(files) THEN UNCHANGED <<infos, asks>> ELSE ShowAnother(files)

ShowInfo(files) ==
    /\ Turn /\ files # <<>> /\ \A i \in DOMAIN files : InCache(files[i])
    /\ Show(files)
    /\ UNCHANGED <<version, known, overtaken, frames, timers>>

\* Closing destroys a dialog; its requests go on.
CloseInfo(i) ==
    /\ Turn /\ infos[i].open
    /\ infos' = [infos EXCEPT ![i].open = FALSE]
    /\ UNCHANGED <<version, known, asks, overtaken, frames, timers>>

\* The server looks at the file; 0 is an error, or an image it cannot read.
ServeAsk(a) ==
    /\ a.served = Waiting
    /\ \E v \in {0, version[infos[a.dialog].files[1]]} :
         asks' = (asks \ {a}) \cup {[a EXCEPT !.served = v]}
    /\ UNCHANGED <<version, known, infos, overtaken, frames, timers, doings>>

\* The dimensions are kept in the object the cache has now, if it has one.
DimKnown(f, v) == IF v # 0 /\ InCache(f) THEN [known EXCEPT ![f].dim = v] ELSE known

\* replSpinner finds nothing in a dialog that is destroyed.
AnswerAsk(a) ==
    /\ a.served # Waiting
    /\ asks' = asks \ {a}
    /\ infos' = [infos EXCEPT ![a.dialog] =
           IF ~@.open THEN @ ELSE IF a.row = "size" THEN [@ EXCEPT !.size = "shown"]
                                  ELSE [@ EXCEPT !.dim = "shown"]]
    /\ LET f == infos[a.dialog].files[1] IN
       IF a.row = "size" THEN UNCHANGED <<known, overtaken>>
       ELSE /\ known' = DimKnown(f, a.served)
            /\ overtaken' = IF a.served \notin {0, known[f].version} THEN overtaken \cup {f}
                            ELSE IF a.served # 0 THEN overtaken \ {f} ELSE overtaken
    /\ UNCHANGED <<version, frames, timers, doings>>

-----------------------------------------------------------------------------
(***************************************************************************)
(* What happens to files meanwhile.                                        *)
(***************************************************************************)
\* change: what the server says of the file does not have its dimensions.
Changed(f, v) == [known EXCEPT ![f] = [version |-> v, dim |-> 0]]

\* A command of this window changes a file.
Edit(f) ==
    /\ Turn /\ InCache(f) /\ f \notin Folders /\ version[f] < MaxVersion
    /\ version' = [version EXCEPT ![f] = @ + 1]
    /\ known' = Changed(f, version[f] + 1)
    /\ overtaken' = overtaken \ {f}
    /\ UNCHANGED <<infos, asks, frames, timers>>

\* Its directory is opened again, or left for another.
Relist(f) ==
    /\ Turn
    /\ known' = Changed(f, version[f])
    /\ overtaken' = overtaken \ {f}
    /\ UNCHANGED <<version, infos, asks, frames, timers>>

Forget(f) ==
    /\ Turn /\ InCache(f)
    /\ known' = [known EXCEPT ![f] = Unknown]
    /\ overtaken' = overtaken \ {f}
    /\ UNCHANGED <<version, infos, asks, frames, timers>>

-----------------------------------------------------------------------------
\* download: a frame for each file; a timer removes one of each by its id.
Download(files) ==
    /\ Turn /\ Len(timers) < MaxLoads
    /\ files # {} /\ files \cap Folders = {} /\ \A f \in files : InCache(f)
    /\ frames' = frames \o SetToSeq(files)
    /\ timers' = Append(timers, files)
    /\ UNCHANGED <<version, known, infos, asks, overtaken>>

First2(s, f) == CHOOSE i \in DOMAIN s : s[i] = f /\ \A j \in 1 .. i - 1 : s[j] # f

\* $('#id') is the first in the document.
Unframed(s, files) ==
    LET gone == {First2(s, f) : f \in files \cap {s[i] : i \in DOMAIN s}}
        kept == SelectSeq([i \in DOMAIN s |-> i], LAMBDA i : i \notin gone)
    IN  [i \in DOMAIN kept |-> s[kept[i]]]

\* How long a timer waits depends on the browser and on how many files there are.
FramesRemoved(i) ==
    /\ frames' = Unframed(frames, timers[i])
    /\ timers' = RemoveAt(timers, i)
    /\ UNCHANGED <<version, known, infos, asks, overtaken, doings>>

DetailsNext ==
    \/ \E files \in {<<f>> : f \in Thing} \cup {p \in Thing \X Thing : p[1] # p[2]} : ShowInfo(files)
    \/ \E i \in DOMAIN infos : CloseInfo(i)
    \/ \E a \in asks : ServeAsk(a) \/ AnswerAsk(a)
    \/ \E f \in Thing : Edit(f) \/ Relist(f) \/ Forget(f)
    \/ \E files \in SUBSET Thing : Download(files)
    \/ \E i \in DOMAIN timers : FramesRemoved(i)

-----------------------------------------------------------------------------
(***************************************************************************)
(* Properties.                                                             *)
(***************************************************************************)
\* A spinner that turns is one an answer is to come for, and there is one dialog
\* about the same files (replSpinner, id).
SpinnersEnd ==
    \A i \in DOMAIN infos : infos[i].open =>
      /\ infos[i].size = "spinner" => \E a \in asks : a.dialog = i /\ a.row = "size"
      /\ infos[i].dim = "spinner" => \E a \in asks : a.dialog = i /\ a.row = "dim"
      /\ \A j \in DOMAIN infos : infos[j].open /\ infos[j].files = infos[i].files => i = j

\* The dimensions in the cache are those of the version it knows, unless the answer
\* was overtaken by the change of the file; a file that left it is not half there.
DimsCurrent ==
    \A f \in Thing :
      /\ f \notin overtaken => known[f].dim \in {0, known[f].version}
      /\ known[f].version = 0 => known[f].dim = 0

\* There are as many frames of a file as timers that will remove one.
FramesTimed ==
    \A f \in Thing :
      Cardinality({i \in DOMAIN frames : frames[i] = f}) = Cardinality({i \in DOMAIN timers : f \in timers[i]})

DetailsTrue == SpinnersEnd /\ DimsCurrent /\ FramesTimed

-----------------------------------------------------------------------------
(***************************************************************************)
(* What elFinder writes about a file: when it was changed, by a clock that *)
(* is read once, when the page is made; how big it is, what may be done    *)
(* with it, its mode; and the messages, whose placeholders take the texts  *)
(* that follow.  A day is as many hours as the calendar gives it, which is *)
(* not always 24.                                                          *)
(***************************************************************************)

CONSTANTS
    Midnights,  \* BOUND: the hours at which the days modelled begin, the first at 0
    LastHour,   \* BOUND: the last hour of the clock
    Kilo,       \* BOUND: what elFinder takes for 1024
    MaxTexts    \* BOUND: texts given to i18n

ASSUME FormatsAssumption ==
    /\ Midnights \in Seq(Nat) /\ Midnights # <<>> /\ Head(Midnights) = 0
    /\ \A i, j \in DOMAIN Midnights : i < j => Midnights[i] < Midnights[j]
    /\ LastHour \in Nat /\ Kilo \in Nat \ {0} /\ MaxTexts \in Nat

VARIABLES
    now,      \* the clock
    today, yesterday, \* what the page took for the beginning of these days
    changed,  \* when the file that is listed was changed
    label,    \* how the list names that day
    about     \* what else is written: a size, a mode or a message

formatVars == <<now, today, yesterday, changed, label, about>>

FormatsTypeOK ==
    /\ now \in 0 .. LastHour /\ changed \in -24 .. LastHour
    /\ today \in ToSet(Midnights) /\ yesterday = today - 24
    /\ label \in {"Today", "Yesterday", "date"}
    /\ about.kind \in {"none", "size", "mode", "texts", "row", "names", "window"}

-----------------------------------------------------------------------------
\* Local midnight before an hour; hours before the first are of no day modelled.
DayOf(t) == CHOOSE m \in ToSet(Midnights) :
                /\ m <= t
                /\ \A n \in ToSet(Midnights) : n <= t => n <= m

\* formatDate: the day of a file.
DayLabel(ts, td, yd) ==
    CASE ts >= td             -> "Today"
      [] ts >= yd /\ ts < td  -> "Yesterday"
      [] OTHER                -> "date"

\* The two digits formatDate gives for 12 hours, and which half of the day.
HourOfTwelve(h) == IF h > 12 THEN h - 12 ELSE h
HalfOfDay(h) == IF h > 12 THEN "pm" ELSE "am"

-----------------------------------------------------------------------------
\* formatSize: a unit and how many hundredths of it.
Unit(s) ==
    CASE s > Kilo * Kilo * Kilo -> Kilo * Kilo * Kilo
      [] s > Kilo * Kilo /\ s <= Kilo * Kilo * Kilo -> Kilo * Kilo
      [] s > Kilo /\ s <= Kilo * Kilo -> Kilo
      [] OTHER -> 1

Rounded(n, d) == (2 * n + d) \div (2 * d)

Hundredths(s) == IF Unit(s) >= Kilo * Kilo THEN Rounded(100 * s, Unit(s))
                 ELSE 100 * Rounded(s, Unit(s))

\* How many hundredths of a byte the text says.
Said(s) == Hundredths(s) * Unit(s)

-----------------------------------------------------------------------------
\* formatFileMode, from a number: three groups of letters.  The sticky bit is
\* left out, and so is a set-id bit whose group may not execute.  The digits are
\* counted from the left without their leading zeros: what the group may do is
\* shown as the owner's when the owner may do nothing.
Aligned(mode) == CASE mode < 8 -> 64 * mode
                   [] mode >= 8 /\ mode < 64 -> 8 * mode
                   [] OTHER -> mode % 512
Bit(n, b) == (n \div b) % 2 = 1
Group(mode, i) == (Aligned(mode) \div (CASE i = 1 -> 64 [] i = 2 -> 8 [] i = 3 -> 1)) % 8
SetId(mode, i) == \/ i = 1 /\ Bit(mode, 2048)
                  \/ i = 2 /\ Bit(mode, 1024)

Letters(mode) ==
    [i \in 1 .. 3 |->
        << IF Bit(Group(mode, i), 4) THEN "r" ELSE "-",
           IF Bit(Group(mode, i), 2) THEN "w" ELSE "-",
           IF ~Bit(Group(mode, i), 1) THEN "-" ELSE IF SetId(mode, i) THEN "s" ELSE "x" >>]

\* formatFileMode, from letters: an s adds to the fourth digit.
Digit(g) == (IF g[1] = "r" THEN 4 ELSE 0) + (IF g[2] = "w" THEN 2 ELSE 0)
            + (IF g[3] \in {"x", "s"} THEN 1 ELSE 0)
Number(l) ==
    64 * Digit(l[1]) + 8 * Digit(l[2]) + Digit(l[3])
    + (IF l[1][3] \in {"s", "S"} THEN 2048 ELSE 0)
    + (IF l[2][3] \in {"s", "S"} THEN 1024 ELSE 0)

\* perms2class and formatPermissions.
PermsClass(read, write) ==
    CASE ~read /\ ~write -> "na" [] ~read /\ write -> "wo"
      [] read /\ ~write -> "ro"  [] read /\ write -> ""
Permissions(read, write) ==
    IF read \/ write THEN {p \in {"read", "write"} : IF p = "read" THEN read ELSE write}
    ELSE {"noaccess"}

-----------------------------------------------------------------------------
(***************************************************************************)
(* The row of a file in a list: its kind, in words when there is a message  *)
(* for that kind, its marks, and what its tooltip says.                     *)
(***************************************************************************)
\* The kinds the table of mime types names.
Kinds ==
    {"7z", "AWK", "Alias", "AliasBroken", "AppFlash", "AudioMIDI", "AudioMPEG", "AudioMPEG4",
     "AudioOGG", "AudioPlaylist", "AudioWAV", "BMP", "BZIP", "C", "CHeader", "CPP", "CPPHeader",
     "CSS", "CSV", "DOCBOOK", "Flash video", "Folder", "GIF", "GZIP", "HTML", "JAR", "JPEG",
     "JS", "Java", "Markdown", "MsExcel", "MsOffice", "MsPP", "MsWord", "OO", "OTF", "PDF",
     "PHP", "PNG", "PSD", "PXM", "Perl", "Postscript", "Python", "RAR", "RPM", "RTF", "Ruby",
     "SQL", "Shell", "TAR", "TGA", "TIFF", "TTF", "TextPlain", "Torrent", "Unknown", "VideoAVI",
     "VideoDV", "VideoFlash", "VideoMKV", "VideoMOV", "VideoMPEG", "VideoMPEG4", "VideoOGG",
     "VideoWM", "XBITMAP", "XML", "XZ", "ZIP"}

\* The kinds there is an English message for.
Messages ==
    {"7z", "AWK", "Alias", "AliasBroken", "App", "AppFlash", "Audio", "AudioMIDI", "AudioMPEG",
     "AudioMPEG4", "AudioOGG", "AudioWAV", "BMP", "BZIP", "C", "CHeader", "CPP", "CPPHeader",
     "CSS", "CSV", "DOCBOOK", "Folder", "GIF", "GZIP", "HTML", "Image", "JAR", "JPEG", "JS",
     "Java", "Markdown", "MsExcel", "MsOffice", "MsPP", "MsWord", "OO", "OTF", "PDF", "PHP",
     "PNG", "PSD", "PXM", "Perl", "Postscript", "Python", "RAR", "RPM", "RTF", "Ruby", "SQL",
     "Shell", "TAR", "TGA", "TIFF", "TTF", "Text", "TextPlain", "Torrent", "Unknown", "Video",
     "VideoAVI", "VideoDV", "VideoFlash", "VideoMKV", "VideoMOV", "VideoMPEG", "VideoMPEG4",
     "VideoOGG", "VideoWM", "XBITMAP", "XML", "XZ", "ZIP"}

General == [text |-> "Text", image |-> "Image", audio |-> "Audio", video |-> "Video",
            application |-> "App"]

\* A mime type: the family it begins with, and its kind when the table has it.
Mimes == [family : DOMAIN General \cup {"other"}, kind : Kinds \cup {"none"}]

\* mime2kind: what is looked up among the messages; "mime" is the type itself.
KindOf(f) ==
    CASE f.alias /\ f.mime.kind # "AliasBroken" -> "Alias"
      [] ~(f.alias /\ f.mime.kind # "AliasBroken") /\ f.mime.kind # "none" -> f.mime.kind
      [] OTHER -> IF f.mime.family \in DOMAIN General THEN General[f.mime.family] ELSE "mime"
KindShown(f) == IF KindOf(f) \in Messages THEN KindOf(f) ELSE "mime"

\* replacement.marker.
Marks(f) == {m \in {"symlink", "perms", "lock"} :
                CASE m = "symlink" -> f.alias \/ f.mime.kind = "AliasBroken"
                  [] m = "perms" -> ~f.read \/ ~f.write
                  [] m = "lock" -> f.locked}

\* replacement.tooltip: the day, the size of what is not empty, and what the server
\* says of the file.
Tooltip(f) == (IF f.tooltip THEN <<"tooltip">> ELSE <<>>) \o <<"date">>
              \o (IF f.size > 0 THEN <<"size">> ELSE <<>>)

\* itemhtml, as one of the two templates has it.
FileRow(f, list) ==
    [class |-> PermsClass(f.read, f.write), marks |-> Marks(f), tooltip |-> Tooltip(f),
     kind |-> IF list THEN KindShown(f) ELSE "left out",
     breaks |-> ~list]

-----------------------------------------------------------------------------
(***************************************************************************)
(* i18n.  A text is a name, which no message has, or the key of a message  *)
(* with one or two placeholders ($1, $2).  Texts are taken in order; one a *)
(* placeholder has taken is not translated and gets no line of its own.    *)
(***************************************************************************)
Texts == [name : {"a", "b"}, places : {<<>>}]
         \cup {[name |-> "plain", places |-> <<>>], [name |-> "one", places |-> <<1>>],
               [name |-> "two", places |-> <<1, 2>>], [name |-> "second", places |-> <<2>>]}

\* What is known before the text at i is read: the texts taken so far.
Taken(input) ==
    FoldLeft(LAMBDA taken, i :
                IF i \in taken THEN taken
                ELSE taken \cup ({i + input[i].places[p] : p \in DOMAIN input[i].places}
                                 \cap DOMAIN input),
             {}, [i \in DOMAIN input |-> i])

\* The lines: each is a text followed by those its placeholders show.
Line(input, i) ==
    <<i>> \o SelectSeq([p \in DOMAIN input[i].places |-> i + input[i].places[p]],
                       LAMBDA j : j \in DOMAIN input)
Lines(input) ==
    LET order == [i \in DOMAIN input |-> i]
    IN  [n \in DOMAIN SelectSeq(order, LAMBDA i : i \notin Taken(input)) |->
            Line(input, SelectSeq(order, LAMBDA i : i \notin Taken(input))[n])]

-----------------------------------------------------------------------------
(***************************************************************************)
(* The order of names where the browser has none for numbers in them.  A   *)
(* name is cut into pieces, numbers and what is between them; a piece that *)
(* is missing counts as 0.  Of texts only their alphabetical order counts, *)
(* symbols first.  Names that are wholly hexadecimal or a date have a      *)
(* stamp, their value; a hexadecimal one counts as the piece 0.            *)
(***************************************************************************)
ZeroPiece == [kind |-> "digits", digits |-> <<0>>]
PieceAt(name, i) == IF i \in DOMAIN name.pieces THEN name.pieces[i] ELSE ZeroPiece
ValueOf(digits) == FoldLeft(LAMBDA n, d : 10 * n + d, 0, digits)

\* Digits are a number unless they begin with 0; 00 is 0.
IsNumber(p) == p.digits[1] # 0 \/ ValueOf(p.digits) = 0
DigitsText(p) == IF ValueOf(p.digits) = 0 THEN <<0>> ELSE p.digits

TextBefore(s, t) ==
    \E i \in 1 .. Len(t) :
        /\ i - 1 <= Len(s) /\ SubSeq(s, 1, i - 1) = SubSeq(t, 1, i - 1)
        /\ i > Len(s) \/ s[i] < t[i]

\* A symbol comes before a number and a number before a word.
PieceBefore(p, q) ==
    CASE p.kind = "digits" /\ q.kind = "digits" ->
            IF IsNumber(p) /\ IsNumber(q) THEN ValueOf(p.digits) < ValueOf(q.digits)
            ELSE TextBefore(DigitsText(p), DigitsText(q))
      [] p.kind = "digits" /\ q.kind # "digits" -> q.kind = "word"
      [] p.kind # "digits" /\ q.kind = "digits" -> p.kind = "symbol"
      [] p.kind # "digits" /\ q.kind # "digits" -> p.text < q.text

\* naturalCompare: the stamps if the second name has one, a date only beside another
\* stamp; then the first pieces that differ.
NaturalCompare(x, y) ==
    LET second == IF y.hex \/ x.stamp # 0 THEN y.stamp ELSE 0
        longer == IF Len(x.pieces) > Len(y.pieces) THEN Len(x.pieces) ELSE Len(y.pieces)
        differ == SelectSeq([i \in 1 .. longer |-> i],
                            LAMBDA i : \/ PieceBefore(PieceAt(x, i), PieceAt(y, i))
                                       \/ PieceBefore(PieceAt(y, i), PieceAt(x, i)))
    IN  IF second # 0 /\ x.stamp # second THEN IF x.stamp < second THEN -1 ELSE 1
        ELSE IF differ = <<>> THEN 0
        ELSE IF PieceBefore(PieceAt(x, differ[1]), PieceAt(y, differ[1])) THEN -1 ELSE 1

\* BOUND: names of one or two pieces, two dates and two that are hexadecimal.
Digits == {<<0>>, <<0, 1>>, <<2>>, <<1, 0>>}
NumberPieces == [kind : {"digits"}, digits : Digits]
TextPieces == {[kind |-> "symbol", text |-> 1], [kind |-> "word", text |-> 2]}
PlainNames ==
    [pieces : {<<p>> : p \in NumberPieces \cup TextPieces} \cup (NumberPieces \X TextPieces)
              \cup (TextPieces \X NumberPieces), hex : {FALSE}, stamp : {0}]
StampedNames ==
    [pieces : {<<ZeroPiece>>}, hex : {TRUE}, stamp : {2, 10}]
    \cup [pieces : {<<[kind |-> "digits", digits |-> d], [kind |-> "symbol", text |-> 1]>> :
                      d \in {<<2>>, <<1, 0>>}}, hex : {FALSE}, stamp : {5, 7}]

-----------------------------------------------------------------------------
(***************************************************************************)
(* open, of files: each is sent to one and the same window, made two       *)
(* thirds as wide and as high as the page, or for an image as big as it is *)
(* or as the side allows that is farther beyond.                           *)
(***************************************************************************)
\* Files are opened from the last; one that may not be read ends that, and so does a
\* browser that refuses the window.
OpenedFiles(files, popups) ==
    LET barred == {i \in DOMAIN files : ~files[i].read}
    IN  IF popups THEN {i \in DOMAIN files : \A b \in barred : b < i} ELSE {}

WindowSize(room, image) ==
    CASE image.w <= room.w /\ image.h <= room.h -> image
      [] (image.w > room.w \/ image.h > room.h) /\ image.w - room.w > image.h - room.h ->
            [w |-> room.w, h |-> Rounded(image.h * room.w, image.w)]
      [] OTHER -> [w |-> Rounded(image.w * room.h, image.h), h |-> room.h]

\* The size of a file that is not known to be an image is that of the room.
FileWindow(page, file) ==
    LET room == [w |-> Rounded(2 * page.w, 3), h |-> Rounded(2 * page.h, 3)]
    IN  WindowSize(room, IF file.image THEN file.size ELSE room)

-----------------------------------------------------------------------------
FormatsInit ==
    /\ now = 0 /\ today = 0 /\ yesterday = -24
    /\ changed = -24 /\ label = DayLabel(-24, 0, -24)
    /\ about = [kind |-> "none"]

\* The clock, while the page stays.
Hour == /\ now < LastHour /\ now' = now + 1
        /\ UNCHANGED <<today, yesterday, changed, label, about>>

\* The page is loaded: elFinder reads the clock, lists the file and writes its day.
LoadPage ==
    /\ today' = DayOf(now) /\ yesterday' = DayOf(now) - 24
    /\ label' = DayLabel(changed, today', yesterday')
    /\ UNCHANGED <<now, changed, about>>

\* The file is changed, now, and elFinder draws it again.
ChangeFile ==
    /\ changed' = now /\ label' = DayLabel(now, today, yesterday)
    /\ UNCHANGED <<now, today, yesterday, about>>

\* A file of some size, of some mode, or a message.
Write ==
    /\ now = 0 /\ changed = -24
    /\ \/ \E s \in 0 .. 3 * Kilo * Kilo * Kilo : about' = [kind |-> "size", size |-> s]
       \/ \E m \in 1 .. 4095 : about' = [kind |-> "mode", mode |-> m]
       \/ \E m \in Mimes, read, write, alias, other \in BOOLEAN :
             about' = [kind |-> "row", file |->
                         [mime |-> m, read |-> read, write |-> write, alias |-> alias,
                          locked |-> other, tooltip |-> other, size |-> IF other THEN 1 ELSE 0]]
       \/ \E n \in 1 .. MaxTexts : \E t \in [1 .. n -> Texts] : about' = [kind |-> "texts", texts |-> t]
       \/ \E names \in (PlainNames \X PlainNames \X PlainNames)
                       \cup {<<m, n, n>> : m, n \in PlainNames \cup StampedNames} :
             about' = [kind |-> "names", names |-> names]
       \/ \E page, size \in [w : 3 .. 9, h : 3 .. 9], image \in BOOLEAN :
             about' = [kind |-> "window", page |-> page, file |-> [image |-> image, size |-> size]]
    /\ about = [kind |-> "none"]
    /\ UNCHANGED <<now, today, yesterday, changed, label>>

FormatsNext == about.kind = "none" /\ (Hour \/ LoadPage \/ ChangeFile \/ Write)

FormatsSpec == FormatsInit /\ [][FormatsNext]_formatVars

-----------------------------------------------------------------------------
\* On the day the page was loaded, and when the day before had 24 hours, a file is
\* said to be of today or yesterday exactly when it is; later, "Today" and
\* "Yesterday" still are no older than the page.
DaysNamed ==
    /\ label = "Today" => changed >= today
    /\ label = "Yesterday" => changed < today /\ changed + 24 >= today
    /\ (now >= 24 /\ DayOf(now) = today) =>
         /\ (label = "Today") = (changed >= DayOf(now))
         /\ DayOf(now) - DayOf(DayOf(now) - 1) = 24 =>
              (label = "Yesterday") = (changed >= DayOf(DayOf(now) - 1) /\ changed < DayOf(now))

\* The size written never shrinks when the file grows, and is off by no more than
\* half of what the last digit written counts.
SizesOrdered ==
    about.kind = "size" =>
        LET s == about.size
            digit == IF Unit(s) >= Kilo * Kilo THEN Unit(s) ELSE 100 * Unit(s)
        IN  /\ Said(s) <= Said(s + 1)
            /\ 2 * (Said(s) - 100 * s) <= digit /\ 2 * (100 * s - Said(s)) <= digit

\* A mode written in letters and read back is the mode, but for the bits that
\* letters do not show, when the owner may do something.
ModesKept ==
    about.kind = "mode" /\ about.mode >= 64 =>
        LET m == about.mode
            lost == (IF Bit(m, 512) THEN 512 ELSE 0)
                    + (IF Bit(m, 1024) /\ ~Bit(m, 8) THEN 1024 ELSE 0)
                    + (IF Bit(m, 2048) /\ ~Bit(m, 64) THEN 2048 ELSE 0)
        IN  Number(Letters(m)) = m - lost

\* Every text given to a message is shown, and each line begins with one that no
\* other text shows.
TextsShown ==
    about.kind = "texts" =>
        LET lines == Lines(about.texts)
        IN  /\ UNION {ToSet(lines[n]) : n \in DOMAIN lines} = DOMAIN about.texts
            /\ \A m, n \in DOMAIN lines : m < n => lines[n][1] \notin ToSet(lines[m])

\* The kind of every file whose type the table or its family names is told in words,
\* but for two kinds the messages forget; a row bears the mark of a link exactly
\* when its kind is that of a link, and that of a refusal exactly when its colour is.
RowsTold ==
    about.kind = "row" =>
        LET f == about.file
            row == FileRow(f, TRUE)
        IN  /\ (row.kind = "mime") = \/ KindOf(f) \in {"Flash video", "AudioPlaylist"}
                                    \/ /\ f.mime = [family |-> "other", kind |-> "none"]
                                       /\ ~f.alias
            /\ (f.mime.kind # "Alias" \/ f.alias) =>
                 ("symlink" \in row.marks) = (row.kind \in {"Alias", "AliasBroken"})
            /\ ("perms" \in row.marks) = (row.class # "")
            /\ row.class = FileRow(f, FALSE).class /\ row.marks = FileRow(f, FALSE).marks

\* Two hours of a day are never written alike on a clock of twelve, though noon is
\* written 12 am.
HoursApart ==
    \A h, k \in 0 .. 23 : h # k => \/ HourOfTwelve(h) # HourOfTwelve(k)
                                  \/ HalfOfDay(h) # HalfOfDay(k)

\* The colours of a row and the words of its dialog say the same of a file.
PermissionsAgree ==
    \A read, write \in BOOLEAN :
        /\ (PermsClass(read, write) = "na") = (Permissions(read, write) = {"noaccess"})
        /\ (PermsClass(read, write) = "") = (Permissions(read, write) = {"read", "write"})

\* Any names but stamped ones can be sorted: which of two comes first does not depend on
\* which is asked about, and there are no circles; what is between equal texts is
\* ordered by its value.  So are two hexadecimal names.  Not held against the code: a
\* hexadecimal name and any other both come first, and dates are compared by value
\* among themselves alone.
NamesOrdered ==
    about.kind = "names" =>
        LET x == about.names[1]
            y == about.names[2]
            z == about.names[3]
            first == NaturalCompare(x, y)
        IN  /\ {x, y, z} \subseteq PlainNames =>
                 /\ NaturalCompare(y, x) = -first
                 /\ first <= 0 /\ NaturalCompare(y, z) <= 0 => NaturalCompare(x, z) <= 0
                 /\ \A i \in DOMAIN x.pieces \cap DOMAIN y.pieces :
                      (/\ [x.pieces EXCEPT ![i] = y.pieces[i]] = y.pieces
                       /\ x.pieces[i].kind = "digits" /\ y.pieces[i].kind = "digits"
                       /\ x.pieces[i].digits[1] # 0 /\ y.pieces[i].digits[1] # 0) =>
                         (first < 0) = (ValueOf(x.pieces[i].digits) < ValueOf(y.pieces[i].digits))
            /\ x.hex /\ y.hex => (first < 0) = (x.stamp < y.stamp)

\* The window of an image is never larger than the image and keeps its proportions, as
\* far as whole numbers can; it has the width or the height of the room when the image
\* does not fit.  The other side may still be too long.
WindowsFit ==
    about.kind = "window" =>
        LET image == about.file.size
            room == FileWindow(about.page, [about.file EXCEPT !.image = FALSE])
            window == FileWindow(about.page, about.file)
            skew == window.w * image.h - window.h * image.w
        IN  IF about.file.image
            THEN /\ window.w <= image.w /\ window.h <= image.h
                 /\ \E side \in {image.w, image.h} : 2 * skew <= side /\ 2 * skew >= -side
                 /\ window = image \/ window.w = room.w \/ window.h = room.h
                 /\ image.w <= room.w /\ image.h <= room.h => window = image
            ELSE 3 * window.w \in 2 * about.page.w - 1 .. 2 * about.page.w + 1

\* Of files that are opened together the window shows the first in the end, and the user
\* is told of the last one that may not be read when there is one.
FilesOpened ==
    \A files \in UNION {[1 .. n -> [read : BOOLEAN]] : n \in 1 .. 3} :
        LET sent == OpenedFiles(files, TRUE)
        IN  /\ (1 \in sent) = (\A i \in DOMAIN files : files[i].read)
            /\ \A i \in sent : files[i].read /\ i .. Len(files) \subseteq sent
            /\ OpenedFiles(files, FALSE) = {}

FormatsTrue == DaysNamed /\ HoursApart /\ PermissionsAgree /\ SizesOrdered /\ ModesKept /\ RowsTold
               /\ TextsShown /\ NamesOrdered /\ WindowsFit /\ FilesOpened
=============================================================================
