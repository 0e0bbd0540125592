----------------------------- MODULE ImageResize -----------------------------
(***************************************************************************)
(* The dialog of the command resize.  It resizes, crops or rotates, and in *)
(* each mode a number can be typed or the picture be taken by the mouse:   *)
(* the fields, the picture, the handle and the scale are four records of   *)
(* one thing, which a handler of each brings up to date.                   *)
(*                                                                         *)
(* Sizes are pixels.  A quotient is rounded as exact arithmetic has it.    *)
(***************************************************************************)
EXTENDS Integers, Sequences, FiniteSets

CONSTANTS
    Pictures,   \* sizes of images, <<width, height>>
    PreviewW,   \* pwidth and pheight, the room for the picture
    PreviewH,
    Typed,      \* numbers that are typed as sizes and places
    Dragged,    \* sizes the mouse gives the handle without a fixed ratio
    Angles,     \* degrees that are typed or set by the slider
    Turned,     \* degrees the mouse turns the picture by
    MaxMoves    \* BOUND: what the user does in a behaviour

ASSUME ResizeConstants ==
    /\ Pictures \subseteq (Nat \ {0}) \X (Nat \ {0})
    /\ PreviewW \in Nat \ {0} /\ PreviewH \in Nat \ {0}
    /\ Typed \subseteq Nat /\ Dragged \subseteq Nat \ {0}
    /\ Angles \subseteq Nat /\ Turned \subseteq Int /\ MaxMoves \in Nat

VARIABLES
    stage,      \* of the dialog: "loading", "ready", "sent" or "closed"
    natural,    \* owidth, oheight
    mode,       \* the radio button that is checked
    cratio,
    fields,     \* width, height
    shown,      \* the size of the picture, and of the handle around it
    prop,       \* the scale, <<numerator, denominator>>; <<0, 0>> is NaN
    crop,       \* pointX and so on: see Rect
    handle,     \* what is drawn of it, in pixels of the preview
    typed,      \* the data of the handle: what was typed, until the mouse replaces it
    left,       \* where the dialog is
    degree, rdegree,
    angle,      \* how far the picture is turned
    turns,      \* animations of it that are queued
    sent,       \* what was requested
    drifts,     \* HISTORY: what has come apart: see the properties
    moves       \* BOUND

sizeVars   == <<fields, shown, prop>>
cropVars   == <<crop, handle, typed, left>>
turnVars   == <<degree, rdegree, angle, turns>>
resizeVars == <<stage, natural, mode, cratio, sizeVars, cropVars, turnVars, sent, drifts, moves>>

NaN    == -1
None   == [v |-> NaN, left |-> 0]
NoSize == <<NaN, NaN>>
NoRequest == [w |-> NaN, h |-> NaN, x |-> NaN, y |-> NaN, degree |-> NaN]
Rect(x, y, w, h) == [x |-> x, y |-> y, w |-> w, h |-> h]
NoData == Rect(None, None, None, None)

RoundDiv(a, b) == (2 * a + b) \div (2 * b)
CeilDiv(a, b)  == (a + b - 1) \div b

ResizeTypeOK ==
    /\ stage \in {"loading", "ready", "sent", "closed"} /\ natural \in Pictures
    /\ mode \in {"resize", "crop", "rotate"} /\ cratio \in BOOLEAN
    /\ fields \in (Nat \cup {NaN}) \X (Nat \cup {NaN}) /\ shown \in Nat \X Nat
    /\ prop[1] \in Nat /\ prop[2] \in Nat
    /\ \A f \in {"x", "y", "w", "h"} : crop[f] \in Int /\ handle[f] \in Int
    /\ degree \in 0 .. 359 /\ rdegree \in Int /\ angle \in Int /\ turns \in Seq(Int)
    /\ left \in {0, 1}
    /\ drifts \subseteq {"untaken", "typed", "stale", "slid", "overtaken"}
    /\ moves \in 0 .. MaxMoves

-----------------------------------------------------------------------------
(***************************************************************************)
(* The view of a size: what is larger than the preview is scaled down.     *)
(***************************************************************************)
ByRatio(w)  == RoundDiv(w * natural[2], natural[1])
ByHeight(h) == RoundDiv(h * natural[1], natural[2])

PictureOf(w, h) ==
    CASE w <= PreviewW /\ h <= PreviewH -> <<w, h>>
      [] w * PreviewH > h * PreviewW    -> <<PreviewW, CeilDiv(h * PreviewW, w)>>
      [] OTHER                          -> <<CeilDiv(w * PreviewH, h), PreviewH>>

UpdateView(w, h) ==
    /\ shown' = PictureOf(w, h)
    /\ prop' = <<PictureOf(w, h)[1], w>>

\* The number n of pixels of the preview, in pixels of the image.
Unscaled(n) == IF prop[1] = 0 THEN NaN ELSE RoundDiv(n * prop[2], prop[1])
Scaled(n)   == RoundDiv(n * prop[1], prop[2])

ResetView == fields' = natural /\ UpdateView(natural[1], natural[2])

-----------------------------------------------------------------------------
ResizeInit ==
    /\ stage = "loading" /\ natural \in Pictures
    /\ mode = "resize" /\ cratio = TRUE
    /\ fields = NoSize /\ shown = <<0, 0>> /\ prop = <<1, 1>>
    /\ crop = Rect(0, 0, 0, 0) /\ handle = Rect(0, 0, 0, 0) /\ typed = NoData /\ left = 0
    /\ degree = 0 /\ rdegree = 0 /\ angle = 0 /\ turns = <<>>
    /\ sent = NoRequest /\ drifts = {} /\ moves = 0

Move == stage = "ready" /\ moves < MaxMoves /\ moves' = moves + 1

Loaded ==
    /\ stage = "loading" /\ stage' = "ready"
    /\ ResetView
    /\ UNCHANGED <<natural, mode, cratio, cropVars, turnVars, sent, drifts, moves>>

Same == UNCHANGED <<stage, natural, sent>>

\* The handle has the whole picture, the fields what was typed before if anything was.
WholePicture ==
    /\ handle' = Rect(0, 0, shown'[1], shown'[2])
    /\ LET scale == prop'
           place(d, n) == IF d = None THEN n
                          ELSE RoundDiv(d.v * scale[1] + (d.left - left) * scale[2], scale[1])
           size(d, n)  == IF d.v \in {NaN, 0} THEN n ELSE d.v
       IN  crop' = Rect(place(typed.x, 0), place(typed.y, 0),
                        size(typed.w, RoundDiv(shown'[1] * scale[2], scale[1])),
                        size(typed.h, RoundDiv(shown'[2] * scale[2], scale[1])))

\* Another radio button: what the new mode needs is made anew, at natural size.
ChangeType(to) ==
    /\ Move /\ to # mode /\ mode' = to
    /\ ResetView
    /\ IF to = "crop" THEN WholePicture ELSE UNCHANGED <<crop, handle>>
    /\ drifts' = (drifts \ {"untaken"}) \cup (IF to = "crop" /\ typed # NoData THEN {"stale"} ELSE {})
    /\ Same /\ UNCHANGED <<cratio, typed, left, turnVars>>

-----------------------------------------------------------------------------
(***************************************************************************)
(* Resizing.                                                               *)
(***************************************************************************)
\* A size is typed.  With a fixed ratio the other follows; nothing happens if either is 0.
TypeSize(w, h, others) ==
    IF w > 0 /\ h > 0
    THEN fields' = <<w, h>> /\ UpdateView(w, h) /\ drifts' = drifts \ {"untaken"}
    ELSE fields' = others /\ UNCHANGED <<shown, prop>> /\ drifts' = drifts \cup {"untaken"}

TypeWidth(w) ==
    LET h == IF cratio THEN ByRatio(w) ELSE fields[2] IN
    /\ Move /\ mode = "resize"
    /\ TypeSize(w, h, <<w, fields[2]>>)
    /\ Same /\ UNCHANGED <<mode, cratio, cropVars, turnVars>>

TypeHeight(h) ==
    LET w == IF cratio THEN ByHeight(h) ELSE fields[1] IN
    /\ Move /\ mode = "resize"
    /\ TypeSize(w, h, <<fields[1], h>>)
    /\ Same /\ UNCHANGED <<mode, cratio, cropVars, turnVars>>

\* fixHeight, of a ratio that is fixed: the height follows the width, and the view both.
FixHeight(w) ==
    IF w = NaN THEN fields' = NoSize /\ prop' = <<0, 0>> /\ UNCHANGED shown
    ELSE fields' = <<w, ByRatio(w)>> /\ UpdateView(w, ByRatio(w))

ToggleRatio ==
    /\ Move /\ mode = "resize"
    /\ cratio' = ~cratio
    /\ IF cratio' THEN FixHeight(fields[1]) /\ drifts' = drifts \ {"untaken"}
       ELSE UNCHANGED <<sizeVars, drifts>>
    /\ Same /\ UNCHANGED <<mode, cropVars, turnVars>>

\* The mouse resizes the handle, and with it the picture; then it lets go.
DragHandle(w, h) ==
    /\ Move /\ mode = "resize"
    /\ IF cratio THEN FixHeight(Unscaled(w))
       ELSE shown' = <<w, h>> /\ fields' = <<Unscaled(w), Unscaled(h)>> /\ UNCHANGED prop
    /\ drifts' = drifts \ {"untaken"}
    /\ Same /\ UNCHANGED <<mode, cratio, cropVars, turnVars>>

PressReset ==
    /\ Move /\ mode = "resize"
    /\ ResetView /\ drifts' = drifts \ {"untaken"}
    /\ Same /\ UNCHANGED <<mode, cratio, cropVars, turnVars>>

-----------------------------------------------------------------------------
(***************************************************************************)
(* Cropping.                                                               *)
(***************************************************************************)
Cropping == Move /\ mode = "crop" /\ Same /\ UNCHANGED <<mode, cratio, sizeVars, turnVars>>

\* One of the four is typed, and all are drawn, wherever that is.
TypeCrop(f, n) ==
    LET r == [crop EXCEPT ![f] = n]
        data(v) == [v |-> v, left |-> left]
    IN
    /\ Cropping
    /\ crop' = r
    /\ typed' = Rect(data(r.x), data(r.y), data(r.w), data(r.h))
    /\ handle' = Rect(Scaled(r.x), Scaled(r.y), Scaled(r.w), Scaled(r.h))
    /\ drifts' = (drifts \ {"stale"}) \cup {"typed"}
    /\ UNCHANGED left

\* The mouse resizes the handle, from the right or below, or from the left or above:
\* what was typed of its place is kept all the same.
ResizeCrop(x, y, w, h) ==
    LET place(d, n) == IF d = None THEN Unscaled(n)
                       ELSE RoundDiv(d.v * prop[1] + (d.left - left) * prop[2], prop[1])
    IN
    /\ Cropping
    /\ x + w <= shown[1] /\ y + h <= shown[2]
    /\ handle' = Rect(x, y, w, h)
    /\ crop' = Rect(place(typed.x, x), place(typed.y, y), Unscaled(w), Unscaled(h))
    /\ typed' = [typed EXCEPT !.w = None, !.h = None]
    /\ drifts' = IF typed.x = None THEN drifts
                 ELSE IF <<x, y>> # <<handle.x, handle.y>> \/ typed.x.left # left
                      THEN drifts \cup {"stale"} ELSE drifts
    /\ UNCHANGED left

\* The mouse moves the handle within the picture.
DragCrop(x, y) ==
    LET size(d, n) == IF d.v \in {NaN, 0} THEN Unscaled(n) ELSE d.v IN
    /\ Cropping
    /\ x + handle.w <= shown[1] /\ y + handle.h <= shown[2]
    /\ handle' = [handle EXCEPT !.x = x, !.y = y]
    /\ crop' = Rect(Unscaled(x), Unscaled(y), size(typed.w, handle.w), size(typed.h, handle.h))
    /\ typed' = [typed EXCEPT !.x = None, !.y = None]
    /\ drifts' = IF typed.w # None /\ crop.w # Unscaled(handle.w) THEN drifts \cup {"typed"} ELSE drifts
    /\ UNCHANGED left

\* Dialogs can be moved.
MoveDialog ==
    /\ Move /\ left' = 1 - left
    /\ Same /\ UNCHANGED <<mode, cratio, sizeVars, crop, handle, typed, turnVars, drifts>>

-----------------------------------------------------------------------------
(***************************************************************************)
(* Rotating.                                                               *)
(***************************************************************************)
Rotating == Move /\ mode = "rotate" /\ Same /\ UNCHANGED <<mode, cratio, sizeVars, cropVars>>

Rotate(value, animate) ==
    /\ IF animate THEN turns' = Append(turns, value) /\ UNCHANGED angle
       ELSE angle' = value /\ UNCHANGED turns
    /\ degree' = value % 360

\* The number is taken as it is, then reduced.
TypeDegree(n) ==
    /\ Rotating
    /\ Rotate(n, TRUE) /\ rdegree' = n /\ drifts' = drifts \ {"slid", "overtaken"}

QuarterTurn(by) ==
    /\ Rotating
    /\ Rotate(rdegree + by, TRUE) /\ rdegree' = rdegree + by
    /\ drifts' = drifts \ {"slid", "overtaken"}

\* What an animation still turns overtakes the slider and the mouse.
Slide(n) ==
    /\ Rotating /\ n < 360
    /\ Rotate(n, FALSE) /\ UNCHANGED rdegree
    /\ drifts' = drifts \cup {"slid"} \cup (IF turns = <<>> THEN {} ELSE {"overtaken"})

TurnByMouse(by) ==
    /\ Rotating
    /\ Rotate(angle + by, FALSE) /\ UNCHANGED rdegree
    /\ drifts' = drifts \cup {"slid"} \cup (IF turns = <<>> THEN {} ELSE {"overtaken"})

TurnEnds ==
    /\ turns # <<>> /\ stage = "ready"
    /\ angle' = Head(turns) /\ turns' = Tail(turns)
    /\ UNCHANGED <<stage, natural, mode, cratio, sizeVars, cropVars, degree, rdegree, sent, drifts, moves>>

-----------------------------------------------------------------------------
(***************************************************************************)
(* The buttons of the dialog.                                              *)
(***************************************************************************)
OrZero(n) == IF n = NaN THEN 0 ELSE n

Request ==
    CASE mode = "resize" -> [NoRequest EXCEPT !.w = OrZero(fields[1]), !.h = OrZero(fields[2])]
      [] mode = "crop"   -> [NoRequest EXCEPT !.w = crop.w, !.h = crop.h, !.x = crop.x, !.y = crop.y]
      [] mode = "rotate" -> [NoRequest EXCEPT !.w = natural[1], !.h = natural[2], !.degree = degree]

\* save refuses what changes nothing, and sizes that are none.
Refused(r) == IF mode = "rotate" THEN r.degree \in {0, 360}
              ELSE r.w <= 0 \/ r.h <= 0 \/ <<r.w, r.h>> = natural

\* Enter asks first, the button does not; before the image is there it can be pressed, too.
Save ==
    /\ stage \in {"loading", "ready"}
    /\ IF Refused(Request) THEN UNCHANGED <<stage, sent>>
       ELSE stage' = "sent" /\ sent' = Request
    /\ UNCHANGED <<natural, mode, cratio, sizeVars, cropVars, turnVars, drifts, moves>>

Cancel ==
    /\ stage \in {"loading", "ready"} /\ stage' = "closed"
    /\ UNCHANGED <<natural, mode, cratio, sizeVars, cropVars, turnVars, sent, drifts, moves>>

ResizeNext ==
    \/ Loaded \/ ToggleRatio \/ PressReset \/ MoveDialog \/ TurnEnds \/ Save \/ Cancel
    \/ \E to \in {"resize", "crop", "rotate"} : ChangeType(to)
    \/ \E n \in Typed : \/ TypeWidth(n) \/ TypeHeight(n)
                        \/ \E f \in {"x", "y", "w", "h"} : TypeCrop(f, n)
    \/ \E w, h \in Dragged : DragHandle(w, h)
    \/ \E x, y \in 0 .. PreviewW, w, h \in Dragged : ResizeCrop(x, y, w, h)
    \/ \E x, y \in 0 .. PreviewW : DragCrop(x, y)
    \/ \E n \in Angles : TypeDegree(n) \/ Slide(n)
    \/ \E by \in {-90, 90} : QuarterTurn(by)
    \/ \E by \in Turned : TurnByMouse(by)

-----------------------------------------------------------------------------
\* The picture has the width of the fields at the scale that is shown and their
\* ratio, to a pixel; if the ratio is fixed it fits the preview, and the fields have
\* the ratio of the image.
\* Not held against the code: a size is not taken up if it or the other comes to 0
\* ("untaken"), so that an image can be sent with a height that is not its width's.
SizesTrue ==
    stage = "ready" /\ mode = "resize" /\ "untaken" \notin drifts /\ prop[1] > 0 =>
        /\ fields[1] = Unscaled(shown[1])
        /\ LET larger == IF fields[1] > fields[2] THEN fields[1] ELSE fields[2]
           IN  shown[1] * fields[2] - shown[2] * fields[1] \in (-larger) .. larger
        /\ cratio => /\ shown[1] <= PreviewW /\ shown[2] <= PreviewH
                     /\ fields[2] = ByRatio(fields[1]) \/ fields[1] = ByHeight(fields[2])

\* The rectangle that is drawn is the one in the fields, and in the image, to a pixel
\* that rounding adds.  Not held against the code: what is typed is not compared with
\* the image ("typed"), and stays in the fields when the handle is drawn anew, or
\* resized from its left, or the dialog was moved ("stale").
CropTrue ==
    stage = "ready" /\ mode = "crop" =>
        /\ "stale" \notin drifts =>
             \A f \in {"x", "y", "w", "h"} :
                handle[f] * prop[2] - crop[f] * prop[1] \in (-prop[2]) .. prop[2]
        /\ drifts \cap {"typed", "stale"} = {} =>
             /\ crop.x >= 0 /\ crop.x + crop.w <= natural[1] + 1
             /\ crop.y >= 0 /\ crop.y + crop.h <= natural[2] + 1

\* Field and slider show how far the picture is turned once animations end, and the
\* buttons go on from there.  Not held against the code: an animation overtakes the
\* slider and the mouse, and the buttons do not know what these did ("slid").
TurnsTrue ==
    LET last == IF turns = <<>> THEN angle ELSE turns[Len(turns)] IN
    /\ "overtaken" \notin drifts => last % 360 = degree
    /\ "slid" \notin drifts => rdegree % 360 = degree

\* What is requested changes the image: another size, or an angle.
SentTrue ==
    stage = "sent" => /\ sent.w > 0 /\ sent.h > 0
                      /\ <<sent.w, sent.h>> = natural <=> sent.degree \in 1 .. 359

ResizeTrue == SizesTrue /\ CropTrue /\ TurnsTrue /\ SentTrue
-----------------------------------------------------------------------------
(***************************************************************************)
(* The thumbnails of the list of files.  A file may say that it has none   *)
(* yet; one is asked for once it has a row, a few at a time, and the next  *)
(* few when the pictures of those have come to rows.  Meanwhile files come *)
(* and go, more rows are drawn, and the list is drawn anew.                *)
(***************************************************************************)

CONSTANTS
    Photos,       \* files of which the server can make thumbnails
    ShowPhotos,   \* options.showFiles
    TmbNum,       \* options.loadTmbs
    MaxPhotoSteps \* BOUND: events of the list in a behaviour

ASSUME PhotosAssumption ==
    ShowPhotos \in Nat \ {0} /\ TmbNum \in Nat \ {0} /\ MaxPhotoSteps \in Nat

VARIABLES
    onShow,    \* the files that have a row
    waiting,   \* the buffer: those that will have one
    hasTmb,    \* their tmb names a thumbnail; it is 1 in the others
    pictured,  \* rows with a thumbnail
    loads,     \* requests for thumbnails: the files, and those to ask for after them
    gaveUp,    \* HISTORY: rows that no picture was made for, or whose turn never comes
    photoSteps

photoVars == <<onShow, waiting, hasTmb, pictured, loads, gaveUp, photoSteps>>

Of(s) == {s[i] : i \in DOMAIN s}
FirstOf(s, n) == SubSeq(s, 1, IF n < Len(s) THEN n ELSE Len(s))
AfterFirst(s, n) == SubSeq(s, n + 1, Len(s))
PhotoOrders(S) == {s \in [1 .. Cardinality(S) -> S] : Of(s) = S}

PhotosInit ==
    /\ waiting \in PhotoOrders(Photos)
    /\ onShow = {} /\ hasTmb = {} /\ pictured = {} /\ loads = <<>> /\ gaveUp = {}
    /\ photoSteps = 0

PhotosTypeOK ==
    /\ onShow \subseteq Photos /\ Of(waiting) \subseteq Photos \ onShow
    /\ hasTmb \subseteq Photos /\ pictured \subseteq onShow /\ gaveUp \subseteq onShow
    /\ \A r \in Of(loads) : r.now # <<>> /\ Len(r.now) <= TmbNum

\* loadThumbnails: the requests rs, and one for the files s.
Loading(rs, s) ==
    loads' = IF s = <<>> THEN rs
             ELSE Append(rs, [now |-> FirstOf(s, TmbNum), next |-> AfterFirst(s, TmbNum)])

WithoutTmb(s) == SelectSeq(s, LAMBDA f : f \notin hasTmb)

\* render.
DrawMore ==
    LET drawn == FirstOf(waiting, ShowPhotos) IN
    /\ drawn # <<>>
    /\ onShow' = onShow \cup Of(drawn) /\ waiting' = AfterFirst(waiting, ShowPhotos)
    /\ pictured' = pictured \cup (Of(drawn) \cap hasTmb)
    /\ Loading(loads, WithoutTmb(drawn))
    /\ UNCHANGED <<hasTmb, gaveUp>>

\* content, sorted in another way: answers to requests for the old rows are to come.
DrawAnew ==
    \E s \in PhotoOrders(onShow \cup Of(waiting)) :
        LET drawn == FirstOf(s, ShowPhotos) IN
        /\ onShow' = Of(drawn) /\ waiting' = AfterFirst(s, ShowPhotos)
        /\ pictured' = Of(drawn) \cap hasTmb
        /\ Loading(loads, WithoutTmb(drawn))
        /\ gaveUp' = {} /\ UNCHANGED hasTmb

\* add: a row among the rows, or a place in the buffer if that is not empty.
AddPhoto(f, ready) ==
    /\ f \notin onShow \cup Of(waiting)
    /\ hasTmb' = IF ready THEN hasTmb \cup {f} ELSE hasTmb \ {f}
    /\ \/ /\ onShow' = onShow \cup {f}
          /\ pictured' = IF ready THEN pictured \cup {f} ELSE pictured
          /\ Loading(loads, IF ready THEN <<>> ELSE <<f>>)
          /\ UNCHANGED waiting
       \/ /\ waiting # <<>>
          /\ \E i \in 0 .. Len(waiting) :
                waiting' = SubSeq(waiting, 1, i) \o <<f>> \o AfterFirst(waiting, i)
          /\ UNCHANGED <<onShow, pictured, loads>>
    /\ UNCHANGED gaveUp

\* remove.
RemovePhoto(f) ==
    /\ f \in onShow \cup Of(waiting)
    /\ onShow' = onShow \ {f} /\ waiting' = SelectSeq(waiting, LAMBDA g : g # f)
    /\ pictured' = pictured \ {f} /\ gaveUp' = gaveUp \ {f}
    /\ UNCHANGED <<hasTmb, loads>>

\* attachThumbnails: to its row, or to the file that waits for one.
Attach(made) ==
    /\ pictured' = pictured \cup (made \cap onShow)
    /\ hasTmb' = hasTmb \cup (made \cap Of(waiting))

\* The answer to a request: the thumbnails that were made.
ThumbnailsCome(i, made) ==
    LET r == loads[i]
        others == SubSeq(loads, 1, i - 1) \o AfterFirst(loads, i)
        goesOn == made \subseteq onShow
    IN  /\ Attach(made)
        /\ Loading(others, IF goesOn THEN r.next ELSE <<>>)
        /\ gaveUp' = gaveUp \cup (onShow \cap ((Of(r.now) \ made) \cup
                                              (IF goesOn THEN {} ELSE Of(r.next))))
        /\ UNCHANGED <<onShow, waiting>>

ThumbnailsFail(i) ==
    /\ loads' = SubSeq(loads, 1, i - 1) \o AfterFirst(loads, i)
    /\ gaveUp' = gaveUp \cup (onShow \cap (Of(loads[i].now) \cup Of(loads[i].next)))
    /\ UNCHANGED <<onShow, waiting, hasTmb, pictured>>

PhotosNext ==
    \/ /\ photoSteps < MaxPhotoSteps /\ photoSteps' = photoSteps + 1
       /\ \/ DrawMore \/ DrawAnew
          \/ \E f \in Photos : RemovePhoto(f) \/ \E ready \in BOOLEAN : AddPhoto(f, ready)
    \/ \E i \in DOMAIN loads :
          /\ ThumbnailsFail(i) \/ \E made \in SUBSET Of(loads[i].now) : ThumbnailsCome(i, made)
          /\ UNCHANGED photoSteps

\* A row has its thumbnail or will have it: a request is pending, or one that goes on to
\* ask for it.  Not held against the code: the files whose turn was to come are never
\* asked for when a picture comes to a file that has no row any more, though only the
\* old API is said to stop there.
ThumbnailsShown ==
    \A f \in onShow \ (pictured \cup gaveUp) :
        \E r \in Of(loads) : f \in Of(r.now) \cup Of(r.next)
=============================================================================
