------------------------------- MODULE Notices -------------------------------
(***************************************************************************)
(* The dialog that tells what is under way.  Each request, upload and scan  *)
(* of a drop counts itself in after a delay and out when it ends; those of  *)
(* one type share a number.  While the dialog tells of anything, the page   *)
(* asks before it is left.                                                  *)
(***************************************************************************)
EXTENDS Integers, Sequences, FiniteSets

CONSTANTS
    MaxTasks,   \* BOUND: tasks in a behaviour
    Amounts     \* numbers of files of a task

ASSUME NoticeConstants == MaxTasks \in Nat /\ Amounts \subseteq Nat \ {0}

VARIABLES
    tasks,      \* what has been begun
    notices,    \* the number each type shows, 0 if it is not shown
    dialogOpen, \* whether the dialog is open
    misled      \* HISTORY: types whose number was lowered by a task that was not in it

noticeVars == <<tasks, notices, dialogOpen, misled>>

Types == {"open", "upload", "readdir"}

\* How a task is begun: a request, an upload by XMLHttpRequest, one of a dropped
\* directory, which is scanned first, and one by a form in a frame.
Kind == {"request", "xhr", "drop", "iframe"}
Task == [kind : Kind, cnt : Amounts,
         state : {"scanning", "loading", "working", "over"},
         timer : {"none", "scan", "work"},   \* what the timer will count in
         counted : {"none", "scan", "work"}, \* what it has counted in
         notify : BOOLEAN,                   \* notify of an upload: it takes itself for shown
         settled : BOOLEAN]                  \* its promise has been rejected already

NoticesTypeOK ==
    /\ tasks \in Seq(Task) /\ Len(tasks) <= MaxTasks
    /\ notices \in [Types -> Nat]
    /\ dialogOpen \in BOOLEAN /\ misled \subseteq Types

NoticesInit ==
    /\ tasks = <<>> /\ notices = [t \in Types |-> 0]
    /\ dialogOpen = FALSE /\ misled = {}

TypeOf(k, what) ==
    IF what = "scan" THEN "readdir" ELSE IF tasks[k].kind = "request" THEN "open" ELSE "upload"

-----------------------------------------------------------------------------
\* notify: a number that is not positive removes the notice.
Noted(type, delta) == IF notices[type] + delta > 0 THEN notices[type] + delta ELSE 0

notify(type, delta) ==
    /\ notices' = [notices EXCEPT ![type] = Noted(type, delta)]
    /\ dialogOpen' = IF Noted(type, delta) > 0 THEN TRUE
                     ELSE (dialogOpen /\ \E t \in Types \ {type} : notices[t] > 0)

Quietly == UNCHANGED <<notices, dialogOpen>>

\* The type is too low after a task leaves that was not counted in, and is right
\* again when nothing is shown and nothing counted.
CountedIn(ts, type) ==
    {k \in DOMAIN ts : ts[k].counted # "none"
        /\ (IF ts[k].counted = "scan" THEN "readdir"
            ELSE IF ts[k].kind = "request" THEN "open" ELSE "upload") = type}

Misled(ts, type, wrong) ==
    misled' = IF CountedIn(ts, type) = {} THEN misled \ {type}
              ELSE IF wrong THEN misled \cup {type} ELSE misled

Started(kind, cnt, state, timer) ==
    /\ Len(tasks) < MaxTasks
    /\ tasks' = Append(tasks, [kind |-> kind, cnt |-> cnt, state |-> state, timer |-> timer,
                               counted |-> "none", notify |-> FALSE, settled |-> FALSE])
    /\ Quietly /\ UNCHANGED misled

Begin(kind, cnt) ==
    IF kind = "drop" THEN Started(kind, cnt, "scanning", "scan")
                     ELSE Started(kind, cnt, "working", "work")

\* iframe: a form with the files that were chosen, or with one field for addresses that
\* were dropped, and a frame for its answer.  The frame loads an empty page first.
BeginFrame(cnt) == Started("iframe", cnt, "loading", "none")

\* load of the empty page: the form is sent, the delay begins.
FrameLoaded(k) ==
    /\ tasks[k].state = "loading"
    /\ tasks' = [tasks EXCEPT ![k].state = "working", ![k].timer = "work"]
    /\ Quietly /\ UNCHANGED misled

\* The delay is over.
Timer2(k) ==
    /\ tasks[k].timer # "none"
    /\ notify(TypeOf(k, tasks[k].timer), IF tasks[k].timer = "scan" THEN 1 ELSE tasks[k].cnt)
    /\ tasks' = [tasks EXCEPT ![k].timer = "none", ![k].counted = tasks[k].timer,
                              ![k].notify = @ \/ tasks[k].timer = "work"]
    /\ UNCHANGED misled

\* checkNotify, on progress: an upload takes the notice of another for its own.
Progress(k) ==
    /\ tasks[k].kind \in {"xhr", "drop"} /\ tasks[k].state = "working"
    /\ tasks[k].notify \/ notices["upload"] > 0
    /\ tasks' = [tasks EXCEPT ![k].notify = TRUE]
    /\ notify("upload", 0)
    /\ UNCHANGED misled

\* The directory of a drop has been read: the number is lowered, was it raised or not.
Scanned(k) ==
    /\ tasks[k].state = "scanning"
    /\ notify("readdir", -1)
    /\ \E found \in BOOLEAN :
         tasks' = [tasks EXCEPT ![k].counted = "none",
                       ![k].timer = IF found THEN "work" ELSE "none",
                       ![k].state = IF found THEN "working" ELSE "over"]
    /\ Misled(tasks', "readdir", tasks[k].counted = "none")

\* always: the timer is cleared, what was counted in is counted out.
Over(t) == [t EXCEPT !.state = "over", !.timer = "none", !.counted = "none"]

\* A task leaves, and lowers the number of its type or does not.
Leaves(k, lowers) ==
    LET type == TypeOf(k, "work")
    IN  /\ tasks' = [tasks EXCEPT ![k] = Over(tasks[k])]
        /\ IF lowers THEN notify(type, -tasks[k].cnt) ELSE Quietly
        /\ Misled(tasks', type, lowers /\ tasks[k].counted = "none")

\* A task is answered, fails or is aborted, and a drop goes well or has several groups.
\* An upload lowers the number when it
\* takes itself for shown, or when there is a notice of any upload.
End2(k) ==
    /\ tasks[k].state = "working" /\ ~tasks[k].settled /\ tasks[k].kind # "iframe"
    /\ Leaves(k, IF tasks[k].kind = "request" THEN tasks[k].counted = "work"
                 ELSE tasks[k].notify \/ notices["upload"] > 0)

\* A drop that is sent in one request and is rejected, by its answer or Escape: the
\* handler looks for the first file in the promise of the scan, and throws.
\* So nothing is counted out, nor the timer cleared.
DropFails(k) ==
    /\ tasks[k].state = "working" /\ ~tasks[k].settled /\ tasks[k].kind = "drop"
    /\ tasks' = [tasks EXCEPT ![k].state = "over", ![k].settled = TRUE]
    /\ Quietly /\ UNCHANGED misled

\* load of the answer, whatever it is: the upload is rejected.
FrameAnswered(k) ==
    /\ tasks[k].state = "working" /\ tasks[k].kind = "iframe"
    /\ Leaves(k, tasks[k].counted = "work")

\* A drop whose scan was aborted is sent all the same; nobody hears of its end.
EndSettled(k) ==
    /\ tasks[k].state = "working" /\ tasks[k].settled
    /\ tasks' = [tasks EXCEPT ![k].state = "over"]
    /\ Quietly /\ UNCHANGED misled

\* Escape is heard by every upload.  Of one that is scanned the promise is rejected
\* and fnAbort ends there: the files are not known yet.
Escape2 ==
    /\ \E k \in DOMAIN tasks : tasks[k].state = "scanning" /\ ~tasks[k].settled
    /\ tasks' = [k \in DOMAIN tasks |->
           IF tasks[k].state = "scanning" THEN [tasks[k] EXCEPT !.settled = TRUE] ELSE tasks[k]]
    /\ Quietly /\ UNCHANGED misled

NoticesNext ==
    \/ \E kind \in Kind \ {"iframe"}, cnt \in Amounts : Begin(kind, cnt)
    \/ \E cnt \in Amounts : BeginFrame(cnt)
    \/ \E k \in DOMAIN tasks :
         \/ Timer2(k) \/ Progress(k) \/ Scanned(k) \/ End2(k) \/ DropFails(k) \/ EndSettled(k)
         \/ FrameLoaded(k) \/ FrameAnswered(k)
    \/ Escape2

-----------------------------------------------------------------------------
(***************************************************************************)
(* Properties.                                                             *)
(***************************************************************************)
Sum2(S) == LET f[T \in SUBSET S] == IF T = {} THEN 0
                                   ELSE LET k == CHOOSE x \in T : TRUE IN
                                        (IF tasks[k].counted = "scan" THEN 1 ELSE tasks[k].cnt) + f[T \ {k}]
           IN f[S]

\* The page asks before it is left, and tells of a type, only if a task of the type
\* is counted in; without a task that took the notice of another for its own, the
\* number is that of all of them (notify, beforeunload).
NoticesCounted ==
    \A t \in Types :
      /\ notices[t] <= Sum2(CountedIn(tasks, t))
      /\ t \notin misled => notices[t] = Sum2(CountedIn(tasks, t))

\* The dialog is open while a notice is shown, and only then.
DialogWhileNoticed == dialogOpen <=> \E t \in Types : notices[t] > 0

\* A task that is over is not counted in, unless it is a drop that was rejected.
OverUncounted ==
    \A k \in DOMAIN tasks : tasks[k].state = "over" /\ ~tasks[k].settled
        => tasks[k].counted = "none" /\ tasks[k].timer = "none"

NoticesTrue == NoticesCounted /\ DialogWhileNoticed /\ OverUncounted
=============================================================================
