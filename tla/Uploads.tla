------------------------------- MODULE Uploads -------------------------------
(***************************************************************************)
(* Uploads of elFinder over XMLHttpRequest: the files of one are cut into  *)
(* groups, one request each; with several groups the upload waits for the  *)
(* flag xhrUploading and then runs some requests at a time, each of them   *)
(* an "upload" command of its own.  DEVMaid's server sends no uplMaxSize,  *)
(* so that only the number of files begins a new group, a large file is    *)
(* cut but stays in one group, and only the first group can begin with a   *)
(* chunk (the bookkeeping of failed chunks never skips one); and it never  *)
(* answers _chunkmerged or _chunkfailure.  Files that are chosen, pasted or *)
(* dropped as files; of dropped entries there is the scan below, and in    *)
(* Notices what becomes of their notification.                             *)
(***************************************************************************)
EXTENDS Integers, Sequences, FiniteSets, SequencesExt

CONSTANTS
    FileLists,      \* what the user may choose: sequences of "small" and "large"
    UplMaxFile,     \* files of a group, 20 in the code
    MaxConnections, \* 3 in the code
    RetryLimit,     \* 3 in the code
    MaxUploads      \* BOUND: uploads the user begins

ASSUME UploadConstants ==
    /\ FileLists \subseteq Seq({"small", "large"}) /\ <<>> \notin FileLists
    /\ UplMaxFile \in Nat \ {0} /\ MaxConnections \in Nat \ {0}
    /\ RetryLimit \in Nat /\ MaxUploads \in Nat

VARIABLES
    uploads,      \* a record for each call of fm.upload by the user
    connections,  \* requests without an answer
    xhrUploading,
    row,          \* the count of the notification, 0 if there is none
    disabled,     \* _disabled of the command: a search is shown
    outcome       \* HISTORY: of each upload, what became of its groups

uploadVars == <<uploads, connections, xhrUploading, row, disabled, outcome>>

\* A request sends files, or in their place "chunkfail", which gives up the file that was
\* cut.  Nobody waits for the answer when that is sent after the upload was rejected.
Purpose == {"files", "chunkfail", "unheard"}

Upload == [todo : Seq(Nat), last : Nat, done : Nat, cnt : Nat, abort : BOOLEAN,
           stage : {"check", "multi", "single"}, state : {"pending", "resolved", "rejected"},
           notice : {"timer", "shown", "off"}, chunked : BOOLEAN]
Connection == [u : 1 .. MaxUploads, group : Nat, retry : 0 .. RetryLimit + 2, asks : Purpose]

UploadsTypeOK ==
    /\ uploads \in Seq(Upload) /\ Len(uploads) <= MaxUploads
    /\ connections \subseteq Connection
    /\ \A c, d \in connections : c.u = d.u /\ c.group = d.group => c = d
    /\ xhrUploading \in BOOLEAN /\ row \in Nat /\ disabled \in BOOLEAN
    /\ DOMAIN outcome = DOMAIN uploads

UploadsInit ==
    /\ uploads = <<>> /\ connections = {} /\ xhrUploading = FALSE
    /\ row = 0 /\ disabled = FALSE /\ outcome = <<>>

-----------------------------------------------------------------------------
\* send: how many groups there are.  The chunks of a large file are put where
\* the last file was, and the count of files begins again.
Groups(files) ==
    LET Put(g, file) ==
            CASE file = "large"     -> [g EXCEPT !.fcnt = 1]
              [] g.fcnt > UplMaxFile -> [n |-> g.n + 1, fcnt |-> 2]
              [] OTHER              -> [g EXCEPT !.fcnt = g.fcnt + 1]
    IN  FoldLeft(Put, [n |-> 1, fcnt |-> 1], files).n

\* The notification loses what the upload is said to have added.  checkNotify:
\* a row is enough, whoever made it.
Lowered(r, up, times) ==
    IF up.notice # "shown" /\ r = 0 THEN 0
    ELSE IF r <= up.cnt * times THEN 0 ELSE r - up.cnt * times

\* The requests of an upload that somebody waits for.
Of(u) == {c \in connections : c.u = u /\ c.asks # "unheard"}

\* The handler of a failure: a request that began with a chunk is used again, to give up
\* its file.  When there is one group the chunk is not seen: xhr knows whole files only.
Chunked(c) == c.asks = "files" /\ c.group = 1 /\ uploads[c.u].chunked /\ uploads[c.u].stage = "multi"
GivenUp(c) == IF Chunked(c) THEN {[c EXCEPT !.asks = "unheard"]} ELSE {}

\* MUTANT: only the start of multi sets the flag.
FlagKept(dry, flag) == flag
\* multi puts the flag down when there is nothing to begin.
FlagAfter(dry, flag) == ~dry /\ flag

\* multi, for an upload of several groups: at its start, or for the request that
\* ended.  It leaves others of the connections open, begins requests for up to n
\* groups, and counts as done what the disabled command rejects at once; when
\* there is nothing to begin the flag goes down, whoever put it up.
Multi(u, up, open, n, ended, flag, results) ==
    LET taken   == IF up.abort \/ disabled THEN 0
                   ELSE IF n < Len(up.todo) THEN n ELSE Len(up.todo)
        refused == IF disabled /\ ~up.abort THEN ToSet(up.todo) ELSE {}
        done    == up.done + ended + Cardinality(refused)
        all     == up.last <= done
        dry     == taken = 0
    IN  /\ connections' = open \cup
              {[u |-> u, group |-> up.todo[i], retry |-> 0, asks |-> "files"] : i \in 1 .. taken}
        /\ uploads' = [uploads EXCEPT ![u] =
              [up EXCEPT !.stage = "multi", !.done = done,
                         !.todo = IF refused # {} THEN <<>> ELSE SubSeq(@, taken + 1, Len(@)),
                         !.state = IF dry /\ @ = "pending" THEN "resolved" ELSE @,
                         !.notice = IF (dry \/ all) /\ @ = "timer" THEN "off" ELSE @]]
        /\ xhrUploading' = FlagAfter(dry, flag)
        /\ row' = Lowered(row, up, (IF all THEN 1 ELSE 0) + (IF dry /\ up.abort THEN 1 ELSE 0))
        /\ outcome' = [outcome EXCEPT ![u] =
              [g \in DOMAIN @ |-> IF g \in refused THEN "refused" ELSE results[g]]]

-----------------------------------------------------------------------------
\* The upload command, from its dialog or with files; xhr and send.
\* With one group the request is sent at once, with several check is asked first.
Choose ==
    /\ ~disabled /\ Len(uploads) < MaxUploads
    /\ \E files \in FileLists :
         LET u == Len(uploads) + 1  n == Groups(files) IN
         /\ uploads' = Append(uploads,
               [todo |-> [i \in 1 .. (IF n > 1 THEN n ELSE 0) |-> i], last |-> n, done |-> 0,
                cnt |-> Len(files), abort |-> FALSE, stage |-> IF n > 1 THEN "check" ELSE "single",
                state |-> "pending", notice |-> "timer", chunked |-> Head(files) = "large"])
         /\ connections' = connections \cup
               (IF n > 1 THEN {} ELSE {[u |-> u, group |-> 1, retry |-> 0, asks |-> "files"]})
         /\ outcome' = Append(outcome, [g \in 1 .. n |-> "none"])
    /\ UNCHANGED <<xhrUploading, row, disabled>>

\* check, asked again and again.
Check ==
    /\ ~xhrUploading
    /\ \E u \in DOMAIN uploads :
         /\ uploads[u].stage = "check"
         /\ Multi(u, uploads[u], connections, MaxConnections, 0, TRUE, outcome[u])
    /\ UNCHANGED disabled

\* startNotify, when its time has come.
Notify ==
    /\ \E u \in DOMAIN uploads :
         /\ uploads[u].notice = "timer"
         /\ uploads' = [uploads EXCEPT ![u].notice = "shown"]
         /\ row' = row + uploads[u].cnt
    /\ UNCHANGED <<connections, xhrUploading, disabled, outcome>>

\* done or fail, and always, of a request: the upload it belongs to goes on, or is over.
End(c, state, fate) ==
    LET up   == uploads[c.u]
        open == (connections \ {c}) \cup (IF state = "rejected" THEN GivenUp(c) ELSE {}) IN
    IF c.asks = "unheard"
    THEN connections' = connections \ {c} /\ UNCHANGED <<uploads, xhrUploading, row, outcome>>
    ELSE IF up.stage = "multi"
    THEN Multi(c.u, up, open, 1, 1, xhrUploading, [outcome[c.u] EXCEPT ![c.group] = fate])
    ELSE /\ uploads' = [uploads EXCEPT ![c.u].state = state,
                                       ![c.u].notice = IF @ = "timer" THEN "off" ELSE @]
         /\ row' = Lowered(row, up, 1)
         /\ connections' = open
         /\ outcome' = [outcome EXCEPT ![c.u][1] = fate]
         /\ UNCHANGED xhrUploading

-----------------------------------------------------------------------------
\* What a request may be answered, with a status below 400 but for the first: nothing,
\* blanks, a page, JSON that is none of an upload, an error, the files that were added.
Answers == {"status", "empty", "blank", "page", "other", "error", "added"}

Repeated == {"status", "empty"}

\* validResponse, by the rule for "upload": an error is valid, and so is a list of files.
ValidResponse(a) == a \in {"error", "added"}

\* parseUploadData: what is no JSON, and what is not valid, is an error.
ParsedError(a) == ~ValidResponse(a) \/ a = "error"

\* load.  The server takes the request that gives up a file as an upload of no
\* files, and the upload it belongs to is resolved.
Loaded ==
    /\ \E c \in connections, a \in Answers \ Repeated :
         IF ParsedError(a) THEN End(c, "rejected", "failed")
         ELSE End(c, "resolved", IF c.asks = "files" THEN "written" ELSE "given up")
    /\ UNCHANGED disabled

\* load with an HTTP status of 400 or more, or without a text: the request is sent
\* again, and in the end a chunked file is given up.
LoadedError ==
    /\ \E c \in connections :
         IF c.retry <= RetryLimit
         THEN /\ connections' = (connections \ {c}) \cup {[c EXCEPT !.retry = @ + 1]}
              /\ UNCHANGED <<uploads, xhrUploading, row, outcome>>
         ELSE IF Chunked(c)
         THEN /\ connections' = (connections \ {c}) \cup {[c EXCEPT !.retry = @ + 1, !.asks = "chunkfail"]}
              /\ UNCHANGED <<uploads, xhrUploading, row, outcome>>
         ELSE End(c, "rejected", "failed")
    /\ UNCHANGED disabled

\* error: no connection.
Failed ==
    /\ \E c \in connections : End(c, "rejected", "failed")
    /\ UNCHANGED disabled

\* ESC, or the button of the notification: every upload that is pending, and its
\* requests; after them multi is called once for each request.  One that begins with a
\* chunk is sent again to give up the file.
Escape ==
    /\ (\E u \in DOMAIN uploads : Of(u) # {}) \/ \E u \in DOMAIN uploads : uploads[u].state = "pending"
    /\ LET Hit(u) == uploads[u].state = "pending"
           Multis == {u \in DOMAIN uploads : uploads[u].stage = "multi" /\ Of(u) # {}}
           Singles == {u \in DOMAIN uploads : uploads[u].stage = "single" /\ Of(u) # {}}
           Times(u) == IF u \in Singles THEN 1
                       ELSE IF u \notin Multis THEN 0
                       ELSE (IF Hit(u) THEN Cardinality(Of(u)) ELSE 0)
                            + (IF uploads[u].last <= uploads[u].done + Cardinality(Of(u)) THEN 1 ELSE 0)
       IN  /\ uploads' = [u \in DOMAIN uploads |->
                 [uploads[u] EXCEPT !.abort = @ \/ Hit(u),
                                    !.state = IF Hit(u) THEN "rejected" ELSE @,
                                    !.todo = IF u \in Multis THEN <<>> ELSE @,
                                    !.done = IF u \in Multis THEN @ + Cardinality(Of(u)) ELSE @,
                                    !.notice = IF @ = "timer" THEN "off" ELSE @]]
           /\ row' = FoldLeft(LAMBDA r, u : Lowered(r, uploads[u], Times(u)), row,
                              [u \in DOMAIN uploads |-> u])
           /\ xhrUploading' = (xhrUploading /\ Multis = {})
           /\ outcome' = [u \in DOMAIN outcome |-> [g \in DOMAIN outcome[u] |->
                 IF \E c \in Of(u) : c.group = g THEN "aborted"
                 ELSE IF Hit(u) /\ outcome[u][g] = "none" THEN "aborted" ELSE outcome[u][g]]]
    /\ connections' = {c \in connections : c.asks = "unheard"} \cup UNION {GivenUp(c) : c \in connections}
    /\ UNCHANGED disabled

\* disableOnSearch.
ToggleSearch ==
    /\ disabled' = ~disabled
    /\ UNCHANGED <<uploads, connections, xhrUploading, row, outcome>>

UploadsNext == Choose \/ Check \/ Notify \/ Loaded \/ LoadedError \/ Failed \/ Escape \/ ToggleSearch

-----------------------------------------------------------------------------
\* The flag is up only while an upload that put it up has requests, or no later
\* upload of several groups would ever begin; no upload waits for more requests than
\* the limit; when an upload has nothing to wait for, its promise is settled and
\* each of its groups was written, or was aborted, or failed with an error shown, or is
\* one the code drops without a word (given up, or refused by the command a search
\* disabled); and the notification is gone when nothing is uploaded.  That the flag may
\* go down too early is left to ConnectionsLimited.
UploadsAccounted ==
    /\ xhrUploading => \E u \in DOMAIN uploads : uploads[u].stage = "multi" /\ Of(u) # {}
    /\ \A u \in DOMAIN uploads : Cardinality(Of(u)) <= MaxConnections
    /\ \A u \in DOMAIN uploads :
         uploads[u].stage # "check" /\ Of(u) = {} =>
           /\ uploads[u].state # "pending"
           /\ \A g \in DOMAIN outcome[u] : outcome[u][g] # "none"
           /\ "failed" \in ToSet(outcome[u]) => uploads[u].state = "rejected" \/ uploads[u].stage = "multi"
    /\ (\A u \in DOMAIN uploads : uploads[u].stage # "check" /\ Of(u) = {}) => row = 0

\* The comment "Max connection: 3": the uploads of several groups, which the flag holds back,
\* have so many requests open at most, whoever's they are.  multi puts the flag down when
\* it has no group left to send, with requests open, and a later upload begins: violated.
ConnectionsLimited ==
    Cardinality(UNION {Of(u) : u \in {v \in DOMAIN uploads : uploads[v].stage = "multi"}})
        <= MaxConnections

-----------------------------------------------------------------------------
(***************************************************************************)
(* checkFile of elFinder's uploads for what is dropped on it: files are    *)
(* taken at once, directories are read one after the other, in batches and *)
(* file by file, while a timer looks whether the reading is over.          *)
(***************************************************************************)

CONSTANTS
    Dirs,    \* directories, numbered so that one is in one of a lower number
    Listings \* listings of a directory: sequences of File, Litter and of directories

File   == 0
Litter == -1   \* desktop.ini or thumbs.db on Windows, .ds_store on a Mac

ASSUME ScanConstants ==
    Dirs \subseteq Nat \ {0} /\ Listings \subseteq Seq(Dirs \cup {File, Litter})

VARIABLES
    tree,       \* the listings; that of 0 is what is dropped
    dirctorys,  \* directories to read
    reading,    \* the directory a reader is open for, 0 if none
    listed,     \* how much of it readEntries has given
    stuck,      \* the reader has failed, and has nobody to tell
    at,         \* the entry whose file is asked for, 0 if none is
    processing,
    found,      \* files: <<directory, index>>
    unreadable, \* HISTORY: files that could not be read
    scanned     \* dfrd is resolved

scanVars == <<tree, dirctorys, reading, listed, stuck, at, processing, found, unreadable, scanned>>

IsDir(e) == e \notin {File, Litter}

\* The directories of a tree are each in one place, and not in themselves.
IsTree(t) ==
    /\ \A d \in DOMAIN t : \A i \in DOMAIN t[d] : IsDir(t[d][i]) => t[d][i] > d
    /\ \A d, e \in DOMAIN t : \A i \in DOMAIN t[d], j \in DOMAIN t[e] :
         IsDir(t[d][i]) /\ t[d][i] = t[e][j] => d = e /\ i = j

ScanTypeOK ==
    /\ tree \in [Dirs \cup {0} -> Listings]
    /\ dirctorys \in Seq(Dirs)
    /\ reading \in Dirs \cup {0}
    /\ listed \in 0 .. Len(tree[reading]) /\ at \in 0 .. Len(tree[reading])
    /\ processing \in Nat /\ stuck \in BOOLEAN
    /\ found \cup unreadable \subseteq (Dirs \cup {0}) \X Nat
    /\ scanned \in BOOLEAN

-----------------------------------------------------------------------------
DirsIn(s) == SelectSeq(s, IsDir)

\* The drop: doScan of what was dropped; the first directory is opened.
ScanInit ==
    /\ tree \in {t \in [Dirs \cup {0} -> Listings] : IsTree(t) /\ t[0] # <<>>}
    /\ found = {<<0, i>> : i \in {j \in DOMAIN tree[0] : ~IsDir(tree[0][j])}}
    /\ LET dirs == DirsIn(tree[0]) IN
       IF dirs = <<>>
       THEN reading = 0 /\ dirctorys = <<>> /\ processing = 0
       ELSE reading = Head(dirs) /\ dirctorys = Tail(dirs) /\ processing = 1
    /\ listed = 0 /\ stuck = FALSE /\ at = 0 /\ unreadable = {} /\ scanned = FALSE

\* read: directories are put aside at once, for the first file there is a wait.
\* processing counts the read itself; it is left when the entries are over.
Read(i, count) ==
    LET files == {j \in i .. Len(tree[reading]) : ~IsDir(tree[reading][j])}
        stop  == IF files = {} THEN Len(tree[reading]) + 1
                 ELSE CHOOSE j \in files : \A k \in files : j <= k
    IN  /\ dirctorys' = dirctorys \o SubSeq(tree[reading], i, stop - 1)
        /\ at' = IF files = {} THEN 0 ELSE stop
        /\ reading' = IF files = {} THEN 0 ELSE reading
        /\ listed' = IF files = {} THEN 0 ELSE listed
        /\ processing' = IF files = {} THEN count - 1 ELSE count

\* readEntries gives some entries and is called again, until it gives none.
List ==
    /\ reading # 0 /\ at = 0 /\ ~stuck
    /\ IF listed < Len(tree[reading])
       THEN /\ listed' \in listed + 1 .. Len(tree[reading])
            /\ UNCHANGED <<dirctorys, reading, at, processing>>
       ELSE \* processing++, read(0), processing--
            Read(1, processing)
    /\ UNCHANGED <<tree, stuck, found, unreadable, scanned>>

\* A directory cannot be read, or its next entries: readEntries was given no callback for it.
ListFails ==
    /\ reading # 0 /\ at = 0 /\ stuck' = TRUE
    /\ UNCHANGED <<tree, dirctorys, reading, listed, at, processing, found, unreadable, scanned>>

\* file calls back: processing--, and processing++ for the next entry.
ReadFile ==
    /\ at # 0
    /\ \/ found' = found \cup (IF tree[reading][at] = Litter THEN {} ELSE {<<reading, at>>})
          /\ UNCHANGED unreadable
       \/ unreadable' = unreadable \cup {<<reading, at>>} /\ UNCHANGED found
    /\ Read(at + 1, processing)
    /\ UNCHANGED <<tree, stuck, scanned>>

\* wait: the next directory, or the end.
Wait ==
    /\ ~scanned /\ processing = 0
    /\ IF dirctorys # <<>>
       THEN reading' = Head(dirctorys) /\ dirctorys' = Tail(dirctorys) /\ processing' = 1
            /\ UNCHANGED scanned
       ELSE scanned' = TRUE /\ UNCHANGED <<reading, dirctorys, processing>>
    /\ UNCHANGED <<tree, listed, stuck, at, found, unreadable>>

ScanNext == List \/ ListFails \/ ReadFile \/ Wait

-----------------------------------------------------------------------------
Reached[d \in Dirs \cup {0}] ==
    d = 0 \/ \E e \in Dirs \cup {0} : e < d /\ d \in ToSet(tree[e]) /\ Reached[e]

Wanted ==
    {<<d, i>> \in (Dirs \cup {0}) \X (1 .. 10) :
        /\ Reached[d] /\ i \in DOMAIN tree[d] /\ ~IsDir(tree[d][i])
        /\ tree[d][i] = Litter => d = 0}

\* What is uploaded from a drop is every file in the directories dropped, however deep,
\* but for those that cannot be read and the litter of an operating system, which is
\* uploaded only where it is dropped itself.  The count of what is being read is zero when
\* nothing is, and the scan does not end before.  So it does not end at all when a directory
\* cannot be read: it waits for ever, nothing is uploaded, and nobody is told.
ScanFindsAll ==
    /\ scanned => found \subseteq Wanted /\ Wanted \ found \subseteq unreadable
    /\ processing = (IF reading = 0 THEN 0 ELSE 1) /\ (scanned => reading = 0)
=============================================================================
