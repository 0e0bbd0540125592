-------------------------------- MODULE Pasting --------------------------------
(***************************************************************************)
(* What paste and rename do to the files on the server: what they check    *)
(* against the files that elFinder knows, what they ask before they        *)
(* replace a file, and the request that the server carries out one file    *)
(* after the other, while other windows change the same directories.  A    *)
(* hash is the path of a file, so a file is known by its directory and     *)
(* its name.                                                               *)
(***************************************************************************)
EXTENDS Integers, Sequences, FiniteSets
LOCAL INSTANCE SequencesExt

CONSTANTS
    Dir, Top,      \* directories, and the one that holds the others
    ParentOf,      \* the directory that a directory is in; Top is in itself
    FolderName,        \* the names of directories
    Name, Held, \* BOUND: names of files, and what files hold
    FirstDisks,    \* BOUND: the files there may be at first
    MaxPastes      \* BOUND: pastes, renames, and changes by other windows

ASSUME PastingAssumption ==
    /\ Top \in Dir /\ ParentOf \in [Dir -> Dir] /\ ParentOf[Top] = Top
    /\ MaxPastes \in Nat

VARIABLES
    disk,      \* the files on the server
    cwd, seen, \* the directory shown, and the files in the cache
    results,   \* what a search found is shown in its place
    pasteboard, \* files that were copied or cut, in order, and which of the two
    job,       \* the paste that is being checked, or whose question is open
    requests,  \* what the server was asked for, with the files it has yet to do
    replaced,  \* HISTORY: files that were replaced, and whether their name was known
               \* when the paste was checked, and agreed to
    gone,      \* HISTORY: what other windows removed
    pastes, others \* BOUND

pasteVars == <<disk, cwd, seen, results, pasteboard, job, requests, replaced, gone, pastes, others>>

\* A file that is empty, for nothing was written, holds "".
File == [dir : Dir, name : Name, is : Held \cup {""}]
\* A directory as an entry of the one it is in.
Subfolder(d) == [dir |-> ParentOf[d], name |-> FolderName[d], is |-> d]
Subfolders == {Subfolder(d) : d \in Dir \ {Top}}
IsFolder(f) == f \in Subfolders

NoPasteJob == [state |-> "none"]
PasteJob == [state : {"listing", "ask"}, dst : Dir, cut : BOOLEAN, files : Seq(File),
        existed : Seq(Nat), ndx : Nat, removed : SUBSET Nat]
PasteRequest == [cmd : {"paste", "rename"}, dst : Dir, cut : BOOLEAN, left : Seq(File),
            name : Name \cup {""}, known : SUBSET Name, agreed : SUBSET Name,
            added : SUBSET File, removed : SUBSET File, failed : BOOLEAN]

PastingTypeOK ==
    /\ disk \subseteq File /\ cwd \in Dir /\ seen \subseteq File /\ results \in BOOLEAN
    /\ pasteboard.files \in Seq(File \cup Subfolders) /\ pasteboard.cut \in BOOLEAN
    /\ job = NoPasteJob \/ job \in PasteJob
    /\ requests \subseteq PasteRequest
    /\ \A r \in replaced : r.file \in File /\ r.known \in BOOLEAN /\ r.agreed \in BOOLEAN
    /\ gone \subseteq Held \cup {""} /\ pastes \in 0 .. MaxPastes /\ others \in 0 .. MaxPastes

PastingInit ==
    /\ disk \in FirstDisks
    /\ cwd = Top /\ seen = {f \in disk : f.dir = Top} /\ results = FALSE
    /\ pasteboard = [files |-> <<>>, cut |-> FALSE]
    /\ job = NoPasteJob /\ requests = {} /\ replaced = {} /\ gone = {}
    /\ pastes = 0 /\ others = 0

-----------------------------------------------------------------------------
\* parents: a directory and all above it.
Parents[d \in Dir] == IF d = Top THEN {Top} ELSE {d} \cup Parents[ParentOf[d]]

\* fileByName, in a set of files.
FileByName(files, d, n) == {f \in files : f.dir = d /\ f.name = n}
Named(files, d) == {f.name : f \in {g \in files : g.dir = d}}

-----------------------------------------------------------------------------
\* Files come into the cache in the place of those of the same names.
CachedOver(files, new) ==
    {f \in files : \A g \in new : f.dir # g.dir \/ f.name # g.name} \cup new

Remembered(f) == \E i \in DOMAIN pasteboard.files :
                    pasteboard.files[i].dir = f.dir /\ pasteboard.files[i].name = f.name

\* A directory is opened: the files of the one that was shown leave the cache, but
\* for those that were copied or cut; found files of others stay.
ShowDir(d) ==
    /\ job = NoPasteJob /\ pastes + others < MaxPastes /\ (cwd # d \/ results)
    /\ cwd' = d /\ results' = FALSE
    /\ seen' = CachedOver({f \in seen : f.dir # cwd \/ Remembered(f)}, {f \in disk : f.dir = d})
    /\ UNCHANGED <<disk, pasteboard, job, requests, replaced, gone, pastes, others>>

\* A search shows all files there are.
ShowFound ==
    /\ job = NoPasteJob /\ pastes + others < MaxPastes /\ ~results
    /\ results' = TRUE /\ seen' = CachedOver(seen, disk)
    /\ UNCHANGED <<disk, cwd, pasteboard, job, requests, replaced, gone, pastes, others>>

\* copy and cut: files of the view, or a directory.
Shown == {f \in seen : results \/ f.dir = cwd}
CopyOrCut ==
    /\ job = NoPasteJob /\ pastes + others < MaxPastes
    /\ \E chosen \in {s \in SUBSET Shown : Cardinality(s) \in 1 .. 2} \cup {{f} : f \in Subfolders} :
       \E isCut \in BOOLEAN :
          pasteboard' = [files |-> SetToSeq(chosen), cut |-> isCut]
    /\ pasteboard' # pasteboard
    /\ UNCHANGED <<disk, cwd, seen, results, job, requests, replaced, gone, pastes, others>>

-----------------------------------------------------------------------------
\* A directory would come into itself, or in the place of one that holds it.
InItself(f, dst) == IsFolder(f) /\ f.is \in Parents[dst]
ReplacedByChild(f, dst) ==
    LET above == Parents[f.dir]
    IN  dst \in above /\ \E d \in above \ {Top} : ParentOf[d] = dst /\ FolderName[d] = f.name
Rejected(f, dst) == InItself(f, dst) \/ ReplacedByChild(f, dst)

\* intersect: the places of the files whose name is there.
Intersect(files, names) ==
    SelectSeq([i \in DOMAIN files |-> i], LAMBDA i : files[i].name \in names)

\* The request: without the files the user said no to.
Send(files, removed, dst, isCut, known, agreed) ==
    LET kept == SelectSeq([i \in DOMAIN files |-> i], LAMBDA i : i \notin removed)
    IN  requests' =
          IF kept = <<>> THEN requests
          ELSE requests \cup
               {[cmd |-> "paste", dst |-> dst, cut |-> isCut,
                 left |-> [i \in DOMAIN kept |-> files[kept[i]]], name |-> "",
                 known |-> known, agreed |-> agreed,
                 added |-> {}, removed |-> {}, failed |-> FALSE]}

\* With nothing left to send a paste is over, and so is what was cut.
Ends(kept, isCut) ==
    pasteboard' = IF isCut /\ kept = 0 THEN [files |-> <<>>, cut |-> FALSE] ELSE pasteboard

\* paste: files that are already there are duplicated, under names the server finds
\* unused.  Of the others, those whose names are known to be in the directory shown
\* are asked about; of another directory the server is asked first.
PasteInto(dst) ==
    LET files == pasteboard.files
        moved == SelectSeq(files, LAMBDA f : f.dir # dst)
        known == Named(seen, dst)
        existed == Intersect(moved, known)
    IN  /\ job = NoPasteJob /\ files # <<>> /\ pastes + others < MaxPastes
        /\ \A i \in DOMAIN files : ~Rejected(files[i], dst)
        /\ pastes' = pastes + 1
        /\ IF moved # <<>> /\ (dst # cwd \/ existed # <<>>)
           THEN /\ job' = [state |-> IF dst = cwd THEN "ask" ELSE "listing", dst |-> dst,
                           cut |-> pasteboard.cut, files |-> moved, existed |-> existed,
                           ndx |-> 1, removed |-> {}]
                /\ UNCHANGED <<requests, pasteboard>>
           ELSE /\ Send(moved, {}, dst, pasteboard.cut, known, {})
                /\ Ends(Len(moved), pasteboard.cut)
                /\ UNCHANGED job
        /\ UNCHANGED <<disk, cwd, seen, results, replaced, gone, others>>

\* The answer to ls: a list of files, in which paste looks for names and finds none.
Listed ==
    /\ job.state = "listing"
    /\ Send(job.files, {}, job.dst, job.cut, {}, {})
    /\ job' = NoPasteJob
    /\ UNCHANGED <<disk, cwd, seen, results, pasteboard, replaced, gone, pastes, others>>

-----------------------------------------------------------------------------
Asking == job.state = "ask"

\* What was known when the paste was checked, and what of it the user did not refuse.
Known == {job.files[job.existed[i]].name : i \in DOMAIN job.existed}
Agreed(removed) == {job.files[i].name : i \in ToSet(job.existed) \ removed}

NextQuestion(removed) ==
    IF Len(job.existed) > job.ndx
    THEN /\ job' = [job EXCEPT !.ndx = @ + 1, !.removed = removed]
         /\ UNCHANGED <<requests, pasteboard>>
    ELSE /\ Send(job.files, removed, job.dst, job.cut, Known, Agreed(removed))
         /\ Ends(Len(job.files) - Cardinality(removed), job.cut)
         /\ job' = NoPasteJob

SendAll(removed) ==
    /\ Send(job.files, removed, job.dst, job.cut, Known, Agreed(removed))
    /\ Ends(Len(job.files) - Cardinality(removed), job.cut)
    /\ job' = NoPasteJob

\* Yes, to this file or to all that are left.
Yes == /\ Asking /\ (NextQuestion(job.removed) \/ SendAll(job.removed))
       /\ UNCHANGED <<disk, cwd, seen, results, replaced, gone, pastes, others>>

No == /\ Asking
      /\ \/ NextQuestion(job.removed \cup {job.existed[job.ndx]})
         \/ SendAll(job.removed \cup {job.existed[i] : i \in job.ndx .. Len(job.existed)})
      /\ UNCHANGED <<disk, cwd, seen, results, replaced, gone, pastes, others>>

\* The button, the cross or ESC.
CancelPaste ==
    /\ Asking /\ job' = NoPasteJob /\ Ends(0, job.cut)
    /\ UNCHANGED <<disk, cwd, seen, results, requests, replaced, gone, pastes, others>>

-----------------------------------------------------------------------------
\* rename: the name must not be that of a file in the cache.
Rename(f, n) ==
    /\ job = NoPasteJob /\ pastes + others < MaxPastes /\ f \in seen /\ f.dir = cwd /\ f.name # n
    /\ FileByName(seen, f.dir, n) = {}
    /\ pastes' = pastes + 1
    /\ requests' = requests \cup
         {[cmd |-> "rename", dst |-> f.dir, cut |-> TRUE, left |-> <<f>>, name |-> n,
           known |-> Named(seen, f.dir), agreed |-> {}, added |-> {}, removed |-> {},
           failed |-> FALSE]}
    /\ UNCHANGED <<disk, cwd, seen, results, pasteboard, job, replaced, gone, others>>

\* A file takes the place of the one that has its name.
Replace(r, old, name) ==
    replaced' = replaced \cup
        {[file |-> g, known |-> name \in r.known, agreed |-> name \in r.agreed] : g \in old}

\* paste on the server: the next file.  The one to write is made first: when the
\* other is not there, an empty file stays and the request is over.
ServePaste(r) ==
    LET f    == Head(r.left)
        from == FileByName(disk, f.dir, f.name)
        old  == FileByName(disk, r.dst, f.name)
        new  == {[dir |-> r.dst, name |-> f.name, is |-> g.is] : g \in from}
        none == {[dir |-> r.dst, name |-> f.name, is |-> ""]}
    IN  /\ r.cmd = "paste" /\ r.left # <<>> /\ ~r.failed
        /\ IF from = {}
           THEN /\ disk' = IF old = {} THEN disk \cup none ELSE disk
                /\ requests' = (requests \ {r}) \cup {[r EXCEPT !.failed = TRUE]}
                /\ UNCHANGED replaced
           ELSE /\ disk' = ((disk \ old) \cup new) \ (IF r.cut THEN from ELSE {})
                /\ Replace(r, old, f.name)
                /\ requests' = (requests \ {r}) \cup
                     {[r EXCEPT !.left = Tail(@), !.added = @ \cup new,
                                !.removed = @ \cup IF r.cut THEN from ELSE {}]}
    /\ UNCHANGED <<cwd, seen, results, pasteboard, job, gone, pastes, others>>

\* rename on the server.  That it failed is not noticed: the answer tells of a file
\* with the new name whether or not there is one.
ServeRename(r) ==
    LET f    == Head(r.left)
        from == FileByName(disk, f.dir, f.name)
        old  == FileByName(disk, r.dst, r.name)
        new  == {[dir |-> r.dst, name |-> r.name, is |-> g.is] : g \in from}
    IN  /\ r.cmd = "rename" /\ r.left # <<>>
        /\ IF from = {} THEN UNCHANGED <<disk, replaced>>
           ELSE disk' = ((disk \ old) \ from) \cup new /\ Replace(r, old, r.name)
        /\ requests' = (requests \ {r}) \cup
             {[r EXCEPT !.left = <<>>, !.removed = {f},
                        !.added = {[f EXCEPT !.dir = r.dst, !.name = r.name]}]}
    /\ UNCHANGED <<cwd, seen, results, pasteboard, job, gone, pastes, others>>

\* The answer: what was added and removed comes into the cache, unless it failed.
\* A paste of files that were cut then empties the pasteboard.
PasteAnswer(r) ==
    /\ r.left = <<>> \/ r.failed
    /\ requests' = requests \ {r}
    /\ seen' = IF r.failed THEN seen
               ELSE CachedOver({f \in seen : \A g \in r.removed :
                                          f.dir # g.dir \/ f.name # g.name}, r.added)
    /\ pasteboard' = IF r.cmd = "paste" /\ r.cut THEN [files |-> <<>>, cut |-> FALSE]
                    ELSE pasteboard
    /\ UNCHANGED <<disk, cwd, results, job, replaced, gone, pastes, others>>

\* Another window removes a file, or moves it.
Elsewhere(f) ==
    /\ pastes + others < MaxPastes /\ others' = others + 1 /\ f \in disk
    /\ \/ disk' = disk \ {f} /\ gone' = gone \cup {f.is}
       \/ \E d \in Dir : /\ FileByName(disk, d, f.name) = {}
                         /\ disk' = (disk \ {f}) \cup {[f EXCEPT !.dir = d]}
                         /\ UNCHANGED gone
    /\ UNCHANGED <<cwd, seen, results, pasteboard, job, requests, replaced, pastes>>

-----------------------------------------------------------------------------
PasteUser == \/ \E d \in Dir : ShowDir(d) \/ PasteInto(d)
             \/ ShowFound \/ CopyOrCut \/ Yes \/ No \/ CancelPaste
             \/ \E f \in seen, n \in Name : Rename(f, n)
PastingNext ==
    \/ PasteUser \/ Listed
    \/ \E r \in requests : ServePaste(r) \/ ServeRename(r) \/ PasteAnswer(r)
    \/ \E f \in disk : Elsewhere(f)

PastingSpec == PastingInit /\ [][PastingNext]_pasteVars

-----------------------------------------------------------------------------
\* A file whose name was known to be there when a paste or a rename was checked is
\* replaced only with the consent of the user (exec of paste, rename).
ReplacedAsAgreed == \A r \in replaced : r.known => r.agreed

\* What a file holds is never lost by moving it: it is on the server, or was replaced
\* by a file that took its place, or another window removed it.
NothingLost ==
    \A c \in Held : \/ \E f \in disk : f.is = c
                    \/ c \in gone
                    \/ \E r \in replaced : r.file.is = c

\* Two files of a directory never share a name.
NamesApart == \A f, g \in disk : f.dir = g.dir /\ f.name = g.name => f = g

PastingTrue == ReplacedAsAgreed /\ NothingLost /\ NamesApart
=============================================================================
