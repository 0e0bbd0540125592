---------------------------- MODULE FinderProofs ----------------------------
(***************************************************************************)
(* Proofs about Finder, for every volume and every number of clicks,       *)
(* changes and syncs.                                                      *)
(***************************************************************************)
EXTENDS Finder, IntervalTheorems, FiniteSetTheorems, TLAPS

-----------------------------------------------------------------------------
(***************************************************************************)
(* The inductive invariant.                                                *)
(***************************************************************************)

\* Until elFinder has loaded, nothing happened but that it asked for a directory; it is
\* never loaded again.
Beginning ==
    /\ ~Ready => /\ visited = <<>> /\ at = 0 /\ update /\ syncs = <<>>
                 /\ branch = NoBranch /\ deed = NoDeed
    /\ phase = "loading" => \A k \in DOMAIN queue : queue[k].by = "init"
    /\ phase = "dead" => queue = <<>>
    /\ Ready => \A k \in DOMAIN queue : queue[k].by # "init"

\* Once it has loaded it is somewhere.
Somewhere == Ready => cwd \in Dir

\* Requests are about directories, and what is done is done to files.
TargetsReal == \A k \in DOMAIN queue : queue[k].target \in Dir
DeedsReal ==
    /\ deed.cmd # "nothing" => deed.target \in Node
    /\ deed.cmd = "mkdir" => deed.target \in Dir
    /\ deed.answer # "pending" => deed.cmd # "nothing"

\* A place in the history that was gone to is asked for.
GoingThere ==
    Ready /\ "stray" \notin mishaps =>
        IF update THEN visited[at] \in {cwd, None}
        ELSE \E k \in DOMAIN queue : queue[k].by = "history" /\ queue[k].target = visited[at]

PlaceInv == TypeOK /\ Beginning /\ Somewhere /\ TargetsReal /\ DeedsReal /\ GoingThere

-----------------------------------------------------------------------------
(***************************************************************************)
(* What the handler of "remove" takes.                                     *)
(***************************************************************************)

\* One step down: what is cached of directories that have directories.
Lower(c, S) == S \cup {h \in Node : ParentOf[h] \in S /\ c[ParentOf[h]] = "dirs"}

\* So many steps can be taken.
Descent(c, removed, n, g) ==
    g = [i \in 0 .. n |-> IF i = 0 THEN removed ELSE Lower(c, g[i - 1])]

\* However many they are.
LEMMA DescentExists ==
    ASSUME NEW c, NEW removed, NEW n \in Nat
    PROVE  \E g : Descent(c, removed, n, g)
<1> DEFINE Bad == {i \in 0 .. n : ~ \E g : Descent(c, removed, i, g)}
<1>1. SUFFICES ASSUME Bad # {} PROVE FALSE
  OBVIOUS
<1>2. PICK m \in Bad : \A j \in Bad : m <= j
  <2>1. Bad \in SUBSET (0 .. n) /\ 0 \in Int /\ n \in Int
    OBVIOUS
  <2> HIDE DEF Bad
  <2> QED BY <1>1, <2>1, LeastExists
<1>3. m \in 0 .. n /\ ~ \E g : Descent(c, removed, m, g)
  BY <1>2
<1>4. CASE m = 0
  <2> DEFINE g == [i \in 0 .. 0 |-> removed]
  <2>1. g = [i \in 0 .. 0 |-> IF i = 0 THEN removed ELSE Lower(c, g[i - 1])]
    OBVIOUS
  <2> HIDE DEF g
  <2>2. Descent(c, removed, 0, g)
    BY <2>1 DEF Descent
  <2> QED BY <1>3, <1>4, <2>2
<1>5. CASE m # 0
  <2>1. m - 1 \in 0 .. n /\ ~(m <= m - 1) /\ m \in Nat
    BY <1>3, <1>5
  <2>2. m - 1 \notin Bad
    BY <1>2, <2>1
  <2>3. PICK g : Descent(c, removed, m - 1, g)
    BY <2>1, <2>2
  <2> DEFINE f == [i \in 0 .. m |-> IF i = m THEN Lower(c, g[m - 1]) ELSE g[i]]
  <2>4. ASSUME NEW i \in 0 .. m PROVE f[i] = IF i = 0 THEN removed ELSE Lower(c, f[i - 1])
    <3>1. CASE i = m
      <4>1. f[i] = Lower(c, g[m - 1])
        BY <3>1
      <4>2. i - 1 \in 0 .. m /\ i - 1 # m
        BY <1>5, <2>1, <3>1
      <4>3. f[i - 1] = g[m - 1]
        BY <3>1, <4>2
      <4> HIDE DEF f
      <4> QED BY <1>5, <3>1, <4>1, <4>3
    <3>2. CASE i # m
      <4>1. f[i] = g[i] /\ i \in 0 .. m - 1
        BY <2>1, <3>2
      <4>2. g[i] = IF i = 0 THEN removed ELSE Lower(c, g[i - 1])
        BY <2>3, <4>1 DEF Descent
      <4>3. i # 0 => i - 1 \in 0 .. m /\ i - 1 # m
        BY <2>1, <4>1
      <4>4. i # 0 => f[i - 1] = g[i - 1]
        BY <4>3
      <4> HIDE DEF f
      <4> QED BY <4>1, <4>2, <4>4
    <3> QED BY <3>1, <3>2
  <2>5. f = [i \in 0 .. m |-> f[i]]
    OBVIOUS
  <2> HIDE DEF f
  <2>6. f = [i \in 0 .. m |-> IF i = 0 THEN removed ELSE Lower(c, f[i - 1])]
    BY <2>4, <2>5
  <2>7. Descent(c, removed, m, f)
    BY <2>6 DEF Descent
  <2> QED BY <1>3, <2>7
<1> QED BY <1>4, <1>5

\* What is removed goes; what else goes lies in something that goes.
LEMMA GoneFacts ==
    ASSUME NEW c, NEW removed
    PROVE  /\ removed \subseteq Gone(c, removed)
           /\ \A h \in Gone(c, removed) : h \in removed \/ ParentOf[h] \in Gone(c, removed)
<1> DEFINE N == Cardinality(Dir)
           B == CHOOSE g : Descent(c, removed, N, g)
<1>1. N \in Nat
  BY VolumeAssumption, FS_CardinalityType
<1>2. Descent(c, removed, N, B)
  <2> HIDE DEF N
  <2> QED BY <1>1, DescentExists
<1>3. Gone(c, removed) = B[N]
  BY Zenon DEF Gone, Descent, Lower
<1> HIDE DEF N, B
<1>4. B[0] = removed /\ \A i \in 1 .. N : B[i] = Lower(c, B[i - 1])
  <2>1. ASSUME NEW i \in 0 .. N PROVE B[i] = IF i = 0 THEN removed ELSE Lower(c, B[i - 1])
    BY <1>2, <2>1 DEF Descent
  <2>2. 0 \in 0 .. N /\ \A i \in 1 .. N : i \in 0 .. N /\ i # 0
    BY <1>1
  <2> QED BY <2>1, <2>2
<1>5. ASSUME NEW j \in 0 .. N, NEW x \in B[j] PROVE x \in B[N]
  <2> DEFINE Bad == {i \in j .. N : x \notin B[i]}
  <2>1. SUFFICES ASSUME Bad # {} PROVE FALSE
    BY <1>1
  <2>2. PICK m \in Bad : \A i \in Bad : m <= i
    <3>1. Bad \in SUBSET (j .. N) /\ j \in Int /\ N \in Int
      BY <1>1
    <3> HIDE DEF Bad
    <3> QED BY <2>1, <3>1, LeastExists
  <2>3. m \in j .. N /\ x \notin B[m] /\ m # j
    BY <1>5, <2>2
  <2>4. m - 1 \in j .. N /\ ~(m <= m - 1) /\ m \in 1 .. N
    BY <1>1, <2>3
  <2>5. x \in B[m - 1]
    BY <2>2, <2>4
  <2>6. B[m] = Lower(c, B[m - 1])
    BY <1>4, <2>4
  <2> QED BY <2>3, <2>5, <2>6 DEF Lower
<1>6. ASSUME NEW h \in B[N] PROVE h \in removed \/ ParentOf[h] \in B[N]
  <2> DEFINE Has == {i \in 0 .. N : h \in B[i]}
  <2>1. PICK m \in Has : \A i \in Has : m <= i
    <3>1. Has \in SUBSET (0 .. N) /\ N \in Has /\ 0 \in Int /\ N \in Int
      BY <1>1, <1>6
    <3> HIDE DEF Has
    <3> QED BY <3>1, LeastExists
  <2>2. m \in 0 .. N /\ h \in B[m]
    BY <2>1
  <2>3. CASE m = 0
    BY <1>4, <2>2, <2>3
  <2>4. CASE m # 0
    <3>1. m \in 1 .. N /\ m - 1 \in 0 .. N /\ ~(m <= m - 1)
      BY <1>1, <2>2, <2>4
    <3>2. h \notin B[m - 1]
      BY <2>1, <3>1
    <3>3. h \in Lower(c, B[m - 1])
      BY <1>4, <2>2, <3>1
    <3>4. ParentOf[h] \in B[m - 1]
      BY <3>2, <3>3 DEF Lower
    <3> QED BY <1>5, <3>1, <3>4
  <2> QED BY <2>3, <2>4
<1>7. removed \subseteq B[N]
  <2>1. 0 \in 0 .. N
    BY <1>1
  <2> QED BY <1>4, <1>5, <2>1
<1> QED BY <1>3, <1>6, <1>7

-----------------------------------------------------------------------------
(***************************************************************************)
(* The invariant about the cache.                                          *)
(***************************************************************************)

\* Rows show files as files; those that are not about a directory show none, unless the
\* volume is a remote one.
Leads(rows) == \A h \in File : rows[h] \in {"none", "file"} /\ (~RemoteVolume => rows[h] = "none")

\* Those about the directory d show it, and of files none but its own.
Lists(rows, d) ==
    /\ rows[d] # "none"
    /\ \A h \in File :
          /\ rows[h] \in {"none", "file"}
          /\ ~RemoteVolume /\ rows[h] # "none" => ParentOf[h] = d

\* A sync asks for what its "open" asks for.
SyncsAsk ==
    \A k \in DOMAIN queue :
        queue[k].by = "sync" =>
            queue[k].sync \in DOMAIN syncs /\ syncs[queue[k].sync].target = queue[k].target

\* Answers show what they were asked for.
OpensList == \A k \in DOMAIN queue : queue[k].answer \in Rows => Lists(queue[k].answer, queue[k].target)
SyncsList ==
    \A i \in DOMAIN syncs :
        /\ syncs[i].open \in Rows => Lists(syncs[i].open, syncs[i].target)
        /\ syncs[i].parents \in Rows => Leads(syncs[i].parents)
BranchLeads == branch.answer \in Rows => Leads(branch.answer)
AnswersList == SyncsAsk /\ OpensList /\ SyncsList /\ BranchLeads

\* Nothing was excused yet.
Untouched == mishaps \cap {"sync", "removal"} = {}

\* What is shown lies in the current directory, which is cached.
ShownHere ==
    Ready /\ Untouched =>
        /\ files[cwd] # "none"
        /\ \A h \in shown : ParentOf[h] = cwd /\ files[h] # "none"

\* Files are cached as files.  On a local volume those that are cached lie in the current
\* directory and are shown, but for those that were in the clipboard.
FilesHere ==
    \A h \in File :
        /\ files[h] \in {"none", "file"}
        /\ ~RemoteVolume /\ "sync" \notin mishaps /\ files[h] # "none" =>
              Ready /\ (h \in kept \/ (ParentOf[h] = cwd /\ h \in shown))

CacheInv == PlaceInv /\ AnswersList /\ ShownHere /\ FilesHere

-----------------------------------------------------------------------------
(***************************************************************************)
(* Types.                                                                  *)
(***************************************************************************)

\* Rows are no other answer.
LEMMA AnswerKinds ==
    /\ NoAnswer \notin Rows /\ Error \notin Rows /\ NoAnswer # Error
    /\ NoAnswer \in Answer /\ Error \in Answer /\ Rows \subseteq Answer
<1>1. Root \in Node
  BY NodeAssumption DEF Node
<1>2. NoAnswer[Root] = "pending" /\ Error[Root] = "error"
  BY <1>1 DEF NoAnswer, Error
<1>3. \A rows \in Rows : rows[Root] \in {"none", "file", "dir", "dirs"}
  BY <1>1 DEF Rows, Kind
<1> QED BY <1>2, <1>3 DEF Answer

\* What the server describes are rows.
LEMMA DescribedRows ==
    ASSUME NEW d, NEW hashes
    PROVE  Described(d, hashes) \in Rows
BY DEF Described, Row, Rows, Kind

\* What it answers are rows.
LEMMA ServedRows ==
    ASSUME NEW d, NEW h, NEW tree
    PROVE  OpenRows(d, h, tree) \in Rows /\ ParentsRows(d, h) \in Rows /\ TreeRows(d, h) \in Rows
BY DescribedRows DEF OpenRows, ParentsRows, TreeRows

\* The cache stays one.
LEMMA CacheRows ==
    ASSUME NEW c \in Rows, NEW rows \in Rows, NEW S, NEW h
    PROVE  /\ Cached(c, rows) \in Rows /\ Purged(c, h, S) \in Rows
           /\ Removed(c, S) \in Rows /\ Changed(c, S, rows) \in Rows
           /\ [i \in Node |-> "none"] \in Rows
           /\ [c EXCEPT ![h] = "dir"] \in Rows
BY DEF Cached, Purged, Removed, Changed, Rows, Kind

\* What fm.cwd().hash is.
LEMMA CwdHashIs ==
    CwdHash \in {cwd, None}
BY DEF CwdHash

\* An aborted sync keeps what it knows.
LEMMA DroppedFacts ==
    ASSUME TypeOK
    PROVE  /\ Dropped \in Seq(Sync) /\ Len(Dropped) = Len(syncs) /\ DOMAIN Dropped = DOMAIN syncs
           /\ \A i \in DOMAIN syncs : /\ Dropped[i].target = syncs[i].target
                                      /\ Dropped[i].open = syncs[i].open
                                      /\ Dropped[i].parents = syncs[i].parents
<1>1. syncs \in Seq(Sync) /\ DOMAIN syncs = 1 .. Len(syncs) /\ Len(syncs) \in Nat
  BY DEF TypeOK
<1>2. ASSUME NEW i \in DOMAIN syncs
      PROVE  Dropped[i] = syncs[i] \/ Dropped[i] = [syncs[i] EXCEPT !.live = FALSE]
  BY <1>2 DEF Dropped
<1>3. ASSUME NEW i \in DOMAIN syncs PROVE Dropped[i] \in Sync
  <2>1. syncs[i] \in Sync
    BY <1>1
  <2>2. [syncs[i] EXCEPT !.live = FALSE] \in Sync
    BY <2>1 DEF Sync
  <2> QED BY <1>2, <2>1, <2>2
<1>4. DOMAIN Dropped = DOMAIN syncs /\ Dropped = [i \in DOMAIN syncs |-> Dropped[i]]
  BY DEF Dropped
<1>5. Dropped \in Seq(Sync) /\ Len(Dropped) = Len(syncs)
  BY <1>1, <1>3, <1>4
<1>6. ASSUME NEW i \in DOMAIN syncs
      PROVE  /\ Dropped[i].target = syncs[i].target /\ Dropped[i].open = syncs[i].open
             /\ Dropped[i].parents = syncs[i].parents
  <2> DEFINE s == syncs[i]
  <2>1. s \in Sync
    BY <1>1
  <2> HIDE DEF s
  <2>2. /\ [s EXCEPT !.live = FALSE].target = s.target
        /\ [s EXCEPT !.live = FALSE].open = s.open
        /\ [s EXCEPT !.live = FALSE].parents = s.parents
    BY <2>1 DEF Sync
  <2> QED BY <1>2, <2>2 DEF s
<1> QED BY <1>4, <1>5, <1>6

\* A sync that begins.
LEMMA StartedFacts ==
    ASSUME TypeOK, cwd \in Dir, StartSync
    PROVE  /\ syncs' \in Seq(Sync) /\ Len(syncs') \in 1 .. MaxSyncs
           /\ Len(syncs') = Len(syncs) + 1
           /\ \A i \in DOMAIN syncs : /\ i \in DOMAIN syncs'
                                      /\ syncs'[i].target = syncs[i].target
                                      /\ syncs'[i].open = syncs[i].open
                                      /\ syncs'[i].parents = syncs[i].parents
           /\ Len(syncs') \in DOMAIN syncs'
           /\ syncs'[Len(syncs')] = [target |-> cwd, open |-> NoAnswer, parents |-> NoAnswer,
                                     live |-> TRUE]
<1> DEFINE new == [target |-> cwd, open |-> NoAnswer, parents |-> NoAnswer, live |-> TRUE]
<1>1. new \in Sync
  BY AnswerKinds DEF Sync
<1>2. Dropped \in Seq(Sync) /\ Len(Dropped) = Len(syncs) /\ Len(syncs) \in Nat
      /\ DOMAIN Dropped = DOMAIN syncs /\ DOMAIN syncs = 1 .. Len(syncs) /\ MaxSyncs \in Nat
  BY DroppedFacts, BoundAssumption DEF TypeOK
<1>3. Len(syncs) < MaxSyncs /\ syncs' = Append(Dropped, new)
  BY DEF StartSync
<1> HIDE DEF new
<1>4. syncs' \in Seq(Sync) /\ Len(syncs') = Len(syncs) + 1
      /\ (\A i \in DOMAIN syncs : syncs'[i] = Dropped[i]) /\ syncs'[Len(syncs) + 1] = new
  BY <1>1, <1>2, <1>3
<1>5. ASSUME NEW i \in DOMAIN syncs
      PROVE  /\ i \in DOMAIN syncs' /\ syncs'[i].target = syncs[i].target
             /\ syncs'[i].open = syncs[i].open /\ syncs'[i].parents = syncs[i].parents
  <2>1. i \in DOMAIN syncs'
    BY <1>2, <1>4
  <2> QED BY <1>4, <2>1, DroppedFacts
<1>6. Len(syncs') \in 1 .. MaxSyncs /\ Len(syncs') \in DOMAIN syncs'
  BY <1>2, <1>3, <1>4
<1> QED BY <1>4, <1>5, <1>6 DEF new

\* There is one "open" request at most, and none when its answer was handled.
LEMMA TakenFacts ==
    ASSUME TypeOK, NEW k \in DOMAIN queue
    PROVE  /\ k = 1 /\ DOMAIN queue = {1} /\ Len(queue) = 1 /\ queue[k] \in Opening
           /\ Take(k) => queue' = <<>>
<1>1. queue \in Seq(Opening) /\ Len(queue) <= 1 /\ Len(queue) \in Nat
  BY DEF TypeOK
<1>2. k = 1 /\ Len(queue) = 1 /\ DOMAIN queue = {1} /\ queue[k] \in Opening
  BY <1>1
<1>3. ASSUME Take(k) PROVE queue' = <<>>
  <2>1. 1 .. Len(queue) - 1 = {}
    BY <1>2
  <2>2. queue' = [i \in {} |-> IF i < k THEN queue[i] ELSE queue[i + 1]]
    BY <1>3, <2>1 DEF Take
  <2> QED BY <2>2
<1> QED BY <1>2, <1>3

\* A request that is sent.
LEMMA SentFacts ==
    ASSUME NEW by \in Opener, NEW target \in Dir, NEW sync \in 0 .. MaxSyncs,
           Send(by, target, sync)
    PROVE  /\ queue' \in Seq(Opening) /\ Len(queue') <= 1 /\ DOMAIN queue' = {1}
           /\ queue'[1].by = by /\ queue'[1].target = target /\ queue'[1].sync = sync
           /\ queue'[1].answer = NoAnswer
<1>1. queue' = <<[by |-> by, target |-> target, sync |-> sync, answer |-> NoAnswer]>>
  BY DEF Send
<1>2. [by |-> by, target |-> target, sync |-> sync, answer |-> NoAnswer] \in Opening
  BY AnswerKinds DEF Opening
<1> QED BY <1>1, <1>2

-----------------------------------------------------------------------------
(***************************************************************************)
(* Types, step by step.                                                    *)
(***************************************************************************)

\* The history, when an "open" that is pending is aborted.
LEMMA PastFacts ==
    ASSUME TypeOK, IF Pending("history") THEN Reset(CwdHash) ELSE UNCHANGED past
    PROVE  /\ visited' \in Seq(Dir \cup {None}) /\ update' \in BOOLEAN
           /\ at' \in 0 .. Len(visited') /\ (at' = 0 => at = 0)
<1>1. CASE Pending("history")
  <2>1. visited' = <<CwdHash>> /\ at' = 1 /\ update' = TRUE
    BY <1>1 DEF Reset
  <2>2. CwdHash \in Dir \cup {None}
    BY CwdHashIs DEF TypeOK
  <2> QED BY <2>1, <2>2
<1>2. CASE ~Pending("history")
  <2>1. visited' = visited /\ at' = at /\ update' = update
    BY <1>2 DEF past
  <2> QED BY <2>1 DEF TypeOK
<1> QED BY <1>1, <1>2

\* The current directory is known while elFinder runs, and nothing else is asked for before.
LEMMA RunsSomewhere ==
    ASSUME PlaceInv
    PROVE  /\ (\E k \in DOMAIN queue : queue[k].by # "init") => Ready
           /\ syncs # <<>> \/ branch # NoBranch \/ deed # NoDeed \/ ~update => Ready
           /\ Ready => cwd \in Dir
<1>1. phase \in {"loading", "ready", "dead"}
  BY DEF PlaceInv, TypeOK
<1>2. ASSUME NEW k \in DOMAIN queue, queue[k].by # "init" PROVE Ready
  <2>1. phase # "loading"
    BY <1>2 DEF PlaceInv, Beginning
  <2>2. phase # "dead"
    BY <1>2 DEF PlaceInv, Beginning
  <2> QED BY <1>1, <2>1, <2>2 DEF Ready
<1>3. syncs # <<>> \/ branch # NoBranch \/ deed # NoDeed \/ ~update => Ready
  BY Zenon DEF PlaceInv, Beginning
<1> QED BY <1>2, <1>3 DEF PlaceInv, Somewhere

\* A request of the user, in whose place anything may be pending.
LEMMA AskTypes ==
    ASSUME PlaceInv, Ready, Abort, NEW by \in Opener, NEW d \in Dir, Send(by, d, 0),
           UNCHANGED <<disk, phase, view, clip, branch, deed>>, bounds' \in (0 .. MaxChanges) \X (0 .. MaxClicks)
    PROVE  TypeOK'
<1>1. TypeOK /\ disk' = disk /\ phase' = phase /\ files' = files /\ cwd' = cwd /\ shown' = shown
      /\ remember' = remember /\ kept' = kept /\ mishaps' = mishaps /\ branch' = branch /\ deed' = deed
  BY DEF PlaceInv, view, clip
<1>2. visited' \in Seq(Dir \cup {None}) /\ update' \in BOOLEAN
      /\ at' \in 0 .. Len(visited') /\ (at' = 0 => at = 0)
  BY <1>1, PastFacts DEF Abort
<1>3. syncs' \in Seq(Sync) /\ Len(syncs') <= MaxSyncs
  BY <1>1, DroppedFacts DEF Abort, TypeOK
<1>4. queue' \in Seq(Opening) /\ Len(queue') <= 1
  <2>1. 0 \in 0 .. MaxSyncs
    BY BoundAssumption
  <2> QED BY <2>1, SentFacts
<1>5. changes' \in 0 .. MaxChanges /\ clicks' \in 0 .. MaxClicks
  BY DEF bounds
<1> QED BY <1>1, <1>2, <1>3, <1>4, <1>5 DEF TypeOK

\* A sync that begins.
LEMMA StartTypes ==
    ASSUME PlaceInv, Ready, StartSync,
           UNCHANGED <<disk, phase, view, clip, branch>>, deed' \in Deed,
           bounds' \in (0 .. MaxChanges) \X (0 .. MaxClicks)
    PROVE  TypeOK'
<1>1. TypeOK /\ disk' = disk /\ phase' = phase /\ files' = files /\ cwd' = cwd /\ shown' = shown
      /\ remember' = remember /\ kept' = kept /\ mishaps' = mishaps /\ branch' = branch
  BY DEF PlaceInv, view, clip
<1>2. visited' \in Seq(Dir \cup {None}) /\ update' \in BOOLEAN
      /\ at' \in 0 .. Len(visited') /\ (at' = 0 => at = 0)
  BY <1>1, PastFacts DEF StartSync
<1>3. cwd \in Dir
  BY RunsSomewhere
<1>4. syncs' \in Seq(Sync) /\ Len(syncs') \in 1 .. MaxSyncs /\ Len(syncs') = Len(syncs) + 1
  BY <1>1, <1>3, StartedFacts
<1>5. queue' \in Seq(Opening) /\ Len(queue') <= 1
  <2>1. Len(syncs) + 1 \in 0 .. MaxSyncs
    BY <1>4, BoundAssumption
  <2>2. Send("sync", cwd, Len(syncs) + 1) /\ "sync" \in Opener
    BY DEF StartSync, Opener
  <2> QED BY <1>3, <2>1, <2>2, SentFacts
<1>6. changes' \in 0 .. MaxChanges /\ clicks' \in 0 .. MaxClicks
  BY DEF bounds
<1>7. Len(syncs') <= MaxSyncs
  BY <1>4, BoundAssumption
<1> QED BY <1>1, <1>2, <1>4, <1>5, <1>6, <1>7 DEF TypeOK

\* Clicks are counted.
LEMMA ClickFacts ==
    ASSUME TypeOK, Click, changes' = changes
    PROVE  Ready /\ bounds' \in (0 .. MaxChanges) \X (0 .. MaxClicks) /\ clicks' \in 0 .. MaxClicks
<1>1. clicks' \in 0 .. MaxClicks /\ changes' \in 0 .. MaxChanges
  BY BoundAssumption DEF TypeOK, Click
<1> QED BY <1>1 DEF bounds, Ready, Click

\* What the user does.
LEMMA UserTypes ==
    ASSUME PlaceInv, User
    PROVE  TypeOK'
<1> USE DEF PlaceInv
<1>1. ASSUME NEW d \in Dir, Open(d) PROVE TypeOK'
  <2>1. Ready /\ bounds' \in (0 .. MaxChanges) \X (0 .. MaxClicks)
    BY <1>1, ClickFacts DEF Open
  <2>2. Abort /\ Send("click", d, 0) /\ "click" \in Opener
        /\ UNCHANGED <<disk, phase, view, clip, branch, deed>>
    BY <1>1 DEF Open, Opener
  <2> QED BY <2>1, <2>2, AskTypes
<1>2. ASSUME NEW d \in Dir, PopState(d) PROVE TypeOK'
  <2>1. Ready /\ bounds' \in (0 .. MaxChanges) \X (0 .. MaxClicks)
    BY <1>2, ClickFacts DEF PopState
  <2>2. Abort /\ Send("popstate", d, 0) /\ "popstate" \in Opener
        /\ UNCHANGED <<disk, phase, view, clip, branch, deed>>
    BY <1>2 DEF PopState, Opener
  <2> QED BY <2>1, <2>2, AskTypes
<1>3. ASSUME NEW d \in Dir, Expand(d) PROVE TypeOK'
  <2>1. Ready /\ clicks' \in 0 .. MaxClicks /\ changes' = changes
    BY <1>3, ClickFacts DEF Expand
  <2>2. branch' \in Branch
    BY <1>3, AnswerKinds DEF Expand, Branch, NoBranch
  <2>3. UNCHANGED <<disk, phase, files, cwd, shown, remember, kept, mishaps, visited, at, update, queue, syncs, deed>>
    BY <1>3 DEF Expand, view, clip, past
  <2> QED BY <2>1, <2>2, <2>3 DEF TypeOK
<1>4. ASSUME NEW to \in Nat, Go(to) PROVE TypeOK'
  <2>1. Ready /\ clicks' \in 0 .. MaxClicks /\ changes' = changes
    BY <1>4, ClickFacts DEF Go
  <2>2. UNCHANGED <<disk, phase, files, cwd, shown, remember, kept, branch, deed>>
    BY <1>4 DEF Go, view
  <2>3. CwdHash \in Dir \cup {None}
    BY CwdHashIs DEF TypeOK
  <2>4. to \in 1 .. Len(visited) /\ visited \in Seq(Dir \cup {None}) /\ visited[to] \in Dir \cup {None}
    <3>1. to \in 1 .. Len(visited) /\ visited \in Seq(Dir \cup {None})
      BY <1>4 DEF Go, TypeOK
    <3> QED BY <3>1
  <2>5. CASE /\ visited[to] # None
             /\ IF Pending("history") THEN visited' = <<CwdHash>> /\ at' = 1 /\ update' = TRUE
                ELSE visited' = visited /\ at' = to /\ update' = FALSE
             /\ syncs' = Dropped /\ Send("history", visited[to], 0) /\ UNCHANGED mishaps
    <3>1. visited' \in Seq(Dir \cup {None}) /\ at' \in 1 .. Len(visited') /\ update' \in BOOLEAN
      <4>1. CASE Pending("history")
        <5>1. visited' = <<CwdHash>> /\ at' = 1 /\ update' = TRUE
          BY <2>5, <4>1
        <5> QED BY <2>3, <5>1
      <4>2. CASE ~Pending("history")
        BY <2>4, <2>5, <4>2
      <4> QED BY <4>1, <4>2
    <3>2. syncs' \in Seq(Sync) /\ Len(syncs') <= MaxSyncs
      BY <2>5, DroppedFacts DEF TypeOK
    <3>3. queue' \in Seq(Opening) /\ Len(queue') <= 1
      <4>1. visited[to] \in Dir /\ 0 \in 0 .. MaxSyncs /\ "history" \in Opener
        BY <2>4, <2>5, BoundAssumption DEF Opener
      <4> QED BY <2>5, <4>1, SentFacts
    <3>4. at' \in 0 .. Len(visited') /\ at' # 0
      BY <3>1
    <3> QED BY <2>1, <2>2, <2>5, <3>1, <3>2, <3>3, <3>4 DEF TypeOK
  <2>6. CASE at' = to /\ update' = FALSE /\ mishaps' = mishaps \cup {"stray"}
             /\ UNCHANGED <<visited, syncs, queue>>
    <3>1. at' \in 0 .. Len(visited') /\ at' # 0
      BY <2>4, <2>6
    <3> QED BY <2>1, <2>2, <2>6, <3>1 DEF TypeOK
  <2>7. CASE Reset(CwdHash) /\ UNCHANGED <<syncs, queue, mishaps>>
    <3>1. visited' = <<CwdHash>> /\ at' = 1 /\ update' = TRUE
      BY <2>7 DEF Reset
    <3>2. visited' \in Seq(Dir \cup {None}) /\ at' \in 0 .. Len(visited') /\ at' # 0
      BY <2>3, <3>1
    <3> QED BY <2>1, <2>2, <2>7, <3>1, <3>2 DEF TypeOK
  <2> QED BY <1>4, <2>5, <2>6, <2>7 DEF Go
<1>5. ASSUME Back \/ Forward PROVE TypeOK'
  <2>1. at + 1 \in Nat /\ (at > 1 => at - 1 \in Nat)
    BY DEF TypeOK
  <2> QED BY <1>4, <1>5, <2>1 DEF Back, Forward
<1>6. ASSUME Reload PROVE TypeOK'
  <2>1. Ready /\ bounds' \in (0 .. MaxChanges) \X (0 .. MaxClicks)
    BY <1>6, ClickFacts DEF Reload
  <2>2. StartSync /\ UNCHANGED <<disk, phase, view, clip, branch>> /\ deed' \in Deed
    BY <1>6 DEF Reload, TypeOK
  <2> QED BY <2>1, <2>2, StartTypes
<1>7. ASSUME NEW hashes \in SUBSET shown, Copy(hashes) PROVE TypeOK'
  <2>1. Ready /\ clicks' \in 0 .. MaxClicks /\ changes' = changes
    BY <1>7, ClickFacts DEF Copy
  <2>2. remember' \subseteq kept' /\ kept' \subseteq Node
    BY <1>7 DEF Copy, TypeOK
  <2>3. UNCHANGED <<disk, phase, files, cwd, shown, mishaps, visited, at, update, queue, syncs, branch, deed>>
    BY <1>7 DEF Copy, view, past
  <2> QED BY <2>1, <2>2, <2>3 DEF TypeOK
<1>8. ASSUME NEW cmd \in {"rm", "mkdir"}, NEW h \in Node, Do(cmd, h) PROVE TypeOK'
  <2>1. Ready /\ clicks' \in 0 .. MaxClicks /\ changes' = changes
    BY <1>8, ClickFacts DEF Do
  <2>2. deed' \in Deed
    BY <1>8 DEF Do, Deed, NoDeed
  <2>3. UNCHANGED <<disk, phase, files, cwd, shown, remember, kept, mishaps, visited, at, update, queue, syncs, branch>>
    BY <1>8 DEF Do, view, clip, past
  <2> QED BY <2>1, <2>2, <2>3 DEF TypeOK
<1> QED BY <1>1, <1>2, <1>3, <1>5, <1>6, <1>7, <1>8 DEF User

\* What others, and the server, do.
LEMMA ServerTypes ==
    ASSUME PlaceInv, Change \/ Serve
    PROVE  TypeOK'
<1> USE DEF PlaceInv
<1>1. ASSUME Change PROVE TypeOK'
  <2>1. changes' \in 0 .. MaxChanges /\ clicks' = clicks
    BY <1>1, BoundAssumption DEF Change, TypeOK
  <2>2. disk' \subseteq Node
    BY <1>1 DEF Change, TypeOK
  <2>3. UNCHANGED <<phase, files, cwd, shown, remember, kept, mishaps, visited, at, update, queue, syncs, branch, deed>>
    BY <1>1 DEF Change, view, clip, past
  <2> QED BY <2>1, <2>2, <2>3 DEF TypeOK
<1>2. ASSUME ServeOpen PROVE TypeOK'
  <2>1. PICK k \in DOMAIN queue, a \in Answer : queue' = [queue EXCEPT ![k].answer = a]
    BY <1>2, ServedRows, AnswerKinds DEF ServeOpen
  <2>2. queue[k] \in Opening /\ queue \in Seq(Opening) /\ Len(queue) <= 1
    BY TakenFacts DEF TypeOK
  <2>3. [queue[k] EXCEPT !.answer = a] \in Opening
    BY <2>2 DEF Opening
  <2>4. queue' = [queue EXCEPT ![k] = [queue[k] EXCEPT !.answer = a]]
    BY <2>1
  <2>5. queue' \in Seq(Opening) /\ Len(queue') <= 1
    BY <2>2, <2>3, <2>4
  <2>6. UNCHANGED <<disk, phase, files, cwd, shown, remember, kept, mishaps, visited, at, update, syncs, branch, deed,
                    changes, clicks>>
    BY <1>2 DEF ServeOpen, view, clip, past, bounds
  <2> QED BY <2>5, <2>6 DEF TypeOK
<1>3. ASSUME ServeParents PROVE TypeOK'
  <2>1. PICK i \in DOMAIN syncs, a \in Answer : syncs' = [syncs EXCEPT ![i].parents = a]
    BY <1>3, ServedRows, AnswerKinds DEF ServeParents
  <2>2. syncs[i] \in Sync /\ syncs \in Seq(Sync) /\ Len(syncs) <= MaxSyncs
    BY DEF TypeOK
  <2>3. [syncs[i] EXCEPT !.parents = a] \in Sync
    BY <2>2 DEF Sync
  <2>4. syncs' = [syncs EXCEPT ![i] = [syncs[i] EXCEPT !.parents = a]]
    BY <2>1
  <2>5. syncs' \in Seq(Sync) /\ Len(syncs') <= MaxSyncs
    BY <2>2, <2>3, <2>4
  <2>6. UNCHANGED <<disk, phase, files, cwd, shown, remember, kept, mishaps, visited, at, update, queue, branch, deed,
                    changes, clicks>>
    BY <1>3 DEF ServeParents, view, clip, past, bounds
  <2> QED BY <2>5, <2>6 DEF TypeOK
<1>4. ASSUME ServeTree PROVE TypeOK'
  <2>1. PICK a \in Answer : branch' = [branch EXCEPT !.answer = a]
    BY <1>4, ServedRows, AnswerKinds DEF ServeTree
  <2>2. branch' \in Branch
    BY <2>1 DEF TypeOK, Branch
  <2>3. UNCHANGED <<disk, phase, files, cwd, shown, remember, kept, mishaps, visited, at, update, queue, syncs, deed,
                    changes, clicks>>
    BY <1>4 DEF ServeTree, view, clip, past, bounds
  <2> QED BY <2>2, <2>3 DEF TypeOK
<1>5. ASSUME ServeDeed PROVE TypeOK'
  <2>1. deed' \in Deed
    BY <1>5 DEF ServeDeed, TypeOK, Deed
  <2>2. deed \in Deed /\ deed.cmd # "nothing"
    BY <1>5 DEF ServeDeed, TypeOK
  <2>3. deed.target \in Node
    BY <2>2 DEF DeedsReal
  <2>4. disk' \subseteq Node
    BY <1>5, <2>3 DEF ServeDeed, TypeOK
  <2>5. UNCHANGED <<phase, files, cwd, shown, remember, kept, mishaps, visited, at, update, queue, syncs, branch,
                    changes, clicks>>
    BY <1>5 DEF ServeDeed, view, clip, past, bounds
  <2> QED BY <2>1, <2>4, <2>5 DEF TypeOK
<1> QED BY <1>1, <1>2, <1>3, <1>4, <1>5 DEF Serve

\* The answer to an "open" is handled.
LEMMA OpenedTypes ==
    ASSUME PlaceInv, NEW k \in DOMAIN queue, Opened(k)
    PROVE  TypeOK'
<1> DEFINE d == queue[k].target
           rows == queue[k].answer
           old == IF queue[k].by = "init" THEN [h \in Node |-> "none"] ELSE Purged(files, cwd, remember)
           trail == IF Len(visited) > at THEN SubSeq(visited, 1, at) ELSE visited
<1>1. TypeOK /\ d \in Dir /\ rows \in Rows
  BY DEF PlaceInv, TargetsReal, Opened
<1>2. files' = Cached(old, rows) /\ cwd' = d /\ shown' = {h \in Node : rows[h] # "none" /\ ParentOf[h] = d}
      /\ Recorded(d) /\ mishaps' = mishaps \ {"removal"} /\ phase' = "ready" /\ queue' = <<>>
      /\ UNCHANGED <<disk, remember, kept, syncs, branch, deed, changes, clicks>>
  BY <1>1, TakenFacts DEF Opened, bounds
<1>3. files' \in Rows
  <2>1. old \in Rows
    BY <1>1, CacheRows DEF TypeOK
  <2> QED BY <1>1, <1>2, <2>1, CacheRows
<1>4. visited \in Seq(Dir \cup {None}) /\ at \in 0 .. Len(visited) /\ Len(visited) \in Nat /\ (~update => at # 0)
  <2>1. ~update => Ready
    BY RunsSomewhere
  <2> QED BY <1>1, <2>1 DEF TypeOK, Ready
<1>5. trail \in Seq(Dir \cup {None}) /\ Len(trail) \in Nat
  <2>1. ASSUME Len(visited) > at PROVE SubSeq(visited, 1, at) \in Seq(Dir \cup {None})
    <3>1. 1 .. at \subseteq 1 .. Len(visited) /\ at \in Nat
      BY <1>4
    <3> QED BY <1>4, <3>1
  <2> QED BY <1>4, <2>1
<1>6. visited' \in Seq(Dir \cup {None}) /\ at' \in 0 .. Len(visited') /\ at' # 0 /\ update' \in BOOLEAN
  <2>1. CASE update
    <3>1. /\ visited' = IF trail # <<>> /\ trail[Len(trail)] = d THEN trail ELSE Append(trail, d)
          /\ at' = Len(visited') /\ update' = TRUE
      BY <1>2, <2>1 DEF Recorded
    <3> HIDE DEF trail, d
    <3>2. Append(trail, d) \in Seq(Dir \cup {None}) /\ Len(Append(trail, d)) = Len(trail) + 1
      BY <1>1, <1>5
    <3>3. trail # <<>> => Len(trail) # 0
      BY <1>5
    <3> QED BY <1>5, <3>1, <3>2, <3>3
  <2>2. CASE ~update
    BY <1>2, <1>4, <2>2 DEF Recorded
  <2> QED BY <2>1, <2>2
<1>7. shown' \subseteq Node /\ cwd' \in Dir /\ mishaps' \subseteq {"sync", "removal", "stray"}
  BY <1>1, <1>2 DEF TypeOK
<1>8. queue' \in Seq(Opening) /\ Len(queue') <= 1
  BY <1>2
<1> QED BY <1>1, <1>2, <1>3, <1>6, <1>7, <1>8 DEF TypeOK

\* The other answers to an "open" are handled.
LEMMA AnswersTypes ==
    ASSUME PlaceInv, NEW k \in DOMAIN queue, InitFails(k) \/ OpenFails(k) \/ FallbackEnds(k) \/ SyncListed(k)
    PROVE  TypeOK'
<1> USE DEF PlaceInv
<1>1. /\ Take(k) => queue' = <<>> /\ queue' \in Seq(Opening) /\ Len(queue') <= 1
      /\ queue[k] \in Opening
  <2>1. queue[k] \in Opening /\ (Take(k) => queue' = <<>>)
    BY TakenFacts
  <2>2. queue' = <<>> => queue' \in Seq(Opening) /\ Len(queue') <= 1
    OBVIOUS
  <2> QED BY <2>1, <2>2
<1>2. ASSUME InitFails(k) PROVE TypeOK'
  <2>1. UNCHANGED <<disk, files, cwd, shown, remember, kept, mishaps, visited, at, update, syncs, branch, deed, changes, clicks>>
        /\ phase' = "dead"
    BY <1>2 DEF InitFails, view, clip, past, bounds
  <2> QED BY <1>1, <1>2, <2>1 DEF InitFails, TypeOK
<1>3. ASSUME OpenFails(k) PROVE TypeOK'
  <2>1. Ready
    BY <1>3, RunsSomewhere DEF OpenFails
  <2>2. bounds' \in (0 .. MaxChanges) \X (0 .. MaxClicks) /\ deed' \in Deed
    BY <1>3 DEF OpenFails, bounds, TypeOK
  <2>3. CASE StartSync
    <3>1. UNCHANGED <<disk, phase, view, clip, branch>>
      BY <1>3 DEF OpenFails
    <3> QED BY <2>1, <2>2, <2>3, <3>1, StartTypes
  <2>4. CASE /\ IF Pending("history") THEN Reset(CwdHash) ELSE UNCHANGED past
             /\ Take(k) /\ UNCHANGED syncs
    <3>1. visited' \in Seq(Dir \cup {None}) /\ update' \in BOOLEAN
          /\ at' \in 0 .. Len(visited') /\ (at' = 0 => at = 0)
      BY <2>4, PastFacts
    <3>2. UNCHANGED <<disk, phase, files, cwd, shown, remember, kept, mishaps, syncs, branch, deed, changes, clicks>>
      BY <1>3, <2>4 DEF OpenFails, view, clip, bounds
    <3> QED BY <1>1, <2>4, <3>1, <3>2 DEF TypeOK
  <2> QED BY <1>3, <2>3, <2>4 DEF OpenFails
<1>4. ASSUME FallbackEnds(k) PROVE TypeOK'
  <2>1. UNCHANGED <<disk, phase, files, cwd, shown, remember, kept, mishaps, visited, at, update, syncs, branch, deed, changes, clicks>>
    BY <1>4 DEF FallbackEnds, view, clip, past, bounds
  <2> QED BY <1>1, <1>4, <2>1 DEF FallbackEnds, TypeOK
<1>5. ASSUME SyncListed(k) PROVE TypeOK'
  <2> DEFINE i == queue[k].sync
             a == queue[k].answer
  <2>1. syncs' = [syncs EXCEPT ![i].open = a] /\ a \in Answer
    BY <1>5, AnswerKinds DEF SyncListed
  <2> HIDE DEF i, a
  <2>2. syncs \in Seq(Sync) /\ Len(syncs) <= MaxSyncs
    BY DEF TypeOK
  <2>3. syncs' \in Seq(Sync) /\ Len(syncs') <= MaxSyncs
    <3>1. CASE i \in DOMAIN syncs
      <4>1. [syncs[i] EXCEPT !.open = a] \in Sync
        <5>1. syncs[i] \in Sync
          BY <2>2, <3>1
        <5> QED BY <2>1, <5>1 DEF Sync
      <4>2. syncs' = [syncs EXCEPT ![i] = [syncs[i] EXCEPT !.open = a]]
        BY <2>1
      <4> QED BY <2>2, <3>1, <4>1, <4>2
    <3>2. CASE i \notin DOMAIN syncs
      <4>1. syncs' = syncs
        BY <2>1, <2>2, <3>2
      <4> QED BY <2>2, <4>1
    <3> QED BY <3>1, <3>2
  <2>4. UNCHANGED <<disk, phase, files, cwd, shown, remember, kept, mishaps, visited, at, update, branch, deed, changes, clicks>>
    BY <1>5 DEF SyncListed, view, clip, past, bounds
  <2> QED BY <1>1, <1>5, <2>3, <2>4 DEF SyncListed, TypeOK
<1> QED BY <1>2, <1>3, <1>4, <1>5

\* A sync fails or ends.
LEMMA SyncTypes ==
    ASSUME PlaceInv, NEW i \in DOMAIN syncs, SyncFails(i) \/ Synced(i)
    PROVE  TypeOK'
<1>1. TypeOK /\ syncs \in Seq(Sync) /\ syncs[i] \in Sync /\ Len(syncs) <= MaxSyncs
  BY DEF PlaceInv, TypeOK
<1>2. ASSUME SyncFails(i) PROVE TypeOK'
  <2>1. Dropped \in Seq(Sync) /\ Len(Dropped) = Len(syncs) /\ DOMAIN Dropped = DOMAIN syncs
    BY <1>1, DroppedFacts
  <2>2. [Dropped[i] EXCEPT !.live = FALSE] \in Sync
    <3>1. Dropped[i] \in Sync
      BY <2>1
    <3> QED BY <3>1 DEF Sync
  <2>3. syncs' = [Dropped EXCEPT ![i] = [Dropped[i] EXCEPT !.live = FALSE]]
    BY <1>2 DEF SyncFails
  <2>4. syncs' \in Seq(Sync) /\ Len(syncs') <= MaxSyncs
    BY <1>1, <2>1, <2>2, <2>3
  <2>5. visited' \in Seq(Dir \cup {None}) /\ update' \in BOOLEAN
        /\ at' \in 0 .. Len(visited') /\ (at' = 0 => at = 0)
    BY <1>1, <1>2, PastFacts DEF SyncFails
  <2>6. queue' \in Seq(Opening) /\ Len(queue') <= 1
    <3>1. PICK d \in Dir : Send("fallback", d, 0)
      BY <1>2 DEF SyncFails
    <3>2. 0 \in 0 .. MaxSyncs /\ "fallback" \in Opener
      BY BoundAssumption DEF Opener
    <3> QED BY <3>1, <3>2, SentFacts
  <2>7. UNCHANGED <<disk, phase, files, cwd, shown, remember, kept, mishaps, branch, deed, changes, clicks>>
    BY <1>2 DEF SyncFails, view, clip, bounds
  <2> QED BY <1>1, <2>4, <2>5, <2>6, <2>7 DEF TypeOK
<1>3. ASSUME Synced(i) PROVE TypeOK'
  <2> DEFINE s    == syncs[i]
             rows == Cached(s.open, s.parents)
             left == Removed(files, Missing(files, rows))
  <2>1. rows \in Rows /\ left \in Rows
    BY <1>1, <1>3, CacheRows DEF Synced, TypeOK
  <2>2. PICK S : files' = Changed(left, S, rows)
    BY <1>3 DEF Synced
  <2>3. files' \in Rows
    BY <2>1, <2>2, CacheRows
  <2>4. cwd' = cwd /\ shown' \subseteq Node /\ mishaps' \subseteq {"sync", "removal", "stray"}
    <3>1. Incoming(files, rows) \subseteq Node /\ s.target \in Node /\ Different(files, rows) \subseteq Node
      BY <1>1 DEF Incoming, Different, Node, Sync
    <3> DEFINE new == Incoming(files, rows) \cup {s.target}
               diff == Different(files, rows)
               gone == Missing(files, rows)
    <3>2. shown' = (shown \ gone) \cup {h \in new \cup diff : ParentOf[h] = CwdHash'}
      BY <1>3 DEF Synced
    <3>3. new \cup diff \subseteq Node
      BY <3>1
    <3>4. /\ cwd' = cwd
          /\ mishaps' = mishaps \cup (IF s.target # cwd THEN {"sync"} ELSE {})
                                \cup (IF left[cwd] = "none" THEN {"removal"} ELSE {})
      BY <1>3 DEF Synced
    <3> HIDE DEF new, diff, gone, s, left, rows
    <3> QED BY <1>1, <3>2, <3>3, <3>4 DEF TypeOK
  <2>5. syncs' \in Seq(Sync) /\ Len(syncs') <= MaxSyncs
    <3>1. syncs' = [syncs EXCEPT ![i] = [syncs[i] EXCEPT !.live = FALSE]]
      BY <1>3 DEF Synced
    <3>2. [syncs[i] EXCEPT !.live = FALSE] \in Sync
      BY <1>1 DEF Sync
    <3> QED BY <1>1, <3>1, <3>2
  <2>6. UNCHANGED <<disk, phase, remember, kept, visited, at, update, queue, branch, deed, changes, clicks>>
    BY <1>3 DEF Synced, past, bounds
  <2> QED BY <1>1, <2>3, <2>4, <2>5, <2>6 DEF TypeOK
<1> QED BY <1>2, <1>3

\* The rest.
LEMMA DeedTypes ==
    ASSUME PlaceInv, TreeListed \/ DeedDone \/ DeedFails
    PROVE  TypeOK'
<1>1. TypeOK
  BY DEF PlaceInv
<1>2. ASSUME TreeListed PROVE TypeOK'
  <2>1. files' \in Rows
    <3>1. branch.answer \in Answer
      BY <1>1 DEF TypeOK, Branch
    <3> QED BY <1>1, <1>2, <3>1, CacheRows DEF TreeListed, TypeOK, Answer
  <2>2. branch' \in Branch
    BY <1>2, AnswerKinds DEF TreeListed, Branch, NoBranch
  <2>3. UNCHANGED <<disk, phase, cwd, shown, remember, kept, mishaps, visited, at, update, queue, syncs, deed, changes, clicks>>
    BY <1>2 DEF TreeListed, clip, past, bounds
  <2> QED BY <1>1, <2>1, <2>2, <2>3 DEF TypeOK
<1>3. NoDeed \in Deed
  BY DEF NoDeed, Deed
<1>4. ASSUME DeedDone PROVE TypeOK'
  <2>1. files' \in Rows
    BY <1>1, <1>4, CacheRows DEF DeedDone, TypeOK
  <2>2. shown' \subseteq Node /\ mishaps' \subseteq {"sync", "removal", "stray"} /\ cwd' = cwd
    BY <1>1, <1>4 DEF DeedDone, TypeOK, Orphaned, Node
  <2>3. UNCHANGED <<disk, phase, remember, kept, visited, at, update, queue, syncs, branch, changes, clicks>> /\ deed' = NoDeed
    BY <1>4 DEF DeedDone, past, bounds
  <2> QED BY <1>1, <1>3, <2>1, <2>2, <2>3 DEF TypeOK
<1>5. ASSUME DeedFails PROVE TypeOK'
  <2>1. deed # NoDeed
    BY <1>5 DEF DeedFails, NoDeed
  <2>2. Ready
    BY <2>1, RunsSomewhere
  <2>3. bounds' \in (0 .. MaxChanges) \X (0 .. MaxClicks) /\ deed' \in Deed
    BY <1>1, <1>3, <1>5 DEF DeedFails, bounds, TypeOK
  <2>4. UNCHANGED <<disk, phase, view, clip, branch>>
    BY <1>5 DEF DeedFails
  <2>5. CASE StartSync
    BY <2>2, <2>3, <2>4, <2>5, StartTypes
  <2>6. CASE UNCHANGED <<past, queue, syncs>>
    BY <1>1, <2>3, <2>4, <2>6 DEF past, view, clip, bounds, TypeOK
  <2> QED BY <1>5, <2>5, <2>6 DEF DeedFails
<1> QED BY <1>2, <1>4, <1>5

\* Whatever happens.
LEMMA TypesStay ==
    ASSUME PlaceInv, [Next]_vars
    PROVE  TypeOK'
<1>1. CASE Next
  <2>1. CASE Handle
    BY <2>1, OpenedTypes, AnswersTypes, SyncTypes, DeedTypes DEF Handle
  <2> QED BY <1>1, <2>1, ServerTypes, UserTypes DEF Next
<1>2. CASE UNCHANGED vars
  <2>1. TypeOK
    BY DEF PlaceInv
  <2> QED BY <1>2, <2>1 DEF vars, view, clip, past, bounds, TypeOK
<1> QED BY <1>1, <1>2

-----------------------------------------------------------------------------
(***************************************************************************)
(* The invariant about places, step by step.                               *)
(***************************************************************************)

\* What is done is done to files.
LEMMA DeedsStay ==
    ASSUME PlaceInv, [Next]_vars
    PROVE  DeedsReal'
<1>1. DeedsReal /\ deed \in Deed
  BY DEF PlaceInv, TypeOK
<1>2. deed' = deed => DeedsReal'
  BY <1>1 DEF DeedsReal
<1>3. deed' = NoDeed => DeedsReal'
  BY DEF DeedsReal, NoDeed
<1>4. ASSUME NEW h \in Node, Do("rm", h) \/ Do("mkdir", h) PROVE DeedsReal'
  BY <1>4 DEF Do, DeedsReal, NoDeed
<1>5. ASSUME ServeDeed PROVE DeedsReal'
  BY <1>1, <1>5 DEF ServeDeed, DeedsReal, Deed
<1>6. CASE UNCHANGED vars
  BY <1>2, <1>6 DEF vars
<1>7. CASE Change \/ Serve
  <2>1. Change \/ ServeOpen \/ ServeParents \/ ServeTree => deed' = deed
    BY DEF Change, ServeOpen, ServeParents, ServeTree
  <2> QED BY <1>2, <1>5, <1>7, <2>1 DEF Serve
<1>8. CASE Handle
  <2>1. ASSUME NEW k \in DOMAIN queue,
               Opened(k) \/ InitFails(k) \/ OpenFails(k) \/ FallbackEnds(k) \/ SyncListed(k)
        PROVE  deed' = deed
    BY <2>1 DEF Opened, InitFails, OpenFails, FallbackEnds, SyncListed
  <2>2. ASSUME NEW i \in DOMAIN syncs, SyncFails(i) \/ Synced(i) PROVE deed' = deed
    BY <2>2 DEF SyncFails, Synced
  <2>3. TreeListed => deed' = deed
    BY DEF TreeListed
  <2>4. DeedDone \/ DeedFails => deed' = NoDeed
    BY DEF DeedDone, DeedFails
  <2> QED BY <1>2, <1>3, <1>8, <2>1, <2>2, <2>3, <2>4 DEF Handle
<1>9. CASE User
  <2>1. ASSUME NEW d \in Dir, Open(d) \/ PopState(d) \/ Expand(d) PROVE deed' = deed
    BY <2>1 DEF Open, PopState, Expand
  <2>2. Back \/ Forward \/ Reload => deed' = deed
    BY DEF Back, Forward, Go, Reload
  <2>3. ASSUME NEW hashes \in SUBSET shown, Copy(hashes) PROVE deed' = deed
    BY <2>3 DEF Copy
  <2> QED BY <1>2, <1>4, <1>9, <2>1, <2>2, <2>3 DEF User
<1> QED BY <1>6, <1>7, <1>8, <1>9 DEF Next

\* While nobody goes anywhere, the history points at the current directory.
LEMMA HereUnlessGoing ==
    ASSUME PlaceInv, Ready, "stray" \notin mishaps, ~Pending("history")
    PROVE  update /\ visited[at] \in {cwd, None}
BY DEF PlaceInv, GoingThere, Pending

\* A step that may abort the "open" that is pending and leads to no other that history sent.
LEMMA AbortKeeps ==
    ASSUME PlaceInv, TypeOK', DeedsReal', Ready, phase' = phase, cwd' = cwd, mishaps' = mishaps,
           IF Pending("history") THEN Reset(CwdHash) ELSE UNCHANGED past,
           \A k \in DOMAIN queue' : queue'[k].by \notin {"init", "history"} /\ queue'[k].target \in Dir
    PROVE  PlaceInv'
<1>1. Beginning'
  BY DEF Beginning, Ready
<1>2. Somewhere' /\ TargetsReal'
  BY DEF Somewhere, TargetsReal, Ready, PlaceInv
<1>3. GoingThere'
  <2>1. SUFFICES ASSUME "stray" \notin mishaps PROVE update' /\ visited'[at'] \in {cwd, None}
    BY DEF GoingThere, Ready
  <2>2. CASE Pending("history")
    BY <2>2, CwdHashIs DEF Reset
  <2>3. CASE ~Pending("history")
    BY <2>1, <2>3, HereUnlessGoing DEF past
  <2> QED BY <2>2, <2>3
<1> QED BY <1>1, <1>2, <1>3 DEF PlaceInv

\* A step that leaves the place, the history and where "open" requests lead to.
LEMMA StayKeeps ==
    ASSUME PlaceInv, TypeOK', DeedsReal', phase' = phase, cwd' = cwd, UNCHANGED past,
           "stray" \in mishaps => "stray" \in mishaps',
           DOMAIN queue' = DOMAIN queue,
           \A k \in DOMAIN queue : queue'[k].by = queue[k].by /\ queue'[k].target = queue[k].target,
           ~Ready => UNCHANGED <<syncs, branch, deed>>
    PROVE  PlaceInv'
<1>1. visited' = visited /\ at' = at /\ update' = update
  BY DEF past
<1>2. Beginning'
  <2>1. phase = "dead" => queue' = <<>>
    <3>1. phase = "dead" => DOMAIN queue' = {}
      BY DEF PlaceInv, Beginning
    <3>2. DOMAIN queue' = 1 .. Len(queue') /\ Len(queue') \in Nat /\ queue' \in Seq(Opening)
      BY DEF TypeOK
    <3> QED BY <3>1, <3>2
  <2>2. ~Ready' <=> ~Ready
    BY DEF Ready
  <2> QED BY <1>1, <2>1, <2>2 DEF PlaceInv, Beginning
<1>3. Somewhere' /\ TargetsReal'
  BY DEF PlaceInv, Somewhere, TargetsReal, Ready
<1>4. GoingThere'
  BY <1>1 DEF PlaceInv, GoingThere, Ready
<1> QED BY <1>2, <1>3, <1>4 DEF PlaceInv

\* A request that is sent is the only one.
LEMMA SentAlone ==
    ASSUME NEW by, NEW target, NEW sync, Send(by, target, sync)
    PROVE  /\ DOMAIN queue' = {1} /\ queue'[1].by = by /\ queue'[1].target = target
           /\ queue'[1].sync = sync /\ queue'[1].answer = NoAnswer
BY DEF Send

\* The user goes through the history.
LEMMA GoKeeps ==
    ASSUME PlaceInv, TypeOK', DeedsReal', NEW to \in Nat, Go(to)
    PROVE  PlaceInv'
<1>1. TypeOK /\ Ready /\ phase' = phase /\ cwd' = cwd /\ Ready'
  BY DEF PlaceInv, Go, Click, Ready, view
<1>2. to \in 1 .. Len(visited) /\ visited \in Seq(Dir \cup {None})
  BY <1>1 DEF Go, TypeOK
<1>3. visited[to] \in Dir \cup {None}
  BY <1>2
<1>4. Somewhere'
  BY <1>1 DEF PlaceInv, Somewhere
<1>5. CASE /\ visited[to] # None
           /\ IF Pending("history") THEN visited' = <<CwdHash>> /\ at' = 1 /\ update' = TRUE
              ELSE visited' = visited /\ at' = to /\ update' = FALSE
           /\ Send("history", visited[to], 0)
  <2>1. /\ DOMAIN queue' = {1} /\ queue'[1].by = "history" /\ queue'[1].target = visited[to]
    BY <1>5, SentAlone
  <2>2. Beginning' /\ TargetsReal'
    BY <1>1, <1>3, <1>5, <2>1 DEF Beginning, TargetsReal, Ready
  <2>3. CASE Pending("history")
    <3>1. update' /\ visited'[at'] \in {cwd, None}
      BY <1>5, <2>3, CwdHashIs
    <3> QED BY <1>1, <1>4, <2>2, <3>1 DEF PlaceInv, GoingThere
  <2>4. CASE ~Pending("history")
    <3>1. ~update' /\ visited'[at'] = visited[to]
      BY <1>5, <2>4
    <3> QED BY <1>1, <1>4, <2>1, <2>2, <3>1 DEF PlaceInv, GoingThere
  <2> QED BY <2>3, <2>4
<1>6. CASE mishaps' = mishaps \cup {"stray"} /\ UNCHANGED <<syncs, queue>>
  <2>1. Beginning' /\ TargetsReal'
    BY <1>1, <1>6 DEF PlaceInv, Beginning, TargetsReal, Ready
  <2>2. GoingThere'
    BY <1>6 DEF GoingThere
  <2> QED BY <1>4, <2>1, <2>2 DEF PlaceInv
<1>7. CASE Reset(CwdHash) /\ UNCHANGED <<syncs, queue, mishaps>>
  <2>1. Beginning' /\ TargetsReal'
    BY <1>1, <1>7 DEF PlaceInv, Beginning, TargetsReal, Ready
  <2>2. update' /\ visited'[at'] \in {cwd, None}
    BY <1>7, CwdHashIs DEF Reset
  <2>3. GoingThere'
    BY <1>1, <2>2 DEF GoingThere
  <2> QED BY <1>4, <2>1, <2>3 DEF PlaceInv
<1> QED BY <1>5, <1>6, <1>7 DEF Go

\* What the user does.
LEMMA UserPlaces ==
    ASSUME PlaceInv, User
    PROVE  PlaceInv'
<1>1. TypeOK' /\ DeedsReal'
  <2>1. Next
    BY DEF Next
  <2> QED BY <2>1, TypesStay, DeedsStay
<1>2. TypeOK
  BY DEF PlaceInv
<1>3. ASSUME NEW d \in Dir, NEW by \in {"click", "popstate"}, Click, Abort, Send(by, d, 0),
             UNCHANGED <<phase, view, clip>>
      PROVE  PlaceInv'
  <2>1. DOMAIN queue' = {1} /\ queue'[1].by = by /\ queue'[1].target = d
    BY <1>3, SentAlone
  <2>2. Ready /\ cwd' = cwd /\ mishaps' = mishaps /\ phase' = phase
    BY <1>3 DEF Click, Ready, view, clip
  <2>3. IF Pending("history") THEN Reset(CwdHash) ELSE UNCHANGED past
    BY <1>3 DEF Abort
  <2> QED BY <1>1, <2>1, <2>2, <2>3, AbortKeeps
<1>4. ASSUME NEW d \in Dir, Open(d) \/ PopState(d) PROVE PlaceInv'
  <2>1. \E by \in {"click", "popstate"} : Send(by, d, 0)
    BY <1>4 DEF Open, PopState
  <2>2. Click /\ Abort /\ UNCHANGED <<phase, view, clip>>
    BY <1>4 DEF Open, PopState
  <2> QED BY <1>3, <2>1, <2>2
<1>5. ASSUME NEW d \in Dir, Expand(d) PROVE PlaceInv'
  <2>1. Ready /\ phase' = phase /\ cwd' = cwd /\ mishaps' = mishaps /\ queue' = queue /\ UNCHANGED past
    BY <1>5 DEF Expand, Click, Ready, view, clip
  <2> QED BY <1>1, <2>1, StayKeeps
<1>6. ASSUME Back \/ Forward PROVE PlaceInv'
  <2>1. at + 1 \in Nat /\ (at > 1 => at - 1 \in Nat)
    BY <1>2 DEF TypeOK
  <2> QED BY <1>1, <1>6, <2>1, GoKeeps DEF Back, Forward
<1>7. ASSUME Reload PROVE PlaceInv'
  <2>1. Ready /\ phase' = phase /\ cwd' = cwd /\ mishaps' = mishaps /\ StartSync
    BY <1>7 DEF Reload, Click, Ready, view, clip
  <2>2. DOMAIN queue' = {1} /\ queue'[1].by = "sync" /\ queue'[1].target = cwd
    BY <2>1, SentAlone DEF StartSync
  <2>3. cwd \in Dir
    BY <2>1, RunsSomewhere
  <2>4. IF Pending("history") THEN Reset(CwdHash) ELSE UNCHANGED past
    BY <2>1 DEF StartSync
  <2> QED BY <1>1, <2>1, <2>2, <2>3, <2>4, AbortKeeps
<1>8. ASSUME NEW hashes \in SUBSET shown, Copy(hashes) PROVE PlaceInv'
  <2>1. Ready /\ phase' = phase /\ cwd' = cwd /\ mishaps' = mishaps /\ queue' = queue /\ UNCHANGED past
    BY <1>8 DEF Copy, Click, Ready, view
  <2> QED BY <1>1, <2>1, StayKeeps
<1>9. ASSUME NEW h \in Node, Do("rm", h) \/ Do("mkdir", h) PROVE PlaceInv'
  <2>1. Ready /\ phase' = phase /\ cwd' = cwd /\ mishaps' = mishaps /\ queue' = queue /\ UNCHANGED past
    BY <1>9 DEF Do, Click, Ready, view, clip
  <2> QED BY <1>1, <2>1, StayKeeps
<1> QED BY <1>4, <1>5, <1>6, <1>7, <1>8, <1>9 DEF User

\* What others, and the server, do.
LEMMA ServerPlaces ==
    ASSUME PlaceInv, Change \/ Serve
    PROVE  PlaceInv'
<1>1. TypeOK' /\ DeedsReal' /\ TypeOK
  <2>1. Next
    BY DEF Next
  <2> QED BY <2>1, TypesStay, DeedsStay DEF PlaceInv
<1>2. phase' = phase /\ cwd' = cwd /\ mishaps' = mishaps /\ UNCHANGED past
  BY DEF Change, Serve, ServeOpen, ServeParents, ServeTree, ServeDeed, view, clip
<1>3. CASE Change
  <2>1. queue' = queue /\ UNCHANGED <<syncs, branch, deed>>
    BY <1>3 DEF Change
  <2> QED BY <1>1, <1>2, <2>1, StayKeeps
<1>4. CASE ServeOpen
  <2>1. PICK k \in DOMAIN queue, a \in Answer : queue' = [queue EXCEPT ![k].answer = a]
    BY <1>4, ServedRows, AnswerKinds DEF ServeOpen
  <2>2. queue \in Seq(Opening)
    BY <1>1 DEF TypeOK
  <2>3. DOMAIN queue' = DOMAIN queue
    BY <2>1
  <2>4. ASSUME NEW j \in DOMAIN queue
        PROVE  queue'[j].by = queue[j].by /\ queue'[j].target = queue[j].target
    <3>1. queue[j] \in Opening
      BY <2>2
    <3>2. queue'[j] = queue[j] \/ queue'[j] = [queue[j] EXCEPT !.answer = a]
      BY <2>1
    <3> QED BY <3>1, <3>2 DEF Opening
  <2>5. UNCHANGED <<syncs, branch, deed>>
    BY <1>4 DEF ServeOpen
  <2> QED BY <1>1, <1>2, <2>3, <2>4, <2>5, StayKeeps
<1>5. CASE ServeParents
  <2>1. syncs # <<>> /\ queue' = queue
    BY <1>5 DEF ServeParents
  <2>2. Ready
    BY <2>1, RunsSomewhere
  <2> QED BY <1>1, <1>2, <2>1, <2>2, StayKeeps
<1>6. CASE ServeTree
  <2>1. branch # NoBranch /\ queue' = queue
    BY <1>6 DEF ServeTree, NoBranch
  <2>2. Ready
    BY <2>1, RunsSomewhere
  <2> QED BY <1>1, <1>2, <2>1, <2>2, StayKeeps
<1>7. CASE ServeDeed
  <2>1. deed # NoDeed /\ queue' = queue
    BY <1>7 DEF ServeDeed, NoDeed
  <2>2. Ready
    BY <2>1, RunsSomewhere
  <2> QED BY <1>1, <1>2, <2>1, <2>2, StayKeeps
<1> QED BY <1>3, <1>4, <1>5, <1>6, <1>7 DEF Serve

\* The trail that history keeps ends where it is.
LEMMA RecordedFacts ==
    ASSUME TypeOK, NEW d \in Dir, Recorded(d)
    PROVE  /\ update' = TRUE
           /\ update => visited'[at'] = d
           /\ ~update => visited' = visited /\ at' = at
<1>1. ASSUME update PROVE visited'[at'] = d
  <2> DEFINE trail == IF Len(visited) > at THEN SubSeq(visited, 1, at) ELSE visited
  <2>1. visited \in Seq(Dir \cup {None}) /\ at \in 0 .. Len(visited) /\ Len(visited) \in Nat
    BY DEF TypeOK
  <2>2. trail \in Seq(Dir \cup {None})
    <3>1. ASSUME Len(visited) > at PROVE SubSeq(visited, 1, at) \in Seq(Dir \cup {None})
      <4>1. 1 .. at \subseteq 1 .. Len(visited) /\ at \in Nat
        BY <2>1
      <4> QED BY <2>1, <4>1
    <3> QED BY <2>1, <3>1
  <2>3. /\ visited' = IF trail # <<>> /\ trail[Len(trail)] = d THEN trail ELSE Append(trail, d)
        /\ at' = Len(visited')
    BY <1>1 DEF Recorded
  <2> HIDE DEF trail
  <2>4. Append(trail, d)[Len(Append(trail, d))] = d
    BY <2>2
  <2> QED BY <2>3, <2>4
<1> QED BY <1>1 DEF Recorded

\* elFinder arrives.
LEMMA OpenedPlaces ==
    ASSUME PlaceInv, NEW k \in DOMAIN queue, Opened(k)
    PROVE  PlaceInv'
<1>1. TypeOK' /\ DeedsReal' /\ TypeOK
  <2>1. Next
    BY DEF Next, Handle
  <2> QED BY <2>1, TypesStay, DeedsStay DEF PlaceInv
<1> DEFINE d == queue[k].target
<1>2. d \in Dir /\ k = 1 /\ DOMAIN queue = {1} /\ queue' = <<>>
  <2>1. TargetsReal /\ Take(k)
    BY DEF PlaceInv, Opened
  <2> QED BY <1>1, <2>1, TakenFacts DEF TargetsReal
<1>3. cwd' = d /\ phase' = "ready" /\ mishaps' = mishaps \ {"removal"} /\ Recorded(d)
      /\ UNCHANGED <<syncs, branch, deed>>
  BY DEF Opened
<1>4. Beginning' /\ Somewhere' /\ TargetsReal'
  BY <1>2, <1>3 DEF Beginning, Somewhere, TargetsReal, Ready
<1>5. GoingThere'
  <2>1. SUFFICES ASSUME "stray" \notin mishaps PROVE update' /\ visited'[at'] = d
    BY <1>3 DEF GoingThere, Ready
  <2>2. CASE update
    BY <1>1, <1>2, <1>3, <2>2, RecordedFacts
  <2>3. CASE ~update
    <3>1. Ready
      BY <2>3, RunsSomewhere
    <3>2. PICK j \in DOMAIN queue : queue[j].target = visited[at]
      BY <2>1, <2>3, <3>1 DEF PlaceInv, GoingThere
    <3>3. visited[at] = d
      BY <1>2, <3>2
    <3> QED BY <1>1, <1>2, <1>3, <2>3, <3>3, RecordedFacts
  <2> QED BY <2>2, <2>3
<1> QED BY <1>1, <1>4, <1>5 DEF PlaceInv

\* An "open" was answered otherwise.
LEMMA AnswersPlaces ==
    ASSUME PlaceInv, NEW k \in DOMAIN queue, InitFails(k) \/ OpenFails(k) \/ FallbackEnds(k) \/ SyncListed(k)
    PROVE  PlaceInv'
<1>1. TypeOK' /\ DeedsReal' /\ TypeOK
  <2>1. Next
    BY DEF Next, Handle
  <2> QED BY <2>1, TypesStay, DeedsStay DEF PlaceInv
<1>2. k = 1 /\ DOMAIN queue = {1} /\ (Take(k) => queue' = <<>>)
  BY <1>1, TakenFacts
<1>3. CASE InitFails(k)
  <2>1. queue' = <<>> /\ phase' = "dead" /\ UNCHANGED <<visited, at, update, syncs, branch, deed>>
    BY <1>2, <1>3 DEF InitFails, past
  <2>2. ~Ready
    BY <1>3 DEF InitFails, PlaceInv, Beginning
  <2>3. Beginning' /\ Somewhere' /\ TargetsReal' /\ GoingThere'
    BY <2>1, <2>2 DEF PlaceInv, Beginning, Somewhere, TargetsReal, GoingThere, Ready
  <2> QED BY <1>1, <2>3 DEF PlaceInv
<1>4. CASE OpenFails(k)
  <2>1. Ready
    BY <1>4, RunsSomewhere DEF OpenFails
  <2>2. phase' = phase /\ cwd' = cwd /\ mishaps' = mishaps
    BY <1>4 DEF OpenFails, view, clip
  <2>3. IF Pending("history") THEN Reset(CwdHash) ELSE UNCHANGED past
    BY <1>4 DEF OpenFails, StartSync
  <2>4. \A j \in DOMAIN queue' : queue'[j].by \notin {"init", "history"} /\ queue'[j].target \in Dir
    <3>1. CASE StartSync
      BY <2>1, <3>1, SentAlone, RunsSomewhere DEF StartSync
    <3>2. CASE Take(k)
      BY <1>2, <3>2
    <3> QED BY <1>4, <3>1, <3>2 DEF OpenFails
  <2> QED BY <1>1, <2>1, <2>2, <2>3, <2>4, AbortKeeps
<1>5. CASE FallbackEnds(k) \/ SyncListed(k)
  <2>1. queue[k].by \in {"fallback", "sync"} /\ queue' = <<>> /\ UNCHANGED past
        /\ phase' = phase /\ cwd' = cwd /\ mishaps' = mishaps
    BY <1>2, <1>5 DEF FallbackEnds, SyncListed, view, clip
  <2>2. Ready
    BY <2>1, RunsSomewhere
  <2>3. ~Pending("history")
    BY <1>2, <2>1 DEF Pending
  <2> QED BY <1>1, <2>1, <2>2, <2>3, AbortKeeps
<1> QED BY <1>3, <1>4, <1>5

\* A sync failed or ended.
LEMMA SyncPlaces ==
    ASSUME PlaceInv, NEW i \in DOMAIN syncs, SyncFails(i) \/ Synced(i)
    PROVE  PlaceInv'
<1>1. TypeOK' /\ DeedsReal' /\ TypeOK
  <2>1. Next
    BY DEF Next, Handle
  <2> QED BY <2>1, TypesStay, DeedsStay DEF PlaceInv
<1>2. Ready
  <2>1. syncs # <<>>
    OBVIOUS
  <2> QED BY <2>1, RunsSomewhere
<1>3. CASE SyncFails(i)
  <2>1. PICK d \in Dir : Send("fallback", d, 0)
    BY <1>3 DEF SyncFails
  <2>2. DOMAIN queue' = {1} /\ queue'[1].by = "fallback" /\ queue'[1].target = d
    BY <2>1, SentAlone
  <2>3. phase' = phase /\ cwd' = cwd /\ mishaps' = mishaps
        /\ IF Pending("history") THEN Reset(CwdHash) ELSE UNCHANGED past
    BY <1>3 DEF SyncFails, view, clip
  <2> QED BY <1>1, <1>2, <2>2, <2>3, AbortKeeps
<1>4. CASE Synced(i)
  <2>1. phase' = phase /\ cwd' = cwd /\ mishaps \subseteq mishaps' /\ queue' = queue /\ UNCHANGED past
    BY <1>4 DEF Synced
  <2> QED BY <1>1, <1>2, <2>1, StayKeeps
<1> QED BY <1>3, <1>4

\* The rest.
LEMMA DeedPlaces ==
    ASSUME PlaceInv, TreeListed \/ DeedDone \/ DeedFails
    PROVE  PlaceInv'
<1>1. TypeOK' /\ DeedsReal' /\ TypeOK
  <2>1. Next
    BY DEF Next, Handle
  <2> QED BY <2>1, TypesStay, DeedsStay DEF PlaceInv
<1>2. Ready
  <2>1. branch # NoBranch \/ deed # NoDeed
    BY DEF TreeListed, DeedDone, DeedFails, NoBranch, NoDeed
  <2> QED BY <2>1, RunsSomewhere
<1>3. CASE TreeListed \/ DeedDone \/ (DeedFails /\ UNCHANGED <<past, queue, syncs>>)
  <2>1. phase' = phase /\ cwd' = cwd /\ mishaps \subseteq mishaps' /\ queue' = queue /\ UNCHANGED past
    BY <1>3 DEF TreeListed, DeedDone, DeedFails, view, clip
  <2> QED BY <1>1, <1>2, <2>1, StayKeeps
<1>4. CASE DeedFails /\ StartSync
  <2>1. phase' = phase /\ cwd' = cwd /\ mishaps' = mishaps
    BY <1>4 DEF DeedFails, view, clip
  <2>2. IF Pending("history") THEN Reset(CwdHash) ELSE UNCHANGED past
    BY <1>4 DEF StartSync
  <2>3. \A j \in DOMAIN queue' : queue'[j].by \notin {"init", "history"} /\ queue'[j].target \in Dir
    BY <1>2, <1>4, SentAlone, RunsSomewhere DEF StartSync
  <2> QED BY <1>1, <1>2, <2>1, <2>2, <2>3, AbortKeeps
<1> QED BY <1>3, <1>4 DEF DeedFails

\* Whatever happens.
LEMMA PlacesStay ==
    ASSUME PlaceInv, [Next]_vars
    PROVE  PlaceInv'
<1>1. CASE Next
  <2>1. CASE Handle
    BY <2>1, OpenedPlaces, AnswersPlaces, SyncPlaces, DeedPlaces DEF Handle
  <2> QED BY <1>1, <2>1, ServerPlaces, UserPlaces DEF Next
<1>2. CASE UNCHANGED vars
  <2>1. TypeOK' /\ DeedsReal'
    BY TypesStay, DeedsStay
  <2>2. UNCHANGED <<phase, cwd, mishaps, past, queue, syncs, branch, deed>>
    BY <1>2 DEF vars, view, clip
  <2> QED BY <2>1, <2>2, StayKeeps
<1> QED BY <1>1, <1>2

\* The invariant holds when elFinder is loaded.
LEMMA PlacesBegin ==
    ASSUME Init
    PROVE  PlaceInv
<1>1. PICK d \in Dir : queue = <<[by |-> "init", target |-> d, sync |-> 0, answer |-> NoAnswer]>>
  BY DEF Init
<1>2. TypeOK
  <2>1. 0 \in 0 .. MaxSyncs /\ 0 \in 0 .. MaxChanges /\ 0 \in 0 .. MaxClicks /\ 0 <= MaxSyncs
    BY BoundAssumption
  <2>2. [by |-> "init", target |-> d, sync |-> 0, answer |-> NoAnswer] \in Opening
    BY <2>1, AnswerKinds DEF Opening, Opener
  <2>3. queue \in Seq(Opening) /\ Len(queue) <= 1
    BY <1>1, <2>2
  <2>4. files \in Rows /\ branch \in Branch /\ deed \in Deed
    BY CacheRows, AnswerKinds DEF Init, Rows, Kind, Branch, NoBranch, Deed, NoDeed
  <2>5. visited \in Seq(Dir \cup {None}) /\ at \in 0 .. Len(visited) /\ syncs \in Seq(Sync) /\ Len(syncs) = 0
    BY DEF Init
  <2> QED BY <2>1, <2>3, <2>4, <2>5 DEF Init, TypeOK
<1>3. Beginning /\ Somewhere /\ TargetsReal /\ GoingThere
  BY <1>1 DEF Init, Beginning, Somewhere, TargetsReal, GoingThere, Ready
<1>4. DeedsReal
  BY DEF Init, NoDeed, DeedsReal
<1> QED BY <1>2, <1>3, <1>4 DEF PlaceInv

\* elFinder is somewhere, its history knows where, and its requests are about directories.
THEOREM PlaceInvariant == Spec => []PlaceInv
<1>1. Init => PlaceInv
  BY PlacesBegin
<1>2. PlaceInv /\ [Next]_vars => PlaceInv'
  BY PlacesStay
<1> QED BY <1>1, <1>2, PTL DEF Spec

\* Every variable keeps its type: one "open" request at most is pending, and the place in
\* the history is one of it (elFinder.history, request).
THEOREM TypeCorrect == Spec => []TypeOK
<1>1. PlaceInv => TypeOK
  BY DEF PlaceInv
<1> QED BY <1>1, PlaceInvariant, PTL

\* However requests abort each other and fail, the history points at the current directory
\* or an "open" that it sent is on its way (elFinder.history).
THEOREM HistoryStays == Spec => []HistoryAtCwd
<1>1. PlaceInv => HistoryAtCwd
  BY DEF PlaceInv, GoingThere, HistoryAtCwd, Pending
<1> QED BY <1>1, PlaceInvariant, PTL

-----------------------------------------------------------------------------
(***************************************************************************)
(* Where elFinder is, as Navigation promises.                              *)
(***************************************************************************)

\* Where the user asked to go.
LEMMA HeadingIs ==
    ASSUME TypeOK
    PROVE  /\ \A k \in Asked : Heading = queue[k].target
           /\ Asked = {} => Heading = None
<1>1. ASSUME NEW k \in Asked PROVE Heading = queue[k].target
  <2>1. k \in DOMAIN queue
    BY DEF Asked
  <2>2. k = 1 /\ DOMAIN queue = {1}
    BY <2>1, TakenFacts
  <2>3. Asked = {1}
    BY <2>2 DEF Asked
  <2>4. (CHOOSE x \in Asked : \A j \in Asked : j <= x) = 1
    BY <2>3
  <2> QED BY <2>2, <2>3, <2>4 DEF Heading
<1>2. Asked = {} => Heading = None
  BY DEF Heading
<1> QED BY <1>1, <1>2

\* It is a directory, or nowhere.
LEMMA HeadingReal ==
    ASSUME PlaceInv
    PROVE  Heading \in Dir \cup {None}
<1>1. TypeOK /\ TargetsReal
  BY DEF PlaceInv
<1>2. CASE Asked = {}
  BY <1>1, <1>2, HeadingIs
<1>3. CASE Asked # {}
  <2>1. PICK k \in Asked : TRUE
    BY <1>3
  <2>2. k \in DOMAIN queue
    BY <2>1 DEF Asked
  <2> QED BY <1>1, <2>1, <2>2, HeadingIs DEF TargetsReal
<1> QED BY <1>2, <1>3

\* Only the answer to an "open" leads elsewhere.
LEMMA PlaceKept ==
    ASSUME Next
    PROVE  cwd' = cwd \/ \E k \in DOMAIN queue : Opened(k)
<1>1. Change \/ Serve => cwd' = cwd
  BY DEF Change, Serve, ServeOpen, ServeParents, ServeTree, ServeDeed, view
<1>2. ASSUME Handle PROVE cwd' = cwd \/ \E k \in DOMAIN queue : Opened(k)
  <2>1. ASSUME NEW k \in DOMAIN queue, InitFails(k) \/ OpenFails(k) \/ FallbackEnds(k) \/ SyncListed(k)
        PROVE  cwd' = cwd
    BY <2>1 DEF InitFails, OpenFails, FallbackEnds, SyncListed, view
  <2>2. ASSUME NEW i \in DOMAIN syncs, SyncFails(i) \/ Synced(i) PROVE cwd' = cwd
    BY <2>2 DEF SyncFails, Synced, view
  <2>3. TreeListed \/ DeedDone \/ DeedFails => cwd' = cwd
    BY DEF TreeListed, DeedDone, DeedFails, view
  <2> QED BY <1>2, <2>1, <2>2, <2>3 DEF Handle
<1>3. User => cwd' = cwd
  BY DEF User, Open, PopState, Expand, Back, Forward, Go, Reload, Copy, Do, view
<1> QED BY <1>1, <1>2, <1>3 DEF Next

\* elFinder stays where it is until the directory arrives that the user asked for last:
\* an answer to what was asked before never leads anywhere (request, open).
THEOREM NavigationImplemented == Spec => Navigates
<1>1. Init => Nav!Init
  <2> SUFFICES ASSUME Init PROVE cwd = None /\ Heading \in Dir
    BY DEF Nav!Init
  <2>1. PlaceInv
    BY PlacesBegin
  <2>2. PICK d \in Dir : queue = <<[by |-> "init", target |-> d, sync |-> 0, answer |-> NoAnswer]>>
    BY DEF Init
  <2>3. 1 \in Asked /\ queue[1].target = d
    BY <2>2 DEF Asked
  <2> QED BY <2>1, <2>3, HeadingIs DEF Init, PlaceInv
<1>2. PlaceInv /\ PlaceInv' /\ [Next]_vars => [Nav!Next]_(Nav!vars)
  <2> SUFFICES ASSUME PlaceInv, PlaceInv', [Next]_vars PROVE [Nav!Next]_(Nav!vars)
    OBVIOUS
  <2>1. Heading \in Dir \cup {None} /\ Heading' \in Dir \cup {None}
    <3>1. (PlaceInv => Heading \in Dir \cup {None})'
      BY HeadingReal, PTL
    <3> QED BY <3>1, HeadingReal
  <2>2. ASSUME NEW k \in DOMAIN queue, Opened(k) PROVE Nav!Arrive
    <3>1. k \in Asked /\ cwd' = queue[k].target /\ Take(k)
      BY <2>2 DEF Opened, Asked
    <3>2. TypeOK /\ queue[k].target \in Dir
      BY DEF PlaceInv, TargetsReal
    <3>3. queue' = <<>>
      BY <3>1, <3>2, TakenFacts
    <3>4. Asked' = {}
      BY <3>3 DEF Asked
    <3>5. Heading' = None
      BY <3>4 DEF Heading
    <3>6. Heading = queue[k].target /\ Heading # None
      BY <3>1, <3>2, HeadingIs, NodeAssumption DEF Node
    <3> QED BY <3>1, <3>5, <3>6 DEF Nav!Arrive
  <2>3. ASSUME cwd' = cwd PROVE Nav!Next
    BY <2>1, <2>3 DEF Nav!Next, Nav!Ask, Nav!GiveUp
  <2>4. cwd' = cwd \/ \E k \in DOMAIN queue : Opened(k)
    <3>1. UNCHANGED vars => cwd' = cwd
      BY DEF vars, view
    <3> QED BY <3>1, PlaceKept
  <2> QED BY <2>2, <2>3, <2>4 DEF Nav!Next
<1> QED BY <1>1, <1>2, PlaceInvariant, PTL DEF Spec, Navigates, Nav!Spec

-----------------------------------------------------------------------------
(***************************************************************************)
(* The invariant about the cache, step by step.                            *)
(***************************************************************************)

\* What the server answers shows what it was asked for.
LEMMA ServedLists ==
    ASSUME NEW d \in Dir, NEW S, NEW tree
    PROVE  Lists(OpenRows(S, d, tree), d) /\ Leads(ParentsRows(S, d)) /\ Leads(TreeRows(S, d))
<1>1. \A D : \A h \in File : Described(S, D)[h] \in {"none", "file"} /\ (Described(S, D)[h] # "none" => h \in D)
  BY DEF Described, Row, Node
<1>2. \A p : ~RemoteVolume => Subfolders(S, p) \cap File = {}
  BY NodeAssumption DEF Subfolders
<1>3. Lists(OpenRows(S, d, tree), d)
  <2> DEFINE D == {d} \cup Children(S, d) \cup (IF tree THEN {Root} \cup Subfolders(S, Root) ELSE {})
  <2>1. OpenRows(S, d, tree) = Described(S, D)
    BY DEF OpenRows
  <2>2. Described(S, D)[d] # "none"
    BY DEF Described, Row, Node
  <2>3. \A h \in File : ~RemoteVolume /\ h \in D => ParentOf[h] = d
    BY <1>2, NodeAssumption DEF Children
  <2> HIDE DEF D
  <2> QED BY <1>1, <2>1, <2>2, <2>3 DEF Lists
<1>4. Leads(ParentsRows(S, d))
  <2> DEFINE D == UNION {Subfolders(S, p) : p \in Chain(d) \ {Root}}
  <2>1. ParentsRows(S, d) = Described(S, D)
    BY DEF ParentsRows
  <2>2. \A h \in File : ~RemoteVolume => h \notin D
    BY <1>2
  <2> HIDE DEF D
  <2> QED BY <1>1, <2>1, <2>2 DEF Leads
<1>5. Leads(TreeRows(S, d))
  BY <1>1, <1>2 DEF TreeRows, Leads
<1> QED BY <1>3, <1>4, <1>5

\* Syncs show what they asked for as long as each does that is new.
LEMMA SyncsListKept ==
    ASSUME SyncsList,
           \A i \in DOMAIN syncs' :
              \/ /\ i \in DOMAIN syncs /\ syncs'[i].target = syncs[i].target
                 /\ syncs'[i].open = syncs[i].open /\ syncs'[i].parents = syncs[i].parents
              \/ syncs'[i].open = NoAnswer /\ syncs'[i].parents = NoAnswer
    PROVE  SyncsList'
<1>1. NoAnswer \notin Rows
  BY AnswerKinds
<1>2. ASSUME NEW i \in DOMAIN syncs'
      PROVE  /\ syncs'[i].open \in Rows => Lists(syncs'[i].open, syncs'[i].target)
             /\ syncs'[i].parents \in Rows => Leads(syncs'[i].parents)
  <2>1. CASE /\ i \in DOMAIN syncs /\ syncs'[i].target = syncs[i].target
             /\ syncs'[i].open = syncs[i].open /\ syncs'[i].parents = syncs[i].parents
    <3>1. /\ syncs[i].open \in Rows => Lists(syncs[i].open, syncs[i].target)
          /\ syncs[i].parents \in Rows => Leads(syncs[i].parents)
      BY <2>1 DEF SyncsList
    <3> QED BY <2>1, <3>1
  <2>2. CASE syncs'[i].open = NoAnswer /\ syncs'[i].parents = NoAnswer
    BY <1>1, <2>2
  <2> QED BY <1>2, <2>1, <2>2
<1>3. \A rows, d : (Leads(rows) <=> Leads(rows)') /\ (Lists(rows, d) <=> Lists(rows, d)')
  BY DEF Leads, Lists
<1> QED BY <1>2, <1>3 DEF SyncsList

\* An aborted request is forgotten, and the next has no answer yet.
LEMMA AbortLists ==
    ASSUME PlaceInv, AnswersList, NEW by \in Opener \ {"sync"}, NEW d \in Dir, Send(by, d, 0),
           syncs' = Dropped, branch' = branch
    PROVE  AnswersList'
<1>1. DOMAIN queue' = {1} /\ queue'[1].by = by /\ queue'[1].answer = NoAnswer
  BY SentAlone
<1>2. SyncsAsk' /\ OpensList'
  BY <1>1, AnswerKinds DEF SyncsAsk, OpensList
<1>3. SyncsList'
  <2>1. TypeOK /\ SyncsList
    BY DEF PlaceInv, AnswersList
  <2>2. \A i \in DOMAIN syncs' : /\ i \in DOMAIN syncs /\ syncs'[i].target = syncs[i].target
                                 /\ syncs'[i].open = syncs[i].open /\ syncs'[i].parents = syncs[i].parents
    BY <2>1, DroppedFacts
  <2> QED BY <2>1, <2>2, SyncsListKept
<1>4. BranchLeads'
  BY DEF AnswersList, BranchLeads, Leads
<1> QED BY <1>2, <1>3, <1>4 DEF AnswersList

\* Nor has a sync that begins.
LEMMA StartLists ==
    ASSUME PlaceInv, AnswersList, Ready, StartSync, branch' = branch
    PROVE  AnswersList'
<1>1. TypeOK /\ SyncsList /\ cwd \in Dir
  BY RunsSomewhere DEF PlaceInv, AnswersList
<1>2. /\ DOMAIN queue' = {1} /\ queue'[1].by = "sync" /\ queue'[1].target = cwd
      /\ queue'[1].sync = Len(syncs) + 1 /\ queue'[1].answer = NoAnswer
  BY SentAlone DEF StartSync
<1>3. /\ Len(syncs') = Len(syncs) + 1 /\ Len(syncs') \in DOMAIN syncs'
      /\ syncs'[Len(syncs')] = [target |-> cwd, open |-> NoAnswer, parents |-> NoAnswer, live |-> TRUE]
      /\ \A i \in DOMAIN syncs : /\ i \in DOMAIN syncs'
                                 /\ syncs'[i].target = syncs[i].target
                                 /\ syncs'[i].open = syncs[i].open
                                 /\ syncs'[i].parents = syncs[i].parents
  BY <1>1, StartedFacts
<1>4. SyncsAsk' /\ OpensList'
  BY <1>2, <1>3, AnswerKinds DEF SyncsAsk, OpensList
<1>5. SyncsList'
  <2>1. DOMAIN syncs' = 1 .. Len(syncs') /\ DOMAIN syncs = 1 .. Len(syncs) /\ Len(syncs) \in Nat
    <3>1. syncs' \in Seq(Sync) /\ syncs \in Seq(Sync)
      BY <1>1, StartedFacts DEF TypeOK
    <3> QED BY <3>1
  <2>2. \A i \in DOMAIN syncs' : i \in DOMAIN syncs \/ i = Len(syncs')
    BY <1>3, <2>1
  <2> QED BY <1>1, <1>3, <2>2, SyncsListKept
<1>6. BranchLeads'
  BY DEF AnswersList, BranchLeads, Leads
<1> QED BY <1>4, <1>5, <1>6 DEF AnswersList

\* An answer that was handled leaves none.
LEMMA TakenLists ==
    ASSUME PlaceInv, AnswersList, NEW k \in DOMAIN queue, Take(k), UNCHANGED <<syncs, branch>>
    PROVE  AnswersList'
<1>1. queue' = <<>>
  BY TakenFacts DEF PlaceInv
<1>2. SyncsAsk' /\ OpensList'
  BY <1>1 DEF SyncsAsk, OpensList
<1>3. SyncsList'
  BY SyncsListKept DEF AnswersList
<1>4. BranchLeads'
  BY DEF AnswersList, BranchLeads, Leads
<1> QED BY <1>2, <1>3, <1>4 DEF AnswersList

\* Nothing changes for requests that stay as they are.
LEMMA StillLists ==
    ASSUME AnswersList, UNCHANGED <<queue, syncs>>, BranchLeads'
    PROVE  AnswersList'
<1>1. SyncsAsk' /\ OpensList'
  BY DEF AnswersList, SyncsAsk, OpensList, Lists
<1>2. SyncsList'
  BY SyncsListKept DEF AnswersList
<1> QED BY <1>1, <1>2 DEF AnswersList

\* A branch that stays as it is.
LEMMA BranchStays ==
    ASSUME AnswersList, branch' = branch
    PROVE  BranchLeads'
BY DEF AnswersList, BranchLeads, Leads

\* Whatever happens, answers show what they were asked for.
LEMMA ServerLists ==
    ASSUME PlaceInv, AnswersList, Change \/ Serve
    PROVE  AnswersList'
<1>1. TypeOK /\ TargetsReal /\ SyncsAsk /\ OpensList /\ SyncsList /\ BranchLeads
  BY DEF PlaceInv, AnswersList
<1>2. CASE Change \/ ServeDeed
  <2>1. UNCHANGED <<queue, syncs>> /\ branch' = branch
    BY <1>2 DEF Change, ServeDeed
  <2> QED BY <2>1, StillLists, BranchStays
<1>3. CASE ServeOpen
  <2>1. PICK k \in DOMAIN queue :
            \E a \in {Error, OpenRows(disk, queue[k].target, queue[k].by \in {"init", "sync", "fallback"})} :
                queue' = [queue EXCEPT ![k].answer = a]
    BY <1>3 DEF ServeOpen
  <2>2. PICK a \in {Error, OpenRows(disk, queue[k].target, queue[k].by \in {"init", "sync", "fallback"})} :
                queue' = [queue EXCEPT ![k].answer = a]
    BY <2>1
  <2>3. queue[k] \in Opening /\ DOMAIN queue = {1} /\ k = 1 /\ queue[k].target \in Dir
    BY <1>1, TakenFacts DEF TargetsReal
  <2>4. DOMAIN queue' = {1} /\ queue'[1] = [queue[1] EXCEPT !.answer = a]
    BY <2>2, <2>3
  <2>5. queue'[1].by = queue[1].by /\ queue'[1].target = queue[1].target /\ queue'[1].sync = queue[1].sync
        /\ queue'[1].answer = a
    BY <2>3, <2>4 DEF Opening
  <2>6. a \in Rows => Lists(a, queue[1].target)
    BY <2>2, <2>3, ServedLists, AnswerKinds
  <2>7. UNCHANGED <<syncs, branch>>
    BY <1>3 DEF ServeOpen
  <2>8. SyncsAsk'
    <3>1. queue[1].by = "sync" =>
              queue[1].sync \in DOMAIN syncs /\ syncs[queue[1].sync].target = queue[1].target
      BY <1>1, <2>3 DEF SyncsAsk
    <3>2. SyncsAsk' <=> (queue'[1].by = "sync" =>
              queue'[1].sync \in DOMAIN syncs' /\ syncs'[queue'[1].sync].target = queue'[1].target)
      BY <2>4 DEF SyncsAsk
    <3>3. syncs' = syncs
      BY <2>7
    <3> QED BY <2>5, <3>1, <3>2, <3>3
  <2>9. OpensList'
    BY <2>4, <2>5, <2>6 DEF OpensList, Lists
  <2>10. SyncsList' /\ BranchLeads'
    BY <1>1, <2>7, SyncsListKept, BranchStays
  <2> QED BY <2>8, <2>9, <2>10 DEF AnswersList
<1>4. CASE ServeParents
  <2>1. PICK i \in DOMAIN syncs : \E a \in {Error, ParentsRows(disk, syncs[i].target)} :
                syncs' = [syncs EXCEPT ![i].parents = a]
    BY <1>4 DEF ServeParents
  <2>2. PICK a \in {Error, ParentsRows(disk, syncs[i].target)} : syncs' = [syncs EXCEPT ![i].parents = a]
    BY <2>1
  <2>3. syncs \in Seq(Sync) /\ syncs[i] \in Sync
    BY <1>1 DEF TypeOK
  <2>4. syncs[i].target \in Dir
    BY <2>3 DEF Sync
  <2>5. a \in Rows => Leads(a)
    BY <2>4, ServedLists, AnswerKinds
  <2>6. DOMAIN syncs' = DOMAIN syncs
    BY <2>2
  <2>7. ASSUME NEW j \in DOMAIN syncs
        PROVE  /\ syncs'[j].target = syncs[j].target /\ syncs'[j].open = syncs[j].open
               /\ syncs'[j].parents = IF j = i THEN a ELSE syncs[j].parents
    <3>1. syncs'[j] = IF j = i THEN [syncs[j] EXCEPT !.parents = a] ELSE syncs[j]
      BY <2>2
    <3>2. syncs[j] \in Sync
      BY <2>3
    <3> QED BY <3>1, <3>2 DEF Sync
  <2>8. UNCHANGED <<queue, branch>>
    BY <1>4 DEF ServeParents
  <2>9. SyncsAsk'
    BY <1>1, <2>6, <2>7, <2>8 DEF SyncsAsk
  <2>10. OpensList' /\ BranchLeads'
    BY <1>1, <2>8, BranchStays DEF OpensList, Lists
  <2>11. SyncsList'
    BY <1>1, <2>5, <2>6, <2>7 DEF SyncsList, Lists, Leads
  <2> QED BY <2>9, <2>10, <2>11 DEF AnswersList
<1>5. CASE ServeTree
  <2>1. PICK a \in {Error, TreeRows(disk, branch.target)} : branch' = [branch EXCEPT !.answer = a]
    BY <1>5 DEF ServeTree
  <2>2. branch \in Branch /\ branch.target # None
    BY <1>1, <1>5 DEF ServeTree, TypeOK
  <2>3. branch.target \in Dir /\ branch'.answer = a
    BY <2>1, <2>2 DEF Branch
  <2>4. a \in Rows => Leads(a)
    BY <2>1, <2>3, ServedLists, AnswerKinds
  <2>5. BranchLeads'
    BY <2>3, <2>4 DEF BranchLeads, Leads
  <2>6. UNCHANGED <<queue, syncs>>
    BY <1>5 DEF ServeTree
  <2> QED BY <2>5, <2>6, StillLists
<1> QED BY <1>2, <1>3, <1>4, <1>5 DEF Serve

\* The user's requests have no answers yet.
LEMMA UserLists ==
    ASSUME PlaceInv, AnswersList, User
    PROVE  AnswersList'
<1>1. ASSUME NEW d \in Dir, Open(d) \/ PopState(d) PROVE AnswersList'
  <2>1. PICK by \in {"click", "popstate"} : Send(by, d, 0)
    BY <1>1 DEF Open, PopState
  <2>2. syncs' = Dropped /\ branch' = branch
    BY <1>1 DEF Open, PopState, Abort
  <2>3. by \in Opener \ {"sync"}
    BY DEF Opener
  <2> QED BY <2>1, <2>2, <2>3, AbortLists
<1>2. ASSUME NEW d \in Dir, Expand(d) PROVE AnswersList'
  <2>1. BranchLeads'
    BY <1>2, AnswerKinds DEF Expand, NoBranch, BranchLeads
  <2>2. UNCHANGED <<queue, syncs>>
    BY <1>2 DEF Expand
  <2> QED BY <2>1, <2>2, StillLists
<1>3. ASSUME NEW to \in Nat, Go(to) PROVE AnswersList'
  <2>1. branch' = branch
    BY <1>3 DEF Go
  <2>2. CASE visited[to] # None /\ syncs' = Dropped /\ Send("history", visited[to], 0)
    <3>1. visited \in Seq(Dir \cup {None}) /\ to \in 1 .. Len(visited)
      BY <1>3 DEF Go, PlaceInv, TypeOK
    <3>2. visited[to] \in Dir /\ "history" \in Opener \ {"sync"}
      BY <2>2, <3>1 DEF Opener
    <3> QED BY <2>1, <2>2, <3>2, AbortLists
  <2>3. CASE UNCHANGED <<syncs, queue>>
    BY <2>1, <2>3, StillLists, BranchStays
  <2> QED BY <1>3, <2>2, <2>3 DEF Go
<1>4. ASSUME Back \/ Forward PROVE AnswersList'
  <2>1. at + 1 \in Nat /\ (at > 1 => at - 1 \in Nat)
    BY DEF PlaceInv, TypeOK
  <2> QED BY <1>3, <1>4, <2>1 DEF Back, Forward
<1>5. ASSUME Reload PROVE AnswersList'
  <2>1. Ready /\ StartSync /\ branch' = branch
    BY <1>5 DEF Reload, Click, Ready
  <2> QED BY <2>1, StartLists
<1>6. ASSUME (\E hashes \in SUBSET shown : Copy(hashes)) \/ (\E h \in Node : Do("rm", h) \/ Do("mkdir", h))
      PROVE  AnswersList'
  <2>1. UNCHANGED <<queue, syncs>> /\ branch' = branch
    BY <1>6 DEF Copy, Do
  <2> QED BY <2>1, StillLists, BranchStays
<1> QED BY <1>1, <1>2, <1>4, <1>5, <1>6 DEF User

\* The listing of a sync is one of the directory that the sync asked for.
LEMMA HandleLists ==
    ASSUME PlaceInv, AnswersList, Handle
    PROVE  AnswersList'
<1>1. TypeOK /\ SyncsAsk /\ OpensList /\ SyncsList
  BY DEF PlaceInv, AnswersList
<1>2. ASSUME NEW k \in DOMAIN queue, Opened(k) \/ InitFails(k) \/ FallbackEnds(k) PROVE AnswersList'
  <2>1. Take(k) /\ UNCHANGED <<syncs, branch>>
    BY <1>2 DEF Opened, InitFails, FallbackEnds
  <2> QED BY <2>1, TakenLists
<1>3. ASSUME NEW k \in DOMAIN queue, OpenFails(k) PROVE AnswersList'
  <2>1. Ready /\ branch' = branch
    BY <1>3, RunsSomewhere DEF OpenFails
  <2>2. CASE StartSync
    BY <2>1, <2>2, StartLists
  <2>3. CASE Take(k) /\ UNCHANGED syncs
    BY <2>1, <2>3, TakenLists
  <2> QED BY <1>3, <2>2, <2>3 DEF OpenFails
<1>4. ASSUME NEW k \in DOMAIN queue, SyncListed(k) PROVE AnswersList'
  <2> DEFINE i == queue[k].sync
             a == queue[k].answer
             d == queue[k].target
  <2>1. queue' = <<>> /\ branch' = branch /\ syncs' = [syncs EXCEPT ![i].open = a]
    BY <1>1, <1>4, TakenFacts DEF SyncListed
  <2>2. i \in DOMAIN syncs /\ syncs[i].target = d /\ Lists(a, d)
    BY <1>1, <1>4 DEF SyncListed, SyncsAsk, OpensList
  <2> HIDE DEF i, a, d
  <2>3. DOMAIN syncs' = DOMAIN syncs
    BY <2>1
  <2>4. ASSUME NEW j \in DOMAIN syncs
        PROVE  /\ syncs'[j].target = syncs[j].target /\ syncs'[j].parents = syncs[j].parents
               /\ syncs'[j].open = IF j = i THEN a ELSE syncs[j].open
    <3>1. syncs'[j] = IF j = i THEN [syncs[j] EXCEPT !.open = a] ELSE syncs[j]
      BY <2>1
    <3>2. syncs[j] \in Sync
      BY <1>1 DEF TypeOK
    <3> QED BY <3>1, <3>2 DEF Sync
  <2>5. SyncsList'
    BY <1>1, <2>2, <2>3, <2>4 DEF SyncsList, Lists, Leads
  <2>6. SyncsAsk' /\ OpensList' /\ BranchLeads'
    BY <2>1, BranchStays DEF SyncsAsk, OpensList
  <2> QED BY <2>5, <2>6 DEF AnswersList
<1>5. ASSUME NEW i \in DOMAIN syncs, SyncFails(i) PROVE AnswersList'
  <2>1. PICK d \in Dir : Send("fallback", d, 0)
    BY <1>5 DEF SyncFails
  <2>2. syncs' = [Dropped EXCEPT ![i].live = FALSE] /\ branch' = branch
    BY <1>5 DEF SyncFails
  <2>3. DOMAIN queue' = {1} /\ queue'[1].by = "fallback" /\ queue'[1].answer = NoAnswer
    BY <2>1, SentAlone
  <2>4. SyncsAsk' /\ OpensList' /\ BranchLeads'
    BY <2>2, <2>3, AnswerKinds, BranchStays DEF SyncsAsk, OpensList
  <2>5. DOMAIN syncs' = DOMAIN syncs
    BY <1>1, <2>2, DroppedFacts
  <2>6. ASSUME NEW j \in DOMAIN syncs'
        PROVE  /\ j \in DOMAIN syncs /\ syncs'[j].target = syncs[j].target
               /\ syncs'[j].open = syncs[j].open /\ syncs'[j].parents = syncs[j].parents
    <3>1. j \in DOMAIN syncs /\ Dropped \in Seq(Sync) /\ DOMAIN Dropped = DOMAIN syncs
      BY <1>1, <2>5, DroppedFacts
    <3>2. Dropped[j].target = syncs[j].target /\ Dropped[j].open = syncs[j].open
          /\ Dropped[j].parents = syncs[j].parents
      BY <1>1, <3>1, DroppedFacts
    <3>3. syncs'[j] = IF j = i THEN [Dropped[j] EXCEPT !.live = FALSE] ELSE Dropped[j]
      BY <2>2, <3>1
    <3>4. Dropped[j] \in Sync
      BY <3>1
    <3>5. syncs'[j].target = Dropped[j].target /\ syncs'[j].open = Dropped[j].open
          /\ syncs'[j].parents = Dropped[j].parents
      BY <3>3, <3>4 DEF Sync
    <3> QED BY <3>1, <3>2, <3>5
  <2>7. SyncsList'
    BY <1>1, <2>6, SyncsListKept
  <2> QED BY <2>4, <2>7 DEF AnswersList
<1>6. ASSUME NEW i \in DOMAIN syncs, Synced(i) PROVE AnswersList'
  <2>1. syncs' = [syncs EXCEPT ![i].live = FALSE] /\ queue' = queue /\ branch' = branch
    BY <1>6 DEF Synced
  <2>2. DOMAIN syncs' = DOMAIN syncs
    BY <2>1
  <2>3. ASSUME NEW j \in DOMAIN syncs
        PROVE  /\ syncs'[j].target = syncs[j].target
               /\ syncs'[j].open = syncs[j].open /\ syncs'[j].parents = syncs[j].parents
    <3>1. syncs'[j] = IF j = i THEN [syncs[j] EXCEPT !.live = FALSE] ELSE syncs[j]
      BY <2>1
    <3>2. syncs[j] \in Sync
      BY <1>1 DEF TypeOK
    <3> QED BY <3>1, <3>2 DEF Sync
  <2>4. SyncsList'
    BY <1>1, <2>2, <2>3, SyncsListKept
  <2>5. SyncsAsk'
    BY <1>1, <2>1, <2>2, <2>3 DEF SyncsAsk
  <2>6. OpensList' /\ BranchLeads'
    BY <1>1, <2>1, BranchStays DEF OpensList, Lists
  <2> QED BY <2>4, <2>5, <2>6 DEF AnswersList
<1>7. ASSUME TreeListed PROVE AnswersList'
  <2>1. BranchLeads'
    BY <1>7, AnswerKinds DEF TreeListed, NoBranch, BranchLeads
  <2>2. UNCHANGED <<queue, syncs>>
    BY <1>7 DEF TreeListed
  <2> QED BY <2>1, <2>2, StillLists
<1>8. ASSUME DeedDone PROVE AnswersList'
  <2>1. UNCHANGED <<queue, syncs>> /\ branch' = branch
    BY <1>8 DEF DeedDone
  <2> QED BY <2>1, StillLists, BranchStays
<1>9. ASSUME DeedFails PROVE AnswersList'
  <2>1. branch' = branch /\ deed # NoDeed
    BY <1>9 DEF DeedFails, NoDeed
  <2>2. CASE StartSync
    BY <2>1, <2>2, StartLists, RunsSomewhere
  <2>3. CASE UNCHANGED <<past, queue, syncs>>
    BY <2>1, <2>3, StillLists, BranchStays
  <2> QED BY <1>9, <2>2, <2>3 DEF DeedFails
<1> QED BY <1>2, <1>3, <1>4, <1>5, <1>6, <1>7, <1>8, <1>9 DEF Handle

\* Whatever happens.
LEMMA ListsStay ==
    ASSUME PlaceInv, AnswersList, [Next]_vars
    PROVE  AnswersList'
<1>1. CASE UNCHANGED vars
  <2>1. UNCHANGED <<queue, syncs>> /\ branch' = branch
    BY <1>1 DEF vars
  <2> QED BY <2>1, StillLists, BranchStays
<1> QED BY <1>1, ServerLists, UserLists, HandleLists DEF Next

\* What a file is in the cache after the handler of "remove".
LEMMA RemovedFacts ==
    ASSUME NEW c \in Rows, NEW S
    PROVE  /\ \A h \in Node : Removed(c, S)[h] = IF h \in Gone(c, S) THEN "none" ELSE c[h]
           /\ \A h \in Node : h \in S => Removed(c, S)[h] = "none"
           /\ \A h \in Node : Removed(c, S)[h] # "none" => Removed(c, S)[h] = c[h] /\ h \notin S
           /\ \A h, d \in Node : /\ ParentOf[h] = d /\ Removed(c, S)[d] # "none" /\ h \notin S
                                 => Removed(c, S)[h] = c[h]
<1>1. \A h \in Node : Removed(c, S)[h] = IF h \in Gone(c, S) THEN "none" ELSE c[h]
  BY DEF Removed
<1> QED BY <1>1, GoneFacts

\* A step that touches neither the cache nor the view.
LEMMA ViewKeeps ==
    ASSUME ShownHere, FilesHere, UNCHANGED view, Ready' <=> Ready, mishaps \subseteq mishaps', kept \subseteq kept'
    PROVE  ShownHere' /\ FilesHere'
<1>1. files' = files /\ cwd' = cwd /\ shown' = shown
  BY DEF view
<1>2. ShownHere'
  BY <1>1 DEF ShownHere, Untouched
<1>3. FilesHere'
  BY <1>1 DEF FilesHere
<1> QED BY <1>2, <1>3

\* elFinder arrives: the files of the directory that is left go, except those of the
\* clipboard.
LEMMA OpenedShows ==
    ASSUME CacheInv, NEW k \in DOMAIN queue, Opened(k)
    PROVE  ShownHere' /\ FilesHere'
<1> DEFINE d == queue[k].target
           rows == queue[k].answer
           old == IF queue[k].by = "init" THEN [h \in Node |-> "none"] ELSE Purged(files, cwd, remember)
<1>1. /\ files \in Rows /\ remember \subseteq kept /\ d \in Dir /\ rows \in Rows /\ Lists(rows, d)
      /\ FilesHere
  BY DEF CacheInv, PlaceInv, TypeOK, TargetsReal, AnswersList, OpensList, Opened
<1>2. files' = Cached(old, rows) /\ cwd' = d /\ shown' = {h \in Node : rows[h] # "none" /\ ParentOf[h] = d}
      /\ mishaps' = mishaps \ {"removal"} /\ Ready' /\ kept' = kept
  BY DEF Opened, Ready
<1> HIDE DEF d, rows
<1>3. \A h \in Node : files'[h] = IF rows[h] = "none" THEN old[h] ELSE rows[h]
  BY <1>2 DEF Cached
<1>4. ShownHere'
  <2>1. files'[d] # "none"
    BY <1>1, <1>3 DEF Lists, Node
  <2>2. \A h \in shown' : ParentOf[h] = d /\ files'[h] # "none"
    BY <1>2, <1>3
  <2> QED BY <1>2, <2>1, <2>2 DEF ShownHere
<1>5. FilesHere'
  <2>1. SUFFICES ASSUME NEW h \in File
                 PROVE  /\ files'[h] \in {"none", "file"}
                        /\ ~RemoteVolume /\ "sync" \notin mishaps' /\ files'[h] # "none" =>
                              h \in kept \/ (ParentOf[h] = d /\ h \in shown')
    BY <1>2 DEF FilesHere
  <2>2. h \in Node /\ files[h] \in {"none", "file"} /\ rows[h] \in {"none", "file"}
    BY <1>1 DEF Node, FilesHere, Lists
  <2>3. CASE rows[h] # "none"
    <3>1. files'[h] = rows[h] /\ (~RemoteVolume => ParentOf[h] = d)
      BY <1>1, <1>3, <2>2, <2>3 DEF Lists
    <3> QED BY <1>2, <2>2, <2>3, <3>1
  <2>4. CASE rows[h] = "none" /\ queue[k].by = "init"
    BY <1>3, <2>2, <2>4
  <2>5. CASE rows[h] = "none" /\ queue[k].by # "init"
    <3>1. files'[h] = Purged(files, cwd, remember)[h]
      BY <1>3, <2>2, <2>5
    <3>2. files'[h] = IF ~IsDir(files[h]) /\ ParentOf[h] = cwd /\ h \notin remember THEN "none" ELSE files[h]
      BY <2>2, <3>1 DEF Purged
    <3>3. files[h] = "file" => ~IsDir(files[h])
      BY DEF IsDir
    <3>4. "sync" \notin mishaps' => "sync" \notin mishaps
      BY <1>2
    <3> QED BY <1>1, <2>2, <3>2, <3>3, <3>4 DEF FilesHere
  <2> QED BY <2>3, <2>4, <2>5
<1> QED BY <1>4, <1>5

\* A sync is done to the cache and to the view, unless it meets another directory.
LEMMA SyncedShows ==
    ASSUME CacheInv, NEW i \in DOMAIN syncs, Synced(i)
    PROVE  ShownHere' /\ FilesHere'
<1> DEFINE s    == syncs[i]
           rows == Cached(s.open, s.parents)
           gone == Missing(files, rows)
           left == Removed(files, gone)
           new  == Incoming(files, rows) \cup {s.target}
           diff == Different(files, rows)
           lost == {h \in diff \ new : left[h] = "none"}
<1>1. /\ files \in Rows /\ shown \subseteq Node /\ s \in Sync /\ s.open \in Rows /\ s.parents \in Rows
      /\ Lists(s.open, s.target) /\ Leads(s.parents) /\ ShownHere /\ FilesHere
      /\ s.target \in Dir /\ Ready /\ cwd \in Dir
  <2>1. syncs \in Seq(Sync) /\ syncs # <<>> /\ files \in Rows /\ shown \subseteq Node /\ ShownHere /\ FilesHere
    BY DEF CacheInv, PlaceInv, TypeOK
  <2>2. s \in Sync /\ Ready /\ cwd \in Dir
    BY <2>1, RunsSomewhere DEF CacheInv
  <2>3. s.open \in Rows /\ s.parents \in Rows /\ s.target \in Dir
    BY <2>2 DEF Synced, Sync
  <2>4. Lists(s.open, s.target) /\ Leads(s.parents)
    BY <2>3 DEF CacheInv, AnswersList, SyncsList
  <2> QED BY <2>1, <2>2, <2>3, <2>4
<1>2. PICK made \in (IF lost = {} THEN {diff} ELSE SUBSET (diff \ lost)) : files' = Changed(left, new \cup made, rows)
  BY DEF Synced
<1>3. /\ shown' = (shown \ gone) \cup {h \in new \cup diff : ParentOf[h] = CwdHash'}
      /\ mishaps' = mishaps \cup (IF s.target # cwd THEN {"sync"} ELSE {})
                            \cup (IF left[cwd] = "none" THEN {"removal"} ELSE {})
      /\ cwd' = cwd /\ phase' = phase /\ kept' = kept
  BY DEF Synced
<1>4. rows \in Rows /\ left \in Rows
  BY <1>1, CacheRows
<1>5. made \subseteq diff
  BY <1>2
<1>6. new \cup diff \subseteq Node
  BY <1>1 DEF Incoming, Different, Node
<1>7. \A h \in Node : files'[h] = IF h \in new \cup made THEN rows[h] ELSE left[h]
  BY <1>2 DEF Changed
<1>8. \A h \in new \cup diff : rows[h] # "none"
  <2>1. rows[s.target] # "none"
    BY <1>1 DEF Cached, Lists, Node
  <2> HIDE DEF rows
  <2> QED BY <2>1 DEF Incoming, Different
<1>9. /\ \A h \in diff : files[h] = "none" => h \in new
      /\ \A h \in diff : h \notin gone
      /\ \A h \in Node : files[h] # "none" /\ h \notin gone => rows[h] # "none"
  <2> HIDE DEF rows
  <2> QED BY DEF Different, Missing, Incoming
<1>10. /\ \A h \in Node : left[h] # "none" => left[h] = files[h] /\ h \notin gone
       /\ \A h, d \in Node : ParentOf[h] = d /\ left[d] # "none" /\ h \notin gone => left[h] = files[h]
  BY <1>1, RemovedFacts
<1>11. s.target = cwd => CwdHash' = cwd
  <2>1. ASSUME s.target = cwd PROVE files'[cwd] # "none"
    BY <1>1, <1>7, <1>8, <2>1 DEF Node
  <2>2. cwd # None
    BY <1>1, NodeAssumption DEF Node
  <2> QED BY <1>3, <2>1, <2>2 DEF CwdHash
<1>12. \A h \in File : rows[h] \in {"none", "file"} /\ (~RemoteVolume /\ rows[h] # "none" => ParentOf[h] = s.target)
  BY <1>1 DEF Cached, Lists, Leads, Node
<1> HIDE DEF s, rows, gone, left, new, diff, lost
<1>13. ShownHere'
  <2>1. SUFFICES ASSUME mishaps' \cap {"sync", "removal"} = {}
                 PROVE  /\ files'[cwd] # "none"
                        /\ \A h \in shown' : ParentOf[h] = cwd /\ files'[h] # "none"
    BY <1>3 DEF ShownHere, Untouched
  <2>2. s.target = cwd /\ left[cwd] # "none" /\ Untouched
    BY <1>3, <2>1 DEF Untouched
  <2>3. CwdHash' = cwd /\ cwd \in Node
    BY <1>1, <1>11, <2>2 DEF Node
  <2>4. files'[cwd] # "none"
    BY <1>5, <1>7, <1>8, <2>2, <2>3
  <2>5. ASSUME NEW h \in shown' PROVE ParentOf[h] = cwd /\ files'[h] # "none"
    <3>1. h \in Node /\ ParentOf[h] = cwd
      BY <1>1, <1>3, <1>6, <2>2, <2>3, <2>5 DEF ShownHere
    <3>2. CASE h \in new \cup made
      BY <1>5, <1>7, <1>8, <3>1, <3>2
    <3>3. CASE h \notin new \cup made
      <4>1. h \in shown \/ h \in diff
        BY <1>3, <2>5, <3>3
      <4>2. h \notin gone /\ files[h] # "none"
        BY <1>1, <1>3, <1>9, <2>2, <2>5, <3>3, <4>1 DEF ShownHere
      <4>3. left[h] = files[h]
        BY <1>10, <2>2, <2>3, <3>1, <4>2
      <4> QED BY <1>7, <3>1, <3>3, <4>2, <4>3
    <3> QED BY <3>2, <3>3
  <2> QED BY <2>4, <2>5
<1>14. FilesHere'
  <2>1. SUFFICES ASSUME NEW h \in File
                 PROVE  /\ files'[h] \in {"none", "file"}
                        /\ ~RemoteVolume /\ "sync" \notin mishaps' /\ files'[h] # "none" =>
                              h \in kept \/ (ParentOf[h] = cwd /\ h \in shown')
    BY <1>1, <1>3 DEF FilesHere, Ready
  <2>2. h \in Node
    BY DEF Node
  <2>3. CASE h \in new \cup made
    <3>1. files'[h] = rows[h] /\ h \in new \cup diff
      BY <1>5, <1>7, <2>2, <2>3
    <3>2. ASSUME ~RemoteVolume, "sync" \notin mishaps', files'[h] # "none" PROVE ParentOf[h] = cwd /\ h \in shown'
      <4>1. s.target = cwd
        BY <1>3, <3>2
      <4> QED BY <1>3, <1>11, <1>12, <3>1, <3>2, <4>1
    <3> QED BY <1>12, <3>1, <3>2
  <2>4. CASE h \notin new \cup made
    <3>1. files'[h] = left[h] /\ (left[h] # "none" => left[h] = files[h] /\ h \notin gone)
      BY <1>7, <1>10, <2>2, <2>4
    <3>2. "sync" \notin mishaps' => "sync" \notin mishaps
      BY <1>3
    <3> QED BY <1>1, <1>3, <3>1, <3>2 DEF FilesHere
  <2> QED BY <2>3, <2>4
<1> QED BY <1>13, <1>14

\* The subfolders of the tree add no files to the cache of a local volume.
LEMMA TreeShows ==
    ASSUME CacheInv, TreeListed
    PROVE  ShownHere' /\ FilesHere'
<1> DEFINE rows == branch.answer
<1>1. files \in Rows /\ shown \subseteq Node /\ ShownHere /\ FilesHere /\ branch \in Branch
      /\ (rows \in Rows => Leads(rows))
  BY DEF CacheInv, PlaceInv, TypeOK, AnswersList, BranchLeads
<1>2. rows = Error \/ (rows \in Rows /\ rows # Error)
  <2>1. rows \in Answer /\ rows # NoAnswer
    BY <1>1 DEF TreeListed, Branch
  <2> QED BY <2>1, AnswerKinds DEF Answer
<1>3. cwd' = cwd /\ shown' = shown /\ mishaps' = mishaps /\ kept' = kept /\ (Ready' <=> Ready)
  BY DEF TreeListed, clip, Ready
<1>4. Ready /\ cwd \in Dir
  <2>1. branch # NoBranch
    BY DEF TreeListed, NoBranch
  <2> QED BY <2>1, RunsSomewhere DEF CacheInv
<1>5. CASE rows = Error
  <2>1. UNCHANGED view
    BY <1>3, <1>5 DEF TreeListed, view
  <2> QED BY <1>1, <1>3, <2>1, ViewKeeps
<1>6. CASE rows \in Rows /\ rows # Error
  <2>1. \A h \in Node : files'[h] = IF rows[h] = "none" THEN files[h] ELSE rows[h]
    BY <1>6 DEF TreeListed, Cached
  <2> HIDE DEF rows
  <2>2. ShownHere'
    BY <1>1, <1>3, <1>4, <2>1 DEF ShownHere, Untouched, Node
  <2>3. ASSUME NEW h \in File
        PROVE  files'[h] \in {"none", "file"} /\ (~RemoteVolume => files'[h] = files[h])
    <3>1. h \in Node /\ rows[h] \in {"none", "file"} /\ (~RemoteVolume => rows[h] = "none")
      BY <1>1, <1>6 DEF Leads, Node
    <3> QED BY <1>1, <2>1, <3>1 DEF FilesHere
  <2>4. FilesHere'
    BY <1>1, <1>3, <2>3 DEF FilesHere
  <2> QED BY <2>2, <2>4
<1> QED BY <1>2, <1>5, <1>6

\* What was removed or made is done to the cache and to the view.
LEMMA DeedShows ==
    ASSUME CacheInv, DeedDone
    PROVE  ShownHere' /\ FilesHere'
<1>1. files \in Rows /\ shown \subseteq Node /\ ShownHere /\ FilesHere /\ DeedsReal
  BY DEF CacheInv, PlaceInv, TypeOK
<1>2. Ready /\ cwd \in Dir
  <2>1. deed # NoDeed
    BY DEF DeedDone, NoDeed
  <2> QED BY <2>1, RunsSomewhere DEF CacheInv
<1>3. cwd' = cwd /\ mishaps' = mishaps \cup Orphaned /\ kept' = kept /\ Ready'
  BY <1>2 DEF DeedDone, Ready
<1> DEFINE t == deed.target
<1>4. t \in Node /\ (deed.cmd = "mkdir" => t \in Dir) /\ (deed.cmd # "rm" => deed.cmd = "mkdir")
  <2>1. deed.answer # "pending" /\ deed \in Deed
    BY DEF DeedDone, CacheInv, PlaceInv, TypeOK
  <2>2. deed.cmd # "nothing"
    BY <1>1, <2>1 DEF DeedsReal
  <2> QED BY <1>1, <2>1, <2>2 DEF DeedsReal, Deed
<1>5. mishaps' \cap {"sync", "removal"} = {} => CwdHash' = cwd /\ files'[cwd] # "none" /\ Untouched
  BY <1>3 DEF Orphaned, CwdHash, Untouched
<1>6. CASE deed.cmd = "rm"
  <2>1. files' = Removed(files, {t}) /\ shown' = shown \ {t}
    BY <1>6 DEF DeedDone
  <2>2. /\ \A h \in Node : files'[h] # "none" => files'[h] = files[h] /\ h # t
        /\ \A h, d \in Node : ParentOf[h] = d /\ files'[d] # "none" /\ h # t => files'[h] = files[h]
    <3>1. Removed(files, {t}) \in Rows
      BY <1>1, CacheRows
    <3> HIDE DEF t
    <3> QED BY <1>1, <2>1, RemovedFacts
  <2> HIDE DEF t
  <2>3. ShownHere'
    <3>1. SUFFICES ASSUME mishaps' \cap {"sync", "removal"} = {}
                   PROVE  /\ files'[cwd] # "none"
                          /\ \A h \in shown' : ParentOf[h] = cwd /\ files'[h] # "none"
      BY <1>3 DEF ShownHere, Untouched
    <3>2. files'[cwd] # "none" /\ Untouched /\ cwd \in Node
      BY <1>2, <1>5, <3>1 DEF Node
    <3>3. ASSUME NEW h \in shown' PROVE ParentOf[h] = cwd /\ files'[h] # "none"
      <4>1. h \in Node /\ h # t /\ ParentOf[h] = cwd /\ files[h] # "none"
        BY <1>1, <1>2, <2>1, <3>2, <3>3 DEF ShownHere
      <4> QED BY <2>2, <3>2, <4>1
    <3> QED BY <3>2, <3>3
  <2>4. FilesHere'
    <3>1. SUFFICES ASSUME NEW h \in File
                   PROVE  /\ files'[h] \in {"none", "file"}
                          /\ ~RemoteVolume /\ "sync" \notin mishaps' /\ files'[h] # "none" =>
                                h \in kept \/ (ParentOf[h] = cwd /\ h \in shown')
      BY <1>3 DEF FilesHere
    <3>2. h \in Node /\ files'[h] \in {"none", files[h]} /\ (files'[h] # "none" => h # t)
      BY <2>2 DEF Node
    <3>3. "sync" \notin mishaps' => "sync" \notin mishaps
      BY <1>3
    <3> QED BY <1>1, <2>1, <3>2, <3>3 DEF FilesHere
  <2> QED BY <2>3, <2>4
<1>7. CASE deed.cmd = "mkdir"
  <2>1. /\ files' = [files EXCEPT ![t] = "dir"]
        /\ shown' = shown \cup ({t} \cap {h \in Dir : ParentOf[h] = CwdHash'})
    BY <1>7 DEF DeedDone
  <2> HIDE DEF t
  <2>2. \A h \in Node : files'[h] = IF h = t THEN "dir" ELSE files[h]
    BY <1>1, <1>4, <2>1 DEF Rows
  <2>3. ShownHere'
    <3>1. SUFFICES ASSUME mishaps' \cap {"sync", "removal"} = {}
                   PROVE  /\ files'[cwd] # "none"
                          /\ \A h \in shown' : ParentOf[h] = cwd /\ files'[h] # "none"
      BY <1>3 DEF ShownHere, Untouched
    <3> QED BY <1>1, <1>2, <1>4, <1>5, <2>1, <2>2, <3>1 DEF ShownHere
  <2>4. FilesHere'
    <3>1. \A h \in File : files'[h] = files[h]
      BY <1>4, <1>7, <2>2, NodeAssumption DEF Node
    <3> QED BY <1>1, <1>3, <2>1, <3>1 DEF FilesHere
  <2> QED BY <2>3, <2>4
<1> QED BY <1>4, <1>6, <1>7

\* Whatever happens.
LEMMA CacheStays ==
    ASSUME CacheInv, [Next]_vars
    PROVE  CacheInv'
<1>1. PlaceInv' /\ AnswersList'
  BY PlacesStay, ListsStay DEF CacheInv
<1>2. ShownHere /\ FilesHere
  BY DEF CacheInv
<1>3. ASSUME UNCHANGED view, Ready' <=> Ready, mishaps \subseteq mishaps', kept \subseteq kept'
      PROVE  ShownHere' /\ FilesHere'
  BY <1>2, <1>3, ViewKeeps
<1>4. CASE UNCHANGED vars
  <2>1. UNCHANGED view /\ (Ready' <=> Ready) /\ mishaps \subseteq mishaps' /\ kept \subseteq kept'
    BY <1>4 DEF vars, clip, Ready
  <2> QED BY <1>1, <1>3, <2>1 DEF CacheInv
<1>5. CASE Change \/ Serve
  <2>1. UNCHANGED view /\ (Ready' <=> Ready) /\ mishaps \subseteq mishaps' /\ kept \subseteq kept'
    BY <1>5 DEF Change, Serve, ServeOpen, ServeParents, ServeTree, ServeDeed, clip, Ready
  <2> QED BY <1>1, <1>3, <2>1 DEF CacheInv
<1>6. CASE User
  <2>1. ASSUME NEW d \in Dir, Open(d) \/ PopState(d) \/ Expand(d)
        PROVE  UNCHANGED view /\ (Ready' <=> Ready) /\ mishaps \subseteq mishaps' /\ kept \subseteq kept'
    BY <2>1 DEF Open, PopState, Expand, clip, Ready
  <2>2. ASSUME Back \/ Forward \/ Reload
        PROVE  UNCHANGED view /\ (Ready' <=> Ready) /\ mishaps \subseteq mishaps' /\ kept \subseteq kept'
    <3>1. UNCHANGED <<phase, view, kept>>
      BY <2>2 DEF Back, Forward, Go, Reload, clip
    <3>2. mishaps \subseteq mishaps'
      BY <2>2 DEF Back, Forward, Go, Reload, clip
    <3> QED BY <3>1, <3>2 DEF Ready
  <2>3. ASSUME (\E hashes \in SUBSET shown : Copy(hashes)) \/ (\E h \in Node : Do("rm", h) \/ Do("mkdir", h))
        PROVE  UNCHANGED view /\ (Ready' <=> Ready) /\ mishaps \subseteq mishaps' /\ kept \subseteq kept'
    BY <2>3 DEF Copy, Do, clip, Ready
  <2>4. UNCHANGED view /\ (Ready' <=> Ready) /\ mishaps \subseteq mishaps' /\ kept \subseteq kept'
    BY <1>6, <2>1, <2>2, <2>3 DEF User
  <2> QED BY <1>1, <1>3, <2>4 DEF CacheInv
<1>7. CASE Handle
  <2>1. ASSUME NEW k \in DOMAIN queue, InitFails(k) PROVE ShownHere' /\ FilesHere'
    <3>1. ~Ready /\ ~Ready' /\ UNCHANGED <<files, cwd, shown, mishaps, kept>>
      BY <2>1 DEF InitFails, CacheInv, PlaceInv, Beginning, view, clip, Ready
    <3> QED BY <1>2, <3>1 DEF ShownHere, FilesHere
  <2>2. ASSUME NEW k \in DOMAIN queue, OpenFails(k) \/ FallbackEnds(k) \/ SyncListed(k)
        PROVE  ShownHere' /\ FilesHere'
    <3>1. UNCHANGED view /\ (Ready' <=> Ready) /\ mishaps \subseteq mishaps' /\ kept \subseteq kept'
      BY <2>2 DEF OpenFails, FallbackEnds, SyncListed, clip, Ready
    <3> QED BY <1>3, <3>1
  <2>3. ASSUME NEW i \in DOMAIN syncs, SyncFails(i) PROVE ShownHere' /\ FilesHere'
    <3>1. UNCHANGED view /\ (Ready' <=> Ready) /\ mishaps \subseteq mishaps' /\ kept \subseteq kept'
      BY <2>3 DEF SyncFails, clip, Ready
    <3> QED BY <1>3, <3>1
  <2>4. ASSUME DeedFails PROVE ShownHere' /\ FilesHere'
    <3>1. UNCHANGED view /\ (Ready' <=> Ready) /\ mishaps \subseteq mishaps' /\ kept \subseteq kept'
      BY <2>4 DEF DeedFails, clip, Ready
    <3> QED BY <1>3, <3>1
  <2>5. ShownHere' /\ FilesHere'
    BY <1>7, <2>1, <2>2, <2>3, <2>4, OpenedShows, SyncedShows, TreeShows, DeedShows DEF Handle
  <2> QED BY <1>1, <2>5 DEF CacheInv
<1> QED BY <1>4, <1>5, <1>6, <1>7 DEF Next

\* The cache is what the answers say of it.
THEOREM CacheInvariant == Spec => []CacheInv
<1>1. Init => CacheInv
  <2> SUFFICES ASSUME Init PROVE CacheInv
    OBVIOUS
  <2>1. PlaceInv
    BY PlacesBegin
  <2>2. PICK d \in Dir : queue = <<[by |-> "init", target |-> d, sync |-> 0, answer |-> NoAnswer]>>
    BY DEF Init
  <2>3. SyncsAsk /\ OpensList
    BY <2>2, AnswerKinds DEF SyncsAsk, OpensList
  <2>4. SyncsList /\ BranchLeads
    BY AnswerKinds DEF Init, SyncsList, BranchLeads, NoBranch
  <2>5. ShownHere /\ FilesHere
    BY DEF Init, ShownHere, FilesHere, Ready, Node
  <2> QED BY <2>1, <2>3, <2>4, <2>5 DEF CacheInv, AnswersList
<1>2. CacheInv /\ [Next]_vars => CacheInv'
  BY CacheStays
<1> QED BY <1>1, <1>2, PTL DEF Spec

\* Whatever changes on the volume and however answers are delayed and abort each other, a
\* command is offered no file that elFinder does not know (open, cache, the view's content).
THEOREM ShownIsCached == Spec => []ShownCached
<1>1. CacheInv => ShownCached
  BY DEF CacheInv, ShownHere, ShownCached, Untouched
<1> QED BY <1>1, CacheInvariant, PTL

\* On a local volume elFinder also shows every file of the current directory that it knows.
\* (A remote volume lists files where a local one lists subfolders: there it does not hold.)
THEOREM CacheAndViewAgree ==
    ASSUME ~RemoteVolume
    PROVE  Spec => []CacheAgrees
<1>1. CacheInv => CacheAgrees
  <2> SUFFICES ASSUME CacheInv PROVE CachedFilesShown
    BY DEF CacheInv, ShownHere, ShownCached, Untouched, CacheAgrees
  <2>1. FilesHere
    BY DEF CacheInv
  <2> QED BY <2>1 DEF FilesHere, CachedFilesShown
<1> QED BY <1>1, CacheInvariant, PTL

=============================================================================
