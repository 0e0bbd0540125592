---------------------------- MODULE TerminalProofs ----------------------------
(***************************************************************************)
(* Proofs about Terminal, for every machine, every set of commands and     *)
(* every number of requests: what the page shows of its session is true,   *)
(* and the page and the stateless server implement Shell.                  *)
(***************************************************************************)
EXTENDS Terminal, TLAPS

-----------------------------------------------------------------------------
(***************************************************************************)
(* The inductive invariant.                                                *)
(***************************************************************************)

\* The prompt of a search is on the command line only during a search.
SearchShown == prompt = SearchPrompt => searching

\* The prompt that a search gives back is the directory of the page, unless an
\* answer came during the search.
PromptTrue == ~missed => PromptAfterSearch = cwd

\* An answer names the files of the directory that it names; it names none if there
\* are none.
AnswersAgree ==
    \A r \in sent :
        r.answer.kind = "result" =>
            \/ r.answer.dir = "" /\ r.answer.names = None
            \/ r.answer.dir # "" /\ r.answer.names = r.answer.dir
            \/ r.answer.dir \in Bare /\ r.answer.names = ""

\* The names that the page was loaded with are those of the directory it starts in.
UnsetAtStart == words = "unset" => cwd = Start \/ cwd \in Bare

\* A user who waits has one command on its way, and it was sent to run in the
\* directory of the page.
OneAtATime ==
    patient => /\ \A r \in sent : r.page /\ r.dir = cwd
               /\ \A r, s \in sent : r = s

SessionInv ==
    /\ TypeOK /\ SearchShown /\ PromptTrue /\ AnswersAgree /\ UnsetAtStart /\ OneAtATime
    /\ SentWherePrompted /\ NamesOfDirectory
-----------------------------------------------------------------------------
(***************************************************************************)
(* Types.                                                                  *)
(***************************************************************************)

\* The prompt that is given back after a search is a directory, or none.
LEMMA PromptAfterSearchType ==
    ASSUME TypeOK, SearchShown
    PROVE  PromptAfterSearch \in Where
BY DEF TypeOK, SearchShown, PromptAfterSearch

\* What the server answers is an answer.
LEMMA ResultType ==
    ASSUME NEW dir \in Where \cup {""}, NEW names \in Where \cup {""}
    PROVE  Result(dir, names) \in Answer
BY DEF Result, Answer

\* A request that is answered stays one.
LEMMA AnsweredType ==
    ASSUME TypeOK, NEW r \in sent, NEW a \in Answer
    PROVE  (sent \ {r}) \cup {[r EXCEPT !.answer = a]} \subseteq Sent
BY DEF TypeOK, Sent

\* An answer that the server makes of what a command wrote names a directory and
\* what it holds, or neither.
Telling(a) ==
    a.kind = "result" =>
        \/ a.dir = None /\ a.names = None
        \/ a.dir \in Dir /\ a.names = IF a.dir \in Bare THEN "" ELSE a.dir

\* The answers of a command that ran.
LEMMA AnswersOfType ==
    ASSUME NEW c \in Command, NEW d \in Dir, NEW a \in AnswersOf(c, d)
    PROVE  a \in Answer /\ a # NoAnswer /\ Telling(a)
<1> DEFINE to == After[c][d]
           names == IF to \in Bare THEN "" ELSE to
<1>1. to \in Dir
  BY CommandAssumption
<1>2. /\ [kind |-> "errorMsg"] \in Answer /\ [kind |-> "status500"] \in Answer
      /\ [kind |-> "errorMsg"] # NoAnswer /\ [kind |-> "status500"] # NoAnswer
      /\ [kind |-> "errorMsg"].kind # "result" /\ [kind |-> "status500"].kind # "result"
  BY DEF Answer, NoAnswer
<1>3. Result(None, None) \in Answer /\ Result(to, names) \in Answer
  BY <1>1, ResultType DEF Where
<1>4. /\ Result(None, None).dir = None /\ Result(None, None).names = None
      /\ Result(None, None).kind = "result"
      /\ Result(to, names).dir = to /\ Result(to, names).names = names
      /\ Result(to, names).kind = "result"
  BY DEF Result
<1>5. NoAnswer.kind # "result"
  BY DEF NoAnswer
<1>6. \/ a = [kind |-> "errorMsg"] \/ a = [kind |-> "status500"]
      \/ a = Result(None, None) \/ a = Result(to, names)
  BY DEF AnswersOf
<1>7. CASE a = [kind |-> "errorMsg"] \/ a = [kind |-> "status500"]
  BY <1>2, <1>7 DEF Telling
<1>8. CASE a = Result(None, None)
  BY <1>3, <1>4, <1>5, <1>8 DEF Telling
<1>9. CASE a = Result(to, names)
  <2> HIDE DEF to
  <2> QED
    BY <1>1, <1>3, <1>4, <1>5, <1>9 DEF Telling
<1> QED
  BY <1>6, <1>7, <1>8, <1>9

\* What runs, and what is answered.
Runs(r, d, c) == ExecIn(r, d, c) \/ ExecDetached(r, d, c) \/ ExecNowhere(r, d, c)

LEMMA RunsAnswer ==
    ASSUME TypeOK, NEW r \in sent, NEW d \in Where, NEW c \in Command, Runs(r, d, c)
    PROVE  /\ ran' \in Seq(Dir \X Command)
           /\ \E a \in Answer : /\ a # NoAnswer /\ Telling(a)
                                /\ sent' = (sent \ {r}) \cup {[r EXCEPT !.answer = a]}
<1>1. ran \in Seq(Dir \X Command) /\ Login \in Dir
  BY CommandAssumption DEF TypeOK
<1>2. CASE ExecIn(r, d, c)
  <2>1. d \in Dir
    BY <1>2 DEF ExecIn, Where
  <2>2. ran' \in Seq(Dir \X Command)
    BY <1>1, <1>2, <2>1 DEF ExecIn
  <2>3. PICK a \in AnswersOf(c, d) : sent' = (sent \ {r}) \cup {[r EXCEPT !.answer = a]}
    BY <1>2 DEF ExecIn
  <2> QED
    BY <2>1, <2>2, <2>3, AnswersOfType
<1>3. CASE ExecDetached(r, d, c)
  <2>1. d \in Dir /\ Parts[c][1] \in Command /\ Parts[c][2] \in Command
    BY <1>3, CommandAssumption DEF ExecDetached, Where
  <2>2. ran' \in Seq(Dir \X Command)
    <3>1. <<<<d, Parts[c][1]>>, <<Login, Parts[c][2]>>>> \in Seq(Dir \X Command)
      BY <1>1, <2>1
    <3>2. ran' = ran \o <<<<d, Parts[c][1]>>, <<Login, Parts[c][2]>>>>
      BY <1>3 DEF ExecDetached
    <3> QED
      BY <1>1, <3>1, <3>2
  <2>3. PICK a \in AnswersOf(Parts[c][2], Login) :
               sent' = (sent \ {r}) \cup {[r EXCEPT !.answer = a]}
    BY <1>3 DEF ExecDetached
  <2> QED
    BY <1>1, <2>1, <2>2, <2>3, AnswersOfType
<1>4. CASE ExecNowhere(r, d, c) /\ c \in DOMAIN Parts
  <2>1. Parts[c][2] \in Command
    BY <1>4, CommandAssumption
  <2>2. ran' \in Seq(Dir \X Command)
    <3>1. ran' = Append(ran, <<Login, Parts[c][2]>>)
      BY <1>4 DEF ExecNowhere
    <3>2. <<Login, Parts[c][2]>> \in Dir \X Command
      BY <1>1, <2>1
    <3> QED
      BY <1>1, <3>1, <3>2
  <2>3. PICK a \in AnswersOf(Parts[c][2], Login) :
               sent' = (sent \ {r}) \cup {[r EXCEPT !.answer = a]}
    BY <1>4 DEF ExecNowhere
  <2> QED
    BY <1>1, <2>1, <2>2, <2>3, AnswersOfType
<1>5. CASE ExecNowhere(r, d, c) /\ c \notin DOMAIN Parts
  <2> DEFINE a == [kind |-> "errorMsg"]
  <2>1. a \in Answer /\ a # NoAnswer /\ Telling(a)
    BY DEF Answer, NoAnswer, Telling
  <2>2. ran' = ran /\ sent' = (sent \ {r}) \cup {[r EXCEPT !.answer = a]}
    BY <1>5 DEF ExecNowhere
  <2> QED
    BY <1>1, <2>1, <2>2
<1> QED
  BY <1>2, <1>3, <1>4, <1>5 DEF Runs

\* What the server takes for the directory and the command.
LEMMA TakingIs ==
    ASSUME TypeOK, NEW r \in sent, NEW d \in Where, NEW c \in Command, Taking(r) = <<d, c>>
    PROVE  /\ r.dir = None => d = None
           /\ r.dir \in Dir \ MangledDirs => d = r.dir
<1>1. r.dir \in Dir \cup {None} /\ r.cmd \in Command
  BY DEF TypeOK, Sent, Where
<1>2. Received[<<r.dir, r.cmd>>] = <<d, c>> /\ <<d, c>> # Garbled
  BY CommandAssumption DEF Taking, Where
<1>0. <<d, c>>[1] = d /\ None \notin Dir
  BY DirAssumption
<1>3. CASE r.dir = None
  <2>1. Received[<<None, r.cmd>>][1] = None
    BY <1>1, <1>2, <1>3, CommandAssumption
  <2> QED
    BY <1>0, <1>2, <1>3, <2>1
<1>4. CASE r.dir \in Dir \ MangledDirs
  <2>1. Received[<<r.dir, r.cmd>>] \in {r.dir} \X Command
    BY <1>1, <1>2, <1>4 DEF MangledDirs
  <2>2. <<d, c>> \in {r.dir} \X Command
    BY <1>2, <2>1
  <2>3. d = r.dir
    BY <2>2
  <2> QED
    BY <1>0, <1>4, <2>3
<1> QED
  BY <1>3, <1>4

\* What the server may do with a request.
LEMMA ExecKinds ==
    ASSUME Exec
    PROVE  \E r \in sent : /\ r.answer = NoAnswer
                           /\ \/ ExecGarbled(r) \/ ExecEmpty(r)
                              \/ \E d \in Where, c \in Command : Taking(r) = <<d, c>> /\ Runs(r, d, c)
BY DEF Exec, Runs
-----------------------------------------------------------------------------
(***************************************************************************)
(* What each step leaves of the invariant.                                 *)
(***************************************************************************)

\* A page that was just loaded.
LEMMA InitSessionInv == Init => SessionInv
<1> SUFFICES ASSUME Init PROVE SessionInv
  OBVIOUS
<1>1. TypeOK
  <2>1. 0 \in 0 .. MaxRequests
    BY BoundAssumption
  <2>2. <<>> \in Seq(Dir \X Command)
    OBVIOUS
  <2> QED
    BY <2>1, <2>2, DirAssumption DEF Init, TypeOK, Where
<1>2. SearchShown /\ PromptTrue
  BY DirAssumption, SearchPromptAssumption DEF Init, SearchShown, PromptTrue, PromptAfterSearch
<1>3. AnswersAgree /\ OneAtATime /\ SentWherePrompted
  BY DEF Init, AnswersAgree, OneAtATime, SentWherePrompted
<1>4. UnsetAtStart /\ NamesOfDirectory
  BY DEF Init, UnsetAtStart, NamesOfDirectory
<1> QED
  BY <1>1, <1>2, <1>3, <1>4 DEF SessionInv

\* A command is entered.
LEMMA SubmitSessionInv ==
    ASSUME SessionInv, NEW c \in Command, Submit(c)
    PROVE  SessionInv'
<1> USE DEF SessionInv
<1>1. PromptAfterSearch \in Where
  BY PromptAfterSearchType
<1> DEFINE new == [id |-> asked + 1, cmd |-> c, dir |-> cwd, at |-> PromptAfterSearch,
                   sure |-> ~missed, page |-> TRUE, answer |-> NoAnswer]
<1>0. /\ new.answer = NoAnswer /\ new.dir = cwd /\ new.at = PromptAfterSearch
      /\ new.sure = ~missed /\ new.page
      /\ sent' \subseteq sent \cup {new}
  BY DEF Submit
<1>2. TypeOK'
  <2>1. asked + 1 \in 1 .. MaxRequests
    BY BoundAssumption DEF TypeOK, Submit
  <2>2. NoAnswer \in Answer
    BY DEF NoAnswer, Answer
  <2>3. new \in Sent
    BY <1>1, <2>1, <2>2 DEF TypeOK, Sent
  <2>4. sent' \subseteq Sent
    BY <1>0, <2>3 DEF TypeOK
  <2>5. asked' \in 0 .. MaxRequests
    BY <2>1, BoundAssumption DEF Submit
  <2>6. UNCHANGED <<patient, cwd, saved, words, ran, missed>> /\ prompt' \in Where /\ searching' = FALSE
    BY <1>1 DEF Submit
  <2> QED
    BY <2>4, <2>5, <2>6 DEF TypeOK
<1> HIDE DEF new
<1>3. SearchShown'
  BY <1>1, SearchPromptAssumption DEF SearchShown, Submit, Where
<1>4. PromptTrue'
  BY DEF PromptTrue, PromptAfterSearch, Submit
<1>5. AnswersAgree'
  <2>1. NoAnswer.kind # "result"
    BY DEF NoAnswer
  <2> QED
    BY <1>0, <2>1 DEF AnswersAgree
<1>6. UnsetAtStart' /\ NamesOfDirectory'
  BY DEF UnsetAtStart, NamesOfDirectory, Submit
<1>7. OneAtATime'
  <2> SUFFICES ASSUME patient'
               PROVE  /\ \A r \in sent' : r.page /\ r.dir = cwd'
                      /\ \A r, s \in sent' : r = s
    BY DEF OneAtATime
  <2>1. patient /\ cwd' = cwd /\ Waiting = {}
    BY DEF Submit
  <2>2. sent = {}
    BY <2>1 DEF OneAtATime, Waiting
  <2> QED
    BY <1>0, <2>1, <2>2
<1>8. SentWherePrompted'
  <2> SUFFICES ASSUME NEW r \in sent', r.sure PROVE r.at = r.dir
    BY DEF SentWherePrompted
  <2> QED
    BY <1>0 DEF SentWherePrompted, PromptTrue
<1> QED
  BY <1>2, <1>3, <1>4, <1>5, <1>6, <1>7, <1>8

\* A search begins, goes on and ends, and Tab.
LEMMA SearchSessionInv ==
    ASSUME SessionInv, BeginSearch \/ TypeInSearch \/ EndSearch \/ Tab
    PROVE  SessionInv'
<1> USE DEF SessionInv
<1>1. TypeOK'
  BY DirAssumption DEF TypeOK, SearchShown, BeginSearch, TypeInSearch, EndSearch, Tab, Where
<1>2. SearchShown'
  BY SearchPromptAssumption DEF SearchShown, BeginSearch, TypeInSearch, EndSearch, Tab, TypeOK, Where
<1>3. PromptTrue'
  BY DEF PromptTrue, PromptAfterSearch, BeginSearch, TypeInSearch, EndSearch, Tab
<1>4. AnswersAgree' /\ OneAtATime' /\ SentWherePrompted'
  <2>1. UNCHANGED <<patient, cwd, sent>>
    BY DEF BeginSearch, TypeInSearch, EndSearch, Tab
  <2> QED
    BY <2>1 DEF AnswersAgree, OneAtATime, SentWherePrompted
<1>5. UnsetAtStart' /\ NamesOfDirectory'
  BY DEF UnsetAtStart, NamesOfDirectory, BeginSearch, TypeInSearch, EndSearch, Tab
<1> QED
  BY <1>1, <1>2, <1>3, <1>4, <1>5

\* The page is loaded again.
LEMMA ReloadSessionInv ==
    ASSUME SessionInv, Reload
    PROVE  SessionInv'
<1> USE DEF SessionInv
<1>1. \A s \in sent' :
         s \in Sent /\ \E r \in sent : /\ s.answer = r.answer
                                   /\ s.sure = r.sure /\ s.at = r.at /\ s.dir = r.dir
  BY DEF Reload, TypeOK, Sent
<1>2. TypeOK'
  BY <1>1, DirAssumption DEF TypeOK, Reload, Where
<1>3. SearchShown' /\ PromptTrue'
  BY DirAssumption, SearchPromptAssumption DEF SearchShown, PromptTrue, PromptAfterSearch, Reload
<1>4. AnswersAgree' /\ SentWherePrompted'
  BY <1>1 DEF AnswersAgree, SentWherePrompted
<1>5. UnsetAtStart' /\ NamesOfDirectory'
  BY DEF UnsetAtStart, NamesOfDirectory, Reload
<1>6. OneAtATime'
  BY <1>1 DEF OneAtATime, Reload, Waiting
<1> QED
  BY <1>2, <1>3, <1>4, <1>5, <1>6

\* An answer is taken.
LEMMA TakenSessionInv ==
    ASSUME SessionInv, NEW r \in Waiting, Taken(r)
    PROVE  SessionInv'
<1> USE DEF SessionInv
<1> DEFINE a == r.answer
<1>1. r \in sent /\ r \in Sent /\ sent' = sent \ {r}
  BY DEF Waiting, Taken, TypeOK
<1>2. CASE a.kind # "result" \/ a.dir = ""
  <2>1. UNCHANGED <<patient, cwd, prompt, saved, searching, ran, missed, asked>>
    BY <1>2 DEF Taken
  <2>2. words' \in {words, None}
    BY <1>1, <1>2, DirAssumption DEF Taken, AnswersAgree
  <2>3. TypeOK'
    BY <1>1, <2>1, <2>2 DEF TypeOK, Where
  <2>4. SearchShown' /\ PromptTrue' /\ AnswersAgree' /\ OneAtATime' /\ SentWherePrompted'
    BY <1>1, <2>1 DEF SearchShown, PromptTrue, PromptAfterSearch, AnswersAgree, OneAtATime,
                      SentWherePrompted
  <2>5. UnsetAtStart' /\ NamesOfDirectory'
    BY <2>1, <2>2, DirAssumption DEF UnsetAtStart, NamesOfDirectory
  <2> QED
    BY <2>3, <2>4, <2>5
<1>3. CASE a.kind = "result" /\ a.dir # ""
  <2>1. a.dir \in Where /\ a.names \in Where \cup {""}
    BY <1>1, <1>3 DEF Sent, Answer
  <2>2. /\ cwd' = a.dir /\ prompt' = a.dir /\ missed' = searching
        /\ words' = IF a.names = "" THEN words ELSE a.names
        /\ UNCHANGED <<patient, saved, searching, ran, asked>>
    BY <1>3 DEF Taken
  <2>3. \/ a.names = a.dir /\ a.names # ""
        \/ a.dir \in Bare /\ a.names = ""
    BY <1>1, <1>3 DEF AnswersAgree
  <2>4. TypeOK'
    BY <1>1, <2>1, <2>2 DEF TypeOK, Where
  <2>5. SearchShown' /\ PromptTrue'
    BY <2>1, <2>2, SearchPromptAssumption DEF SearchShown, PromptTrue, PromptAfterSearch, Where
  <2>6. AnswersAgree' /\ SentWherePrompted'
    BY <1>1 DEF AnswersAgree, SentWherePrompted
  <2>7. OneAtATime'
    BY <1>1, <2>2 DEF OneAtATime
  <2>8. UnsetAtStart' /\ NamesOfDirectory'
    BY <2>1, <2>2, <2>3, DirAssumption DEF UnsetAtStart, NamesOfDirectory, Where
  <2> QED
    BY <2>4, <2>5, <2>6, <2>7, <2>8
<1> QED
  BY <1>2, <1>3

\* A request gets an answer.
LEMMA ServedSessionInv ==
    ASSUME SessionInv, NEW r \in sent, NEW a \in Answer,
           r.answer = NoAnswer,
           sent' = (sent \ {r}) \cup {[r EXCEPT !.answer = a]},
           a.kind = "result" =>
               \/ a.dir = "" /\ a.names = None
               \/ a.dir # "" /\ a.names = a.dir
               \/ a.dir \in Bare /\ a.names = "",
           ran' \in Seq(Dir \X Command),
           UNCHANGED <<patient, cwd, prompt, saved, searching, words, missed, asked>>
    PROVE  SessionInv'
<1> USE DEF SessionInv
<1> DEFINE s == [r EXCEPT !.answer = a]
<1>1. r \in Sent
  BY DEF TypeOK
<1>2. s.page = r.page /\ s.dir = r.dir /\ s.at = r.at /\ s.sure = r.sure /\ s.answer = a
  BY <1>1 DEF Sent
<1>3. sent' \subseteq Sent
  BY AnsweredType
<1>4. TypeOK'
  BY <1>3 DEF TypeOK
<1> HIDE DEF s
<1>5. sent' = (sent \ {r}) \cup {s}
  BY DEF s
<1>6. SearchShown' /\ PromptTrue' /\ UnsetAtStart' /\ NamesOfDirectory'
  BY DEF SearchShown, PromptTrue, PromptAfterSearch, UnsetAtStart, NamesOfDirectory
<1>7. AnswersAgree'
  BY <1>2, <1>5 DEF AnswersAgree
<1>8. OneAtATime'
  BY <1>2, <1>5 DEF OneAtATime
<1>9. SentWherePrompted'
  BY <1>2, <1>5 DEF SentWherePrompted
<1> QED
  BY <1>4, <1>6, <1>7, <1>8, <1>9

\* The server runs a command, or answers without running one.
LEMMA ServeSessionInv ==
    ASSUME SessionInv, Serve
    PROVE  SessionInv'
<1>1. TypeOK /\ ran \in Seq(Dir \X Command)
  BY DEF SessionInv, TypeOK
<1>2. [kind |-> "status500"] \in Answer
  BY DEF Answer
<1>3. CASE Exec
  <2>1. PICK r \in sent :
           /\ r.answer = NoAnswer
           /\ \/ ExecGarbled(r) \/ ExecEmpty(r)
              \/ \E d \in Where, c \in Command : Taking(r) = <<d, c>> /\ Runs(r, d, c)
    BY <1>3, ExecKinds
  <2>2. UNCHANGED <<patient, cwd, prompt, saved, searching, words, missed, asked>>
    BY <1>3 DEF Exec
  <2>3. CASE ExecEmpty(r)
    <3>1. Result("", None) \in Answer
      BY ResultType DEF Where
    <3> QED
      BY <1>1, <2>1, <2>2, <2>3, <3>1, ServedSessionInv DEF ExecEmpty, Result
  <2>4. CASE \E d \in Where, c \in Command : Taking(r) = <<d, c>> /\ Runs(r, d, c)
    <3>1. PICK d \in Where, c \in Command : Runs(r, d, c)
      BY <2>4
    <3>2. ran' \in Seq(Dir \X Command)
      BY <1>1, <3>1, RunsAnswer
    <3>3. PICK a \in Answer :
             Telling(a) /\ sent' = (sent \ {r}) \cup {[r EXCEPT !.answer = a]}
      BY <1>1, <3>1, RunsAnswer
    <3>4. a.kind = "result" =>
             \/ a.dir # "" /\ a.names = a.dir
             \/ a.dir \in Bare /\ a.names = ""
      BY <3>3, DirAssumption DEF Telling
    <3> QED
      BY <2>1, <2>2, <3>2, <3>3, <3>4, ServedSessionInv
  <2>5. CASE ExecGarbled(r)
    BY <1>1, <1>2, <2>1, <2>2, <2>5, ServedSessionInv DEF ExecGarbled
  <2> QED
    BY <2>1, <2>3, <2>4, <2>5
<1>4. CASE SshFails
  <2>1. PICK r \in sent :
           /\ r.answer = NoAnswer
           /\ sent' = (sent \ {r}) \cup {[r EXCEPT !.answer = [kind |-> "status500"]]}
    BY <1>4 DEF SshFails
  <2> QED
    BY <1>1, <1>2, <1>4, <2>1, ServedSessionInv DEF SshFails
<1> QED
  BY <1>3, <1>4 DEF Serve

\* Nothing happens.
LEMMA StutterSessionInv ==
    ASSUME SessionInv, UNCHANGED vars
    PROVE  SessionInv'
BY DEF vars, SessionInv, TypeOK, SearchShown, PromptTrue, PromptAfterSearch, AnswersAgree,
       UnsetAtStart, OneAtATime, SentWherePrompted, NamesOfDirectory

\* Every step keeps the invariant.
LEMMA NextSessionInv == SessionInv /\ [Next]_vars => SessionInv'
<1> SUFFICES ASSUME SessionInv, [Next]_vars PROVE SessionInv'
  OBVIOUS
<1>1. ASSUME NEW c \in Command, Submit(c) PROVE SessionInv'
  BY <1>1, SubmitSessionInv
<1>2. CASE BeginSearch \/ TypeInSearch \/ EndSearch \/ Tab
  BY <1>2, SearchSessionInv
<1>3. CASE Reload
  BY <1>3, ReloadSessionInv
<1>4. CASE TakeAnswer
  BY <1>4, TakenSessionInv DEF TakeAnswer
<1>5. CASE Serve
  BY <1>5, ServeSessionInv
<1>6. CASE UNCHANGED vars
  BY <1>6, StutterSessionInv
<1> QED
  BY <1>1, <1>2, <1>3, <1>4, <1>5, <1>6 DEF Next, User

-----------------------------------------------------------------------------
(***************************************************************************)
(* Theorems.                                                               *)
(***************************************************************************)

\* The invariant holds always.
THEOREM SessionInvariant == Spec => []SessionInv
BY InitSessionInv, NextSessionInv, PTL DEF Spec

\* The variables of page and server have values of their types (init.js, SshClient).
THEOREM TypeCorrect == Spec => []TypeOK
<1>1. SessionInv => TypeOK
  BY DEF SessionInv
<1> QED
  BY <1>1, SessionInvariant, PTL

\* Whatever order answers come in, commands run where the prompt said, and Tab
\* completes names of the directory that the page is in (init.js: the callbacks of
\* $.jrpc; jquery.terminal: clear_reverse_state).
THEOREM SessionTrue == Spec => []SessionShown
<1>1. SessionInv => SessionShown
  BY DEF SessionInv, SessionShown
<1> QED
  BY <1>1, SessionInvariant, PTL
-----------------------------------------------------------------------------
(***************************************************************************)
(* The page and the server implement Shell.                                *)
(***************************************************************************)

\* A user who waits is where the one answer says, if there is one that says it.
LEMMA SessionDirIs ==
    ASSUME SessionInv
    PROVE  /\ ~patient \/ sent = {} => SessionDir = cwd
           /\ \A r \in sent : patient =>
                SessionDir = IF r.answer.kind = "result" /\ r.answer.dir # "" THEN r.answer.dir ELSE cwd
<1>1. ~patient \/ sent = {} => SessionDir = cwd
  BY DEF SessionDir, Pending, Waiting
<1>2. ASSUME NEW r \in sent, patient
      PROVE  SessionDir = IF r.answer.kind = "result" /\ r.answer.dir # "" THEN r.answer.dir ELSE cwd
  <2>1. r.page /\ \A s \in sent : s = r
    BY <1>2 DEF SessionInv, OneAtATime
  <2>2. CASE r.answer.kind = "result" /\ r.answer.dir # ""
    <3>1. Pending = {r}
      BY <2>1, <2>2 DEF Pending, Waiting
    <3>2. (CHOOSE s \in Pending : TRUE) = r
      BY <3>1
    <3> QED
      BY <1>2, <2>2, <3>1, <3>2 DEF SessionDir
  <2>3. CASE ~(r.answer.kind = "result" /\ r.answer.dir # "")
    <3>1. Pending = {}
      BY <2>1, <2>3 DEF Pending, Waiting
    <3> QED
      BY <2>3, <3>1 DEF SessionDir
  <2> QED
    BY <2>2, <2>3
<1> QED
  BY <1>1, <1>2

\* The session is in a directory, or nowhere.
LEMMA SessionDirType == SessionInv => SessionDir \in Where
<1> SUFFICES ASSUME SessionInv PROVE SessionDir \in Where
  OBVIOUS
<1>1. cwd \in Where /\ \A r \in sent : r.answer \in Answer
  BY DEF SessionInv, TypeOK, Sent
<1>2. \A a \in Answer : a.kind = "result" /\ a.dir # "" => a.dir \in Where
  BY DEF Answer
<1>3. CASE patient /\ sent # {}
  <2>1. PICK r \in sent : TRUE
    BY <1>3
  <2> QED
    BY <1>1, <1>2, <1>3, <2>1, SessionDirIs
<1>4. CASE ~(patient /\ sent # {})
  BY <1>1, <1>4, SessionDirIs
<1> QED
  BY <1>3, <1>4

\* A step that runs nothing and leaves a user who waits where the session was is a
\* stutter of Shell, or one that is impatient.
LEMMA QuietStep ==
    ASSUME SessionInv, SessionInv', UNCHANGED <<patient, ran>>,
           patient => SessionDir' = SessionDir
    PROVE  [S!Next]_(S!vars)
<1>1. (SessionDir \in Where)'
  BY SessionDirType, PTL
<1>2. CASE patient
  BY <1>2 DEF S!vars
<1>3. CASE ~patient
  BY <1>1, <1>3 DEF S!Next, S!RunAnywhere, Where
<1> QED
  BY <1>2, <1>3

\* The page, as its user uses it.
LEMMA UserImplements ==
    ASSUME SessionInv, SessionInv', User
    PROVE  [S!Next]_(S!vars)
<1>1. UNCHANGED <<patient, ran>>
  BY DEF User, Submit, BeginSearch, TypeInSearch, EndSearch, Tab, Reload
<1>2. ASSUME NEW c \in Command, Submit(c) PROVE patient => SessionDir' = SessionDir
  <2> SUFFICES ASSUME patient PROVE SessionDir' = SessionDir
    OBVIOUS
  <2>1. sent = {} /\ cwd' = cwd
    BY <1>2 DEF Submit, Waiting, SessionInv, OneAtATime
  <2>2. \A r \in sent' : r.answer = NoAnswer
    BY <1>2, <2>1 DEF Submit
  <2>3. NoAnswer.kind # "result"
    BY DEF NoAnswer
  <2>4. SessionDir' = cwd'
    BY <2>2, <2>3 DEF SessionDir, Pending, Waiting
  <2> QED
    BY <2>1, <2>4, SessionDirIs
<1>3. CASE BeginSearch \/ TypeInSearch \/ EndSearch \/ Tab
  <2>1. UNCHANGED <<patient, cwd, sent>>
    BY <1>3 DEF BeginSearch, TypeInSearch, EndSearch, Tab
  <2>2. SessionDir' = SessionDir
    BY <2>1 DEF SessionDir, Pending, Waiting
  <2> QED
    BY <1>1, <2>2, QuietStep
<1>4. CASE Reload
  <2>1. CASE patient
    <3>1. sent = {} /\ cwd' = Start
      BY <1>4, <2>1 DEF Reload, Waiting, SessionInv, OneAtATime
    <3>2. sent' = {}
      BY <1>4, <3>1 DEF Reload
    <3>3. SessionDir' = Start
      BY <3>1, <3>2 DEF SessionDir, Pending, Waiting
    <3> QED
      BY <1>1, <3>3 DEF S!Next, S!Restart
  <2>2. CASE ~patient
    BY <1>1, <2>2, QuietStep
  <2> QED
    BY <2>1, <2>2
<1> QED
  BY <1>1, <1>2, <1>3, <1>4, QuietStep DEF User

\* An answer is taken: the page goes where the session already was.
LEMMA TakenImplements ==
    ASSUME SessionInv, SessionInv', NEW r \in Waiting, Taken(r)
    PROVE  [S!Next]_(S!vars)
<1>1. UNCHANGED <<patient, ran>>
  BY DEF Taken
<1>2. ASSUME patient PROVE SessionDir' = SessionDir
  <2>1. r \in sent /\ sent' = {}
    BY <1>2 DEF Taken, Waiting, SessionInv, OneAtATime
  <2>2. SessionDir' = cwd'
    BY <2>1 DEF SessionDir, Pending, Waiting
  <2>3. cwd' = IF r.answer.kind = "result" /\ r.answer.dir # "" THEN r.answer.dir ELSE cwd
    BY DEF Taken
  <2> QED
    BY <1>2, <2>1, <2>2, <2>3, SessionDirIs
<1> QED
  BY <1>1, <1>2, QuietStep

\* The server: a command runs where the user who waits for it is.
LEMMA ServeImplements ==
    ASSUME SessionInv, SessionInv', Serve
    PROVE  [S!Next]_(S!vars)
<1>1. TypeOK
  BY DEF SessionInv
<1>2. UNCHANGED <<patient, cwd>>
  BY DEF Serve, Exec, SshFails
<1>3. ASSUME NEW r \in sent, NEW a \in Answer, r.answer = NoAnswer,
             sent' = (sent \ {r}) \cup {[r EXCEPT !.answer = a]},
             ~(a.kind = "result" /\ a.dir # ""), ran' = ran
      PROVE  [S!Next]_(S!vars)
  <2>1. ASSUME patient PROVE SessionDir' = SessionDir
    <3>1. r \in Sent /\ NoAnswer.kind # "result"
      BY <1>1 DEF TypeOK, NoAnswer
    <3>2. SessionDir = cwd
      BY <1>3, <2>1, <3>1, SessionDirIs
    <3>3. sent' = {[r EXCEPT !.answer = a]}
      BY <1>3, <2>1 DEF SessionInv, OneAtATime
    <3>4. [r EXCEPT !.answer = a].answer = a
      BY <3>1 DEF Sent
    <3>5. SessionDir' = cwd'
      BY <1>3, <3>3, <3>4 DEF SessionDir, Pending, Waiting
    <3> QED
      BY <1>2, <3>2, <3>5
  <2> QED
    BY <1>2, <1>3, <2>1, QuietStep
<1>4. [kind |-> "status500"] \in Answer
  BY DEF Answer
<1>5. CASE SshFails
  <2>1. PICK r \in sent :
           /\ r.answer = NoAnswer
           /\ sent' = (sent \ {r}) \cup {[r EXCEPT !.answer = [kind |-> "status500"]]}
           /\ ran' = ran
    BY <1>5 DEF SshFails
  <2> QED
    BY <1>3, <1>4, <2>1
<1>6. CASE Exec
  <2>1. PICK r \in sent :
           /\ r.answer = NoAnswer
           /\ \/ ExecGarbled(r) \/ ExecEmpty(r)
              \/ \E d \in Where, c \in Command : Taking(r) = <<d, c>> /\ Runs(r, d, c)
    BY <1>6, ExecKinds
  <2>2. CASE ExecEmpty(r)
    <3>1. Result("", None) \in Answer /\ Result("", None).dir = ""
      BY ResultType DEF Where, Result
    <3> QED
      BY <1>3, <2>1, <2>2, <3>1 DEF ExecEmpty
  <2>3. CASE ExecGarbled(r)
    BY <1>3, <1>4, <2>1, <2>3 DEF ExecGarbled
  <2>4. CASE \E d \in Where, c \in Command : Taking(r) = <<d, c>> /\ Runs(r, d, c)
    <3>1. PICK d \in Where, c \in Command : Taking(r) = <<d, c>> /\ Runs(r, d, c)
      BY <2>4
    <3>2. SessionDir \in Where /\ SessionDir' \in Where
      <4>1. (SessionDir \in Where)'
        BY SessionDirType, PTL
      <4> QED
        BY <4>1, SessionDirType DEF Where
    <3>3. ~patient \/ SessionDir = r.dir
      <4>1. NoAnswer.kind # "result"
        BY DEF NoAnswer
      <4> QED
        BY <2>1, <4>1, SessionDirIs DEF SessionInv, OneAtATime
    <3>4. \/ patient /\ SessionDir = None /\ d = None
          \/ patient /\ SessionDir \in Dir \ MangledDirs /\ d = SessionDir
          \/ ~patient \/ SessionDir \in MangledDirs
      BY <1>1, <3>1, <3>2, <3>3, TakingIs DEF Where
    <3>5. CASE ExecNowhere(r, d, c) /\ c \notin DOMAIN Parts
      <4>1. ran' = ran /\ sent' = (sent \ {r}) \cup {[r EXCEPT !.answer = [kind |-> "errorMsg"]]}
        BY <3>5 DEF ExecNowhere
      <4>2. [kind |-> "errorMsg"] \in Answer
        BY DEF Answer
      <4> QED
        BY <1>3, <2>1, <4>1, <4>2
    <3>6. CASE ExecNowhere(r, d, c) /\ c \in DOMAIN Parts
      <4>1. d = None /\ ran' = Append(ran, <<Login, Parts[c][2]>>)
        BY <3>6 DEF ExecNowhere
      <4>2. Login \in Dir /\ Parts[c][2] \in Command
        BY <3>6, CommandAssumption
      <4>3. S!RunRest(c) \/ S!RunAnywhere
        <5>1. CASE SessionDir = None
          BY <3>2, <3>6, <4>1, <5>1 DEF S!RunRest, Where
        <5>2. CASE ~patient \/ SessionDir \in MangledDirs
          BY <3>2, <4>1, <4>2, <5>2 DEF S!RunAnywhere, Where
        <5> QED
          BY <3>4, <4>1, <5>1, <5>2, DirAssumption
      <4> QED
        BY <1>2, <4>3 DEF S!Next
    <3>7. CASE ExecIn(r, d, c)
      <4>1. d \in Dir /\ c \notin Detached /\ ran' = Append(ran, <<d, c>>)
        BY <3>7 DEF ExecIn, Where
      <4>2. S!Run(c) \/ S!RunAnywhere
        <5>1. CASE SessionDir = d
          BY <3>2, <4>1, <5>1, DirAssumption DEF S!Run, Where
        <5>2. CASE ~patient \/ SessionDir \in MangledDirs
          BY <3>2, <4>1, <5>2 DEF S!RunAnywhere, Where
        <5> QED
          BY <3>4, <4>1, <5>1, <5>2, DirAssumption
      <4> QED
        BY <1>2, <4>2 DEF S!Next
    <3>8. CASE ExecDetached(r, d, c)
      <4>1. /\ d \in Dir /\ c \in Detached
            /\ ran' = ran \o <<<<d, Parts[c][1]>>, <<Login, Parts[c][2]>>>>
        BY <3>8 DEF ExecDetached, Where
      <4>2. S!RunDetached(c) \/ S!RunAnywhere
        <5>1. CASE SessionDir = d
          BY <3>2, <4>1, <5>1, DirAssumption DEF S!RunDetached, Where
        <5>2. CASE ~patient \/ SessionDir \in MangledDirs
          BY <3>2, <4>1, <5>2 DEF S!RunAnywhere, Where
        <5> QED
          BY <3>4, <4>1, <5>1, <5>2, DirAssumption
      <4> QED
        BY <1>2, <4>2 DEF S!Next
    <3> QED
      BY <3>1, <3>5, <3>6, <3>7, <3>8 DEF Runs
  <2> QED
    BY <2>1, <2>2, <2>3, <2>4
<1> QED
  BY <1>5, <1>6 DEF Serve

\* The stateless server and the page make up a session: for a user who waits, each
\* command runs where the ones before it left the session, except what "&" detaches
\* from "cd" and what a failed "cd" leaves of it (init.js, SshClient.exec,
\* RichSshClient.execAndRetrieveWorkingDir, UtilWeb.processTerminalRequestJson).
THEOREM SessionImplemented == Spec => ShellSession
<1>1. Init => S!Init
  <2> SUFFICES ASSUME Init PROVE S!Init
    OBVIOUS
  <2>1. SessionDir = Start
    BY InitSessionInv, SessionDirIs DEF Init
  <2> QED
    BY <2>1 DEF Init, S!Init
<1>2. SessionInv /\ SessionInv' /\ [Next]_vars => [S!Next]_(S!vars)
  <2> SUFFICES ASSUME SessionInv, SessionInv', [Next]_vars PROVE [S!Next]_(S!vars)
    OBVIOUS
  <2>1. CASE UNCHANGED vars
    BY <2>1 DEF vars, S!vars, SessionDir, Pending, Waiting
  <2>2. CASE TakeAnswer
    BY <2>2, TakenImplements DEF TakeAnswer
  <2> QED
    BY <2>1, <2>2, UserImplements, ServeImplements DEF Next
<1> QED
  BY <1>1, <1>2, SessionInvariant, PTL DEF Spec, ShellSession, S!Spec

=============================================================================
