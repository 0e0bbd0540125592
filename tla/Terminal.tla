------------------------------- MODULE Terminal -------------------------------
(***************************************************************************)
(* The web terminal: the page (init.js on jquery.terminal), the servlet    *)
(* and SshClient.  The server keeps no session: the page sends the working *)
(* directory with each command and takes the new one from the answer.  The *)
(* page does not wait: several commands may be on their way, and their     *)
(* answers come back in any order, also while the user searches the        *)
(* history of commands (CTRL+R), which borrows the prompt.                 *)
(***************************************************************************)
EXTENDS Naturals, Sequences, FiniteSets

CONSTANTS
    Dir,         \* the directories of the machine
    Start,       \* where a page that is loaded starts
    Bare,        \* the directories that hold nothing
    Command,     \* what the user may enter
    Here,        \* commands the page handles itself ("clear", "exit")
    Received,    \* the directory and the command the server makes of those sent
    Garbled,     \* what it makes of those it cannot cut into two
    Blank,       \* the empty command
    Parts,       \* of commands of two parts, joined by ";", "||" or "&": the one
                 \* before and the one after
    Detached,    \* those joined by "&"
    Login,       \* the directory an SSH session starts in
    Failing,     \* commands that end with an error
    Swallowing,  \* commands that keep what follows them from running ("... #")
    After,       \* the directory a command leaves the shell in
    Remote,      \* whether the page is the one of the remote machine
    SshMayFail,  \* whether SSH commands may fail
    MaxRequests, \* BOUND: commands entered
    None,        \* what an answer says for nothing: "*NONE*"
    SearchPrompt \* the prompt of a search: "(reverse-i-search)`': "

ASSUME DirAssumption ==
    /\ Start \in Dir /\ Bare \subseteq Dir /\ None \notin Dir
    /\ {"", "unset"} \cap (Dir \cup {None}) = {}     \* "pwd" prints absolute paths
ASSUME CommandAssumption ==
    /\ Here \subseteq Command /\ Blank \in Command \ Here
    /\ Failing \subseteq Command /\ Swallowing \subseteq Command
    /\ Received \in [(Dir \cup {None}) \X Command -> ((Dir \cup {None}) \X Command) \cup {Garbled}]
    /\ Garbled \notin (Dir \cup {None}) \X Command
    /\ \A c \in Command : Received[<<None, c>>] # Garbled => Received[<<None, c>>][1] = None
    /\ DOMAIN Parts \subseteq Command \ {Blank} /\ Detached \subseteq DOMAIN Parts
    /\ \A c \in DOMAIN Parts : Parts[c] \in (Command \ Detached) \X (Command \ Detached)
    /\ Login \in Dir
    /\ After \in [Command -> [Dir -> Dir]]
ASSUME SearchPromptAssumption == SearchPrompt \notin Dir \cup {None}
ASSUME FlagAssumption == Remote \in BOOLEAN /\ SshMayFail \in BOOLEAN
ASSUME BoundAssumption == MaxRequests \in Nat

VARIABLES
    patient,   \* whether the user waits for answers
    cwd,       \* #hidCurrentWorkingDir
    prompt,    \* the directory in the prompt of the command line
    saved,     \* backup_prompt, while searching
    searching, \* reverse_search
    words,     \* the directory whose files all_my_commands names
    sent,      \* the requests on their way
    ran,       \* HISTORY: the commands the machine ran, and where
    missed,    \* HISTORY: whether a prompt was set that a search took back
    asked      \* BOUND: commands entered so far

vars == <<patient, cwd, prompt, saved, searching, words, sent, ran, missed, asked>>

Where == Dir \cup {None}

\* What comes back: a JSON object (errorMsg, or result and resultWorkingDir),
\* or the status 500 of an exception.  NoAnswer: not yet.
Answer ==
    [kind : {"result"}, dir : Where \cup {""}, names : Where \cup {""}]
    \cup [kind : {"errorMsg", "status500", "none"}]
NoAnswer == [kind |-> "none"]

\* id: their number; at: HISTORY, the directory the prompt showed, and sure: if
\* no search had taken a prompt back; page: if the page that sent it is there.
Sent == [id : 1 .. MaxRequests, cmd : Command, dir : Where, at : Where,
         sure : BOOLEAN, page : BOOLEAN, answer : Answer]

TypeOK ==
    /\ patient \in BOOLEAN
    /\ cwd \in Where
    /\ prompt \in Where \cup {SearchPrompt}
    /\ saved \in Where
    /\ searching \in BOOLEAN
    /\ words \in Where \cup {"unset"}
    /\ sent \subseteq Sent
    /\ ran \in Seq(Dir \X Command)
    /\ missed \in BOOLEAN
    /\ asked \in 0 .. MaxRequests

Init ==
    /\ patient \in BOOLEAN
    /\ cwd = Start /\ prompt = Start /\ saved = Start
    /\ searching = FALSE /\ words = "unset"
    /\ sent = {} /\ ran = <<>> /\ missed = FALSE /\ asked = 0

-----------------------------------------------------------------------------
\* The page.

Waiting == {r \in sent : r.page}

\* clear_reverse_state gives back the prompt that was there before the search.
PromptAfterSearch == IF searching THEN saved ELSE prompt

\* Enter: a search ends; commands() echoes the command, handles "clear" and
\* "exit" and gives the others to the interpreter of init.js, which sends them.
Submit(c) ==
    /\ asked < MaxRequests /\ asked' = asked + 1
    /\ patient => Waiting = {}
    /\ prompt' = PromptAfterSearch /\ searching' = FALSE
    /\ sent' = IF c \in Here THEN sent
               ELSE sent \cup {[id |-> asked + 1, cmd |-> c, dir |-> cwd,
                      at |-> PromptAfterSearch, sure |-> ~missed,
                      page |-> TRUE, answer |-> NoAnswer]}
    /\ UNCHANGED <<patient, cwd, saved, words, ran, missed>>

\* MUTANT: CTRL+R in a search begins it again.
BeginSearchAgain ==
    /\ searching' = TRUE
    /\ saved' = prompt
    /\ prompt' = SearchPrompt
    /\ UNCHANGED <<patient, cwd, words, sent, ran, missed, asked>>

\* CTRL+R.
BeginSearch ==
    /\ ~searching /\ searching' = TRUE
    /\ saved' = prompt
    /\ prompt' = SearchPrompt
    /\ UNCHANGED <<patient, cwd, words, sent, ran, missed, asked>>

\* A character typed while searching draws the prompt of the search again.
TypeInSearch ==
    /\ searching
    /\ prompt' = SearchPrompt
    /\ UNCHANGED <<patient, cwd, saved, searching, words, sent, ran, missed, asked>>

\* CTRL+G, or an arrow: the search ends.
EndSearch ==
    /\ searching /\ searching' = FALSE
    /\ prompt' = saved
    /\ UNCHANGED <<patient, cwd, saved, words, sent, ran, missed, asked>>

\* Tab: the first one splits the names the page was loaded with.  The page of
\* the remote machine has none: it throws, and the next Tab does it again.
Tab ==
    /\ words' = IF words = "unset" /\ ~Remote THEN Start ELSE words
    /\ UNCHANGED <<patient, cwd, prompt, saved, searching, sent, ran, missed, asked>>

\* MUTANT: the prompt is updated and the hidden field is not.
TakenPromptOnly(r) ==
    LET a == r.answer IN
    /\ IF a.kind # "result" THEN UNCHANGED <<cwd, prompt, words, missed>>
       ELSE /\ IF a.dir = "" THEN UNCHANGED <<cwd, prompt, missed>>
               ELSE /\ prompt' = a.dir /\ missed' = searching /\ UNCHANGED cwd
            /\ words' = IF a.names = "" THEN words ELSE a.names
    /\ sent' = sent \ {r}
    /\ UNCHANGED <<patient, saved, searching, ran, asked>>

\* The callbacks of $.jrpc: an error is shown; a result sets the prompt, the
\* hidden field and the names to complete, each when the answer has it.
Taken(r) ==
    LET a == r.answer IN
    /\ IF a.kind # "result" THEN UNCHANGED <<cwd, prompt, words, missed>>
       ELSE /\ IF a.dir = "" THEN UNCHANGED <<cwd, prompt, missed>>
               ELSE cwd' = a.dir /\ prompt' = a.dir /\ missed' = searching
            /\ words' = IF a.names = "" THEN words ELSE a.names
    /\ sent' = sent \ {r}
    /\ UNCHANGED <<patient, saved, searching, ran, asked>>

\* MUTANT: the error callback of $.ajax is not given.
TakeJson == \E r \in Waiting : r.answer.kind \in {"result", "errorMsg"} /\ Taken(r)

TakeAnswer == \E r \in Waiting : r.answer # NoAnswer /\ Taken(r)

\* The user loads the page again; what it sent is still run by the server.
Reload ==
    /\ patient => Waiting = {}
    /\ cwd' = Start /\ prompt' = Start /\ saved' = Start
    /\ searching' = FALSE /\ words' = "unset" /\ missed' = FALSE
    /\ sent' = {[r EXCEPT !.page = FALSE] : r \in sent}
    /\ UNCHANGED <<patient, ran, asked>>

-----------------------------------------------------------------------------
\* The server: "cd dir && command && echo .. && ls -laF && echo .. && pwd".

Result(dir, names) == [kind |-> "result", dir |-> dir, names |-> names]

\* What is answered when the last command of the line was c and ran in d.  When
\* what follows c did not run the answer is cut out of what is not there: an
\* exception, or nothing ("*NONE*") if all that was written is one line.
AnswersOf(c, d) ==
    LET to == After[c][d] IN
    CASE c \in Failing    -> {[kind |-> "errorMsg"]}
      [] c \in Swallowing \ Failing -> {[kind |-> "status500"], Result(None, None)}
      [] OTHER            -> {Result(to, IF to \in Bare THEN "" ELSE to)}

\* SshClient.exec answers an empty command itself: no directory, and no names.
ExecEmpty(r) ==
    /\ ran' = ran
    /\ sent' = (sent \ {r}) \cup {[r EXCEPT !.answer = Result("", None)]}

\* execAndRetrieveWorkingDir, in a directory that is there.
ExecIn(r, d, c) ==
    /\ c \notin Detached /\ d # None
    /\ ran' = Append(ran, <<d, c>>)
    /\ \E a \in AnswersOf(c, d) : sent' = (sent \ {r}) \cup {[r EXCEPT !.answer = a]}

\* "cd dir && a & b && ..": "&" ends what is run in a shell of its own, with "cd", so
\* that b and what follows run where the session of SSH starts.
ExecDetached(r, d, c) ==
    /\ c \in Detached /\ d # None
    /\ ran' = ran \o <<<<d, Parts[c][1]>>, <<Login, Parts[c][2]>>>>
    /\ \E a \in AnswersOf(Parts[c][2], Login) :
          sent' = (sent \ {r}) \cup {[r EXCEPT !.answer = a]}

\* MUTANT: as if a ";" followed "cd" and not "&&".
ExecNowhereAtLogin(r, d, c) ==
    /\ d = None
    /\ ran' = Append(ran, <<Login, c>>)
    /\ \E a \in AnswersOf(c, Login) : sent' = (sent \ {r}) \cup {[r EXCEPT !.answer = a]}

\* "cd" fails, so that the command does not run; only what its ";", "||" or "&" keeps
\* from depending on "cd" does, and is answered as if it were the command.
ExecNowhere(r, d, c) ==
    /\ d = None
    /\ IF c \in DOMAIN Parts
       THEN /\ ran' = Append(ran, <<Login, Parts[c][2]>>)
            /\ \E a \in AnswersOf(Parts[c][2], Login) :
                  sent' = (sent \ {r}) \cup {[r EXCEPT !.answer = a]}
       ELSE /\ ran' = ran
            /\ sent' = (sent \ {r}) \cup {[r EXCEPT !.answer = [kind |-> "errorMsg"]]}

\* processTerminalRequestJson cuts one character off each end of what it takes for
\* the directory and for the command: an exception if there are none.
ExecGarbled(r) ==
    /\ ran' = ran
    /\ sent' = (sent \ {r}) \cup {[r EXCEPT !.answer = [kind |-> "status500"]]}

Taking(r) == Received[<<r.dir, r.cmd>>]

Exec ==
    /\ \E r \in sent :
         /\ r.answer = NoAnswer
         /\ \/ Taking(r) = Garbled /\ ExecGarbled(r)
            \/ \E d \in Where, c \in Command :
                 /\ Taking(r) = <<d, c>>
                 /\ \/ c = Blank /\ ExecEmpty(r)
                    \/ /\ c # Blank
                       /\ ExecIn(r, d, c) \/ ExecDetached(r, d, c) \/ ExecNowhere(r, d, c)
    /\ UNCHANGED <<patient, cwd, prompt, saved, searching, words, missed, asked>>

\* SSH fails before it runs anything: an exception.
SshFails ==
    /\ SshMayFail
    /\ \E r \in sent :
         /\ r.answer = NoAnswer
         /\ Taking(r) # Garbled /\ Taking(r)[2] # Blank
         /\ sent' = (sent \ {r}) \cup {[r EXCEPT !.answer = [kind |-> "status500"]]}
    /\ UNCHANGED <<patient, cwd, prompt, saved, searching, words, ran, missed, asked>>

Serve == Exec \/ SshFails
User == \/ \E c \in Command : Submit(c)
        \/ BeginSearch \/ TypeInSearch \/ EndSearch \/ Tab \/ Reload
Next == User \/ TakeAnswer \/ Serve

\* Requests are served and answers taken; the user need not do anything.
Spec == Init /\ [][Next]_vars /\ WF_vars(Serve) /\ WF_vars(TakeAnswer)

-----------------------------------------------------------------------------
(***************************************************************************)
(* What holds.                                                             *)
(***************************************************************************)

\* The session as its user follows it: where the answer on its way says, when
\* there is one to wait for.
Pending == {r \in Waiting : r.answer.kind = "result" /\ r.answer.dir # ""}
SessionDir ==
    IF patient /\ Pending # {} THEN (CHOOSE r \in Pending : TRUE).answer.dir ELSE cwd

\* Directories with a comma in their names are cut there, and those with a blank
\* cannot be entered by a "cd" that does not quote them.
MangledDirs == {d \in Dir : \E c \in Command : Received[<<d, c>>] \notin {Garbled} \cup ({d} \X Command)}

S == INSTANCE Shell WITH Lost <- None, Mangled <- MangledDirs, dir <- SessionDir, log <- ran

\* The stateless server and the page make up a session: for a user who waits, each
\* command runs where the ones before it left the session, and of those entered
\* when it is nowhere only the parts run that do not depend on "cd".
ShellSession == S!Spec

\* Whatever order the answers came in, a command is sent to run in the directory
\* its prompt showed, unless the last answer came during a search.
SentWherePrompted == \A r \in sent : r.sure => r.at = r.dir

\* What Tab completes are names in the directory of the page, whatever order the
\* answers came in; an empty directory leaves those of the one before, and an
\* empty command none.
NamesOfDirectory == words \in {cwd, None, "unset"} \/ cwd \in Bare

\* What the page shows of its session is what the session does.
SessionShown == SentWherePrompted /\ NamesOfDirectory

\* Every command is answered, whatever becomes of it.
Answered == \A i \in 1 .. MaxRequests :
    (\E r \in Waiting : r.id = i) ~> ~(\E r \in Waiting : r.id = i)
=============================================================================
