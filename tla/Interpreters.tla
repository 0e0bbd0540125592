---------------------------- MODULE Interpreters ----------------------------
(***************************************************************************)
(* The interpreters of jquery.terminal, without login: a stack of them, of *)
(* which the top gets what is typed, and the pausing of the terminal while *)
(* a request is under way.  A callback is run to its end before anything   *)
(* else happens: agenda is what is left of it.                             *)
(***************************************************************************)
EXTENDS Naturals, Sequences, FiniteSets, SequencesExt
LOCAL INSTANCE FiniteSetsExt

CONSTANTS
    MaxExecs,    \* BOUND: commands the page executes
    MaxRequests, \* BOUND: requests ever sent
    MaxKeyed     \* BOUND: commands the user types

ASSUME InterpreterBounds == MaxExecs \in Nat /\ MaxRequests \in Nat /\ MaxKeyed \in Nat

VARIABLES
    stack,      \* interpreters: each has a kind and a prompt
    prompt,     \* the prompt of the command line
    paused,
    delayed,    \* dalyed_commands
    flight,     \* requests without an answer
    requests,   \* those that CTRL+D aborts, as they were sent
    sent,       \* how many ever were
    agenda,     \* what the callback that runs has left to do
    given, ran, lost,   \* HISTORY: commands given to exec, run, and lost
    mishaps,    \* HISTORY: "pushed", "cut", "broken": see TerminalWaits
    keyed       \* BOUND

history == <<given, ran, lost>>
interpreterVars == <<stack, prompt, paused, delayed, flight, requests, sent, agenda, history, mishaps, keyed>>

Kind == {"function", "rpc"}
Interpreter == [kind : Kind, prompt : {"> ", "rpc> ", "$ "}]
Request == [id : 1 .. MaxRequests, for : {"call", "describe", "page"}]
Task == [do : {"exec"}, n : 0 .. MaxExecs] \cup [do : {"resume", "push", "forget"}]
        \cup [do : {"abort"}, id : 1 .. MaxRequests]

Exec(n) == [do |-> "exec", n |-> n]
Do(op)  == [do |-> op]
TopInterpreter == stack[Len(stack)]

InterpretersTypeOK ==
    /\ stack \in Seq(Interpreter) /\ stack # <<>>
    /\ prompt \in {"> ", "rpc> ", "$ "}
    /\ paused \in BOOLEAN
    /\ delayed \in Seq(1 .. MaxExecs)
    /\ flight \subseteq Request
    /\ requests \in Seq(1 .. MaxRequests)
    /\ sent \in 0 .. MaxRequests
    /\ agenda \in Seq(Task)
    /\ given \in 0 .. MaxExecs /\ ran \subseteq 1 .. MaxExecs /\ lost \subseteq 1 .. MaxExecs
    /\ mishaps \subseteq {"pushed", "cut", "broken"}
    /\ keyed \in 0 .. MaxKeyed

InterpretersInit ==
    /\ stack \in {<<[kind |-> k, prompt |-> "> "]>> : k \in Kind} /\ prompt = "> "
    /\ paused = FALSE /\ delayed = <<>> /\ flight = {} /\ requests = <<>> /\ sent = 0
    /\ agenda = <<>> /\ given = 0 /\ ran = {} /\ lost = {} /\ mishaps = {} /\ keyed = 0

-----------------------------------------------------------------------------
Idle == agenda = <<>>

\* pause, and a request; "ajaxSend" puts that in the list for CTRL+D.
Ask(for) ==
    /\ sent < MaxRequests /\ sent' = sent + 1
    /\ flight' = flight \cup {[id |-> sent + 1, for |-> for]}
    /\ requests' = Append(requests, sent + 1)
    /\ paused' = TRUE

Quiet == UNCHANGED <<flight, requests, sent, paused>>

\* An exception ends the callback; if the callback is run by an abort, that
\* catches it and CTRL+D goes on.
Unwound(todo) ==
    LET stops == {i \in DOMAIN todo : todo[i].do \in {"abort", "forget"}}
    IN  IF stops = {} THEN <<>>
        ELSE SubSeq(todo, CHOOSE i \in stops : \A j \in stops : i <= j, Len(todo))

Dropped(todo) == {todo[i].n : i \in {j \in DOMAIN todo : todo[j].do = "exec"}} \ {0}

Ran(n) == ran' = ran \cup ({n} \ {0})

\* commands, of what the interpreter on top does with it.
Returns(rest) ==
    /\ Quiet /\ agenda' = rest
    /\ UNCHANGED <<stack, prompt, delayed, lost>>

\* MUTANT: the main interpreter can be left as well.
PopMain(rest) ==
    /\ Quiet /\ agenda' = rest
    /\ stack' = Front(stack)
    /\ prompt' = IF Len(stack) > 1 THEN stack[Len(stack) - 1].prompt ELSE prompt
    /\ UNCHANGED <<delayed, lost>>
\* "exit".
Pop(rest) ==
    /\ Quiet /\ agenda' = rest
    /\ IF Len(stack) > 1
       THEN stack' = Front(stack) /\ prompt' = stack[Len(stack) - 1].prompt
       ELSE UNCHANGED <<stack, prompt>>
    /\ UNCHANGED <<delayed, lost>>

\* A method of JSON-RPC, or a function that asks the server and pauses.
Call(rest) ==
    /\ Ask(IF TopInterpreter.kind = "rpc" THEN "call" ELSE "page") /\ agenda' = rest
    /\ UNCHANGED <<stack, prompt, delayed, lost>>

\* A function throws: the commands that resume had left are not run.
Throw(rest) ==
    /\ TopInterpreter.kind = "function"
    /\ Quiet /\ agenda' = Unwound(rest)
    /\ lost' = lost \cup (Dropped(rest) \ Dropped(agenda'))
    /\ UNCHANGED <<stack, prompt, delayed>>

\* exec, when its turn comes.
RunCommand ==
    /\ ~Idle /\ Head(agenda).do = "exec"
    /\ LET n == Head(agenda).n  rest == Tail(agenda) IN
       IF paused /\ n > 0
       THEN /\ delayed' = Append(delayed, n) /\ agenda' = rest
            /\ Quiet /\ UNCHANGED <<stack, prompt, history>>
       ELSE /\ Ran(n) /\ given' = given
            /\ Returns(rest) \/ Pop(rest) \/ Call(rest) \/ Throw(rest)
    /\ UNCHANGED <<mishaps, keyed>>

\* MUTANT: commands that waited go behind what the callback has left.
ResumeLast ==
    /\ ~Idle /\ Head(agenda).do = "resume"
    /\ IF paused
       THEN /\ paused' = FALSE /\ delayed' = <<>>
            /\ agenda' = Tail(agenda) \o [i \in DOMAIN delayed |-> Exec(delayed[Len(delayed) + 1 - i])]
       ELSE agenda' = Tail(agenda) /\ UNCHANGED <<paused, delayed>>
    /\ UNCHANGED <<stack, prompt, flight, requests, sent, history, mishaps, keyed>>
\* resume: one is enough, however often pause was called.
Resume ==
    /\ ~Idle /\ Head(agenda).do = "resume"
    /\ IF paused
       THEN /\ paused' = FALSE /\ delayed' = <<>>
            /\ agenda' = [i \in DOMAIN delayed |-> Exec(delayed[i])] \o Tail(agenda)
       ELSE agenda' = Tail(agenda) /\ UNCHANGED <<paused, delayed>>
    /\ UNCHANGED <<stack, prompt, flight, requests, sent, history, mishaps, keyed>>

\* push, once the interpreter is made.
Push ==
    /\ ~Idle /\ Head(agenda).do = "push" /\ agenda' = Tail(agenda)
    /\ stack' = Append(stack, [kind |-> "rpc", prompt |-> "rpc> "]) /\ prompt' = "rpc> "
    /\ UNCHANGED <<paused, delayed, flight, requests, sent, history, mishaps, keyed>>

\* What the callbacks of a request do; a description that fails makes an
\* interpreter all the same.
After(r) == <<Do("resume")>> \o (IF r.for = "describe" THEN <<Do("push")>> ELSE <<>>)

\* CTRL+D aborts the next request, if it has no answer.
Abort ==
    /\ ~Idle /\ Head(agenda).do = "abort"
    /\ LET hit == {r \in flight : r.id = Head(agenda).id} IN
       /\ flight' = flight \ hit
       /\ agenda' = (IF hit = {} THEN <<>> ELSE After(CHOOSE r \in hit : TRUE)) \o Tail(agenda)
    /\ UNCHANGED <<stack, prompt, paused, delayed, requests, sent, history, mishaps, keyed>>

Forget ==
    /\ ~Idle /\ Head(agenda).do = "forget" /\ agenda' = Tail(agenda)
    /\ requests' = <<>>
    /\ UNCHANGED <<stack, prompt, paused, delayed, flight, sent, history, mishaps, keyed>>

Callback == RunCommand \/ Resume \/ Push \/ Abort \/ Forget

-----------------------------------------------------------------------------
\* The user types a command; the command line of a paused terminal is off.
Type ==
    /\ Idle /\ ~paused /\ keyed < MaxKeyed /\ keyed' = keyed + 1
    /\ agenda' = <<Exec(0)>>
    /\ UNCHANGED <<stack, prompt, paused, delayed, flight, requests, sent, history, mishaps>>

\* CTRL+D: leaves the interpreter, or aborts what it waits for.
CtrlD ==
    /\ Idle /\ keyed < MaxKeyed /\ keyed' = keyed + 1
    /\ IF ~paused
       THEN /\ IF Len(stack) > 1
               THEN stack' = Front(stack) /\ prompt' = stack[Len(stack) - 1].prompt
               ELSE UNCHANGED <<stack, prompt>>
            /\ UNCHANGED <<agenda, mishaps>>
       ELSE /\ requests # <<>>
            /\ agenda' = [i \in DOMAIN requests |-> [do |-> "abort", id |-> Reverse(requests)[i]]]
                         \o <<Do("forget"), Do("resume")>>
            /\ mishaps' = IF delayed # <<>> THEN mishaps \cup {"cut"} ELSE mishaps
            /\ UNCHANGED <<stack, prompt>>
    /\ UNCHANGED <<paused, delayed, flight, requests, sent, history>>

\* The page executes a command, sets the prompt, or pushes an interpreter for a
\* server, which is asked first what methods it has.
PageExec ==
    /\ Idle /\ given < MaxExecs /\ given' = given + 1
    /\ agenda' = <<Exec(given + 1)>>
    /\ UNCHANGED <<stack, prompt, paused, delayed, flight, requests, sent, ran, lost, mishaps, keyed>>

SetPrompt ==
    /\ Idle /\ prompt # "$ "
    /\ prompt' = "$ " /\ stack' = [stack EXCEPT ![Len(stack)].prompt = "$ "]
    /\ UNCHANGED <<paused, delayed, flight, requests, sent, agenda, history, mishaps, keyed>>

PushServer ==
    /\ Idle /\ Ask("describe")
    /\ mishaps' = IF flight # {} THEN mishaps \cup {"pushed"} ELSE mishaps
    /\ UNCHANGED <<stack, prompt, delayed, agenda, history, keyed>>

\* A request is answered, or fails.
Answer ==
    /\ Idle
    /\ \E r \in flight : flight' = flight \ {r} /\ agenda' = After(r)
    /\ UNCHANGED <<stack, prompt, paused, delayed, requests, sent, history, mishaps, keyed>>

\* The answer to a call is null or has no content type: the callback throws.
BrokenAnswer ==
    /\ Idle
    /\ \E r \in flight : r.for # "page" /\ flight' = flight \ {r}
    /\ mishaps' = mishaps \cup {"broken"}
    /\ UNCHANGED <<stack, prompt, paused, delayed, requests, sent, agenda, history, keyed>>

InterpretersNext ==
    Callback \/ Type \/ CtrlD \/ PageExec \/ SetPrompt \/ PushServer \/ Answer \/ BrokenAnswer

-----------------------------------------------------------------------------
\* While a request that paused the terminal is under way, nothing can be typed;
\* and when nothing can be typed a request is under way, so that an answer gives
\* the terminal back.  Not held against the code: pause is no counter, so that
\* with two requests the first answer resumes ("pushed"); CTRL+D resumes again
\* after an abort has run commands that waited and paused anew ("cut"); an
\* answer that is not an object leaves the terminal paused ("broken").
TerminalWaits ==
    Idle => /\ mishaps = {} /\ flight # {} => paused
            /\ "broken" \notin mishaps /\ paused => flight # {}
            /\ ~paused => delayed = <<>>

\* Commands the page executes run in the order of their calls, none is forgotten
\* but those behind one that throws, and the prompt is that of the interpreter
\* that gets what is typed.
CommandsInOrder ==
    /\ \A n \in ran : 1 .. n - 1 \subseteq ran \cup lost
    /\ Idle => 1 .. given = ran \cup lost \cup ToSet(delayed)
    /\ prompt = TopInterpreter.prompt

\* Requests, pauses and the commands that wait for them keep in turn.
CommandsTakeTurns == TerminalWaits /\ CommandsInOrder

-----------------------------------------------------------------------------
(***************************************************************************)
(* Tab in the web terminal: what is before the cursor is completed to a    *)
(* name of the directory, as far as the names agree; pressed again it      *)
(* lists them.  The names come with the answers to commands, as one text   *)
(* with commas, made of the first word of each line's name; the mouse      *)
(* pastes and answers come between two presses without the terminal        *)
(* counting anew.  What is completed becomes a regular expression: an      *)
(* escape in it stands for nothing, and one at its end makes it no         *)
(* expression at all.                                                      *)
(***************************************************************************)

CONSTANTS
    Letter,    \* what names are made of: of no meaning to a regular expression
    Space, Comma, Backslash,
    Directories,  \* the names of files that directories of the machine hold
    Clips,     \* what the mouse pastes
    MaxLine,   \* BOUND: length of a line
    MaxTabs    \* BOUND: presses that are counted

ASSUME CompletionAssumption ==
    /\ Cardinality(Letter \cup {Space, Comma, Backslash}) = Cardinality(Letter) + 3
    /\ Directories \subseteq Seq(Seq(Letter \cup {Space, Comma})) /\ Clips \subseteq Seq(Letter)
    /\ MaxLine \in Nat /\ MaxTabs \in Nat

VARIABLES
    entered, caret,  \* the line and its cursor
    names,      \* all_my_commands
    tabs,       \* tab_count
    tab         \* HISTORY: what the last Tab did, and what came between it and the one before

completionVars == <<entered, caret, names, tabs, tab>>

CompletionTypeOK ==
    /\ entered \in Seq(Letter \cup {Space, Comma, Backslash}) /\ caret \in 0 .. Len(entered)
    /\ names \in Seq(Seq(Letter)) /\ tabs \in Nat
    /\ tab.did \in {"nothing", "part", "whole", "listed", "thrown"}

-----------------------------------------------------------------------------
\* The pieces of a text between separators: one more than there are separators.
Pieces(text, separator) ==
    LET cuts == {i \in DOMAIN text : text[i] = separator}
        ends == SetToSortSeq(cuts \cup {Len(text) + 1}, <)
    IN  [n \in DOMAIN ends |->
            SubSeq(text, (IF n = 1 THEN 0 ELSE ends[n - 1]) + 1, ends[n] - 1)]

\* parseLsLrAOutput takes the ninth word of a line, getDirectoryItems joins the
\* names with commas, and the page takes them apart.
NamesFrom(files) ==
    IF files = <<>> THEN << <<>> >>
    ELSE FlattenSeq([i \in DOMAIN files |-> Pieces(Pieces(files[i], Space)[1], Comma)])

\* The word before the cursor; an escape keeps a blank from ending it.
WordBefore ==
    LET head   == SubSeq(entered, 1, caret)
        blanks == {i \in 1 .. caret : head[i] = Space /\ (i = 1 \/ head[i - 1] # Backslash)}
    IN  SubSeq(head, (IF blanks = {} THEN 0 ELSE Max(blanks)) + 1, caret)

\* What the word says as a regular expression.
Meant(word) ==
    FoldLeft(LAMBDA so, c : IF c = Backslash /\ ~so.open THEN [so EXCEPT !.open = TRUE]
                            ELSE [text |-> Append(so.text, c), open |-> FALSE],
             [text |-> <<>>, open |-> FALSE], word)

\* matched: from the last name to the first.
Matched(word) == Reverse(SelectSeq(names, LAMBDA n : IsPrefix(Meant(word).text, n)))

\* How far the names agree, counted from the length of the word as it was typed.
Agreed(word, matched) ==
    LET agree(j) == \A m \in ToSet(matched) : Len(m) >= j /\ m[j] = matched[1][j]
        far == {j \in Len(word) + 1 .. Len(matched[1]) :
                   \A k \in Len(word) + 1 .. j : agree(k)}
    IN  IF far = {} THEN <<>> ELSE SubSeq(matched[1], Len(Meant(word).text) + 1, Max(far))

-----------------------------------------------------------------------------
CompletionInit ==
    /\ entered = <<>> /\ caret = 0 /\ tabs = 0
    /\ \E files \in Directories : names = NamesFrom(files)
    /\ tab = [did |-> "nothing", word |-> <<>>, matched |-> <<>>, added |-> <<>>,
              since |-> {"key"}, between |-> {}, before |-> "none"]

\* insert, at the cursor.
InsertText(text) ==
    /\ Len(entered) + Len(text) <= MaxLine
    /\ entered' = SubSeq(entered, 1, caret) \o text \o SubSeq(entered, caret + 1, Len(entered))
    /\ caret' = caret + Len(text)

Did(did, matched, text) ==
    tab' = [did |-> did, word |-> WordBefore, matched |-> matched, added |-> text,
            since |-> {}, between |-> tab.since, before |-> tab.did]

\* Something else happened: a key, the mouse or an answer.
Since(what) ==
    tab' = [tab EXCEPT !.since = @ \cup {what}, !.word = <<>>, !.matched = <<>>,
                       !.added = <<>>, !.between = {}, !.before = "none"]

\* The expression is none: the press is counted, and the error leaves the handler.
ThrowInTab == Did("thrown", <<>>, <<>>) /\ tabs' = tabs + 1 /\ UNCHANGED <<entered, caret>>

\* One name: the rest of it, and a blank.
CompleteWhole(matched) ==
    LET rest == SubSeq(matched[1], Len(Meant(WordBefore).text) + 1, Len(matched[1]))
    IN  /\ InsertText(Append(rest, Space))
        /\ Did("whole", matched, Append(rest, Space)) /\ tabs' = tabs + 1

\* Several: what they agree in, on the first press.
CompletePart(matched) ==
    /\ tabs + 1 < 2
    /\ InsertText(Agreed(WordBefore, matched))
    /\ Did("part", matched, Agreed(WordBefore, matched)) /\ tabs' = tabs + 1

\* On the second press they are written below the line as it was, and counting
\* begins anew.
ListNames(matched) ==
    /\ tabs + 1 >= 2
    /\ Did("listed", matched, <<>>) /\ tabs' = 0 /\ UNCHANGED <<entered, caret>>

PressTab ==
    LET matched == Matched(WordBefore)
    IN  /\ \/ Meant(WordBefore).open /\ ThrowInTab
           \/ /\ ~Meant(WordBefore).open
              /\ \/ /\ Len(matched) = 0 /\ Did("nothing", matched, <<>>)
                    /\ tabs' = tabs + 1 /\ UNCHANGED <<entered, caret>>
                 \/ Len(matched) = 1 /\ CompleteWhole(matched)
                 \/ Len(matched) > 1 /\ (CompletePart(matched) \/ ListNames(matched))
        /\ tabs < MaxTabs /\ UNCHANGED names

\* Every other key counts anew.
OtherKey(change) == change /\ tabs' = 0 /\ Since("key") /\ UNCHANGED names

PressKey ==
    \/ \E c \in Letter \cup {Space, Backslash} : OtherKey(InsertText(<<c>>))
    \/ caret > 0 /\ OtherKey(/\ entered' = SubSeq(entered, 1, caret - 1) \o SubSeq(entered, caret + 1, Len(entered))
                         /\ caret' = caret - 1)
    \/ caret > 0 /\ OtherKey(caret' = caret - 1 /\ UNCHANGED entered)

\* What the mouse pastes, and an answer's names; an empty directory's are not taken.
PasteWithMouse ==
    /\ \E text \in Clips : InsertText(text)
    /\ Since("mouse") /\ UNCHANGED <<names, tabs>>
TakeNames ==
    /\ \E files \in Directories \ {<<>>} : names' = NamesFrom(files)
    /\ Since("answer") /\ UNCHANGED <<entered, caret, tabs>>

CompletionNext == PressTab \/ PressKey \/ PasteWithMouse \/ TakeNames

CompletionSpec == CompletionInit /\ [][CompletionNext]_completionVars

-----------------------------------------------------------------------------
\* Nothing happened since that press.
Now == tab.since = {}

NoEscape(word) == \A i \in DOMAIN word : word[i] # Backslash

\* What Tab writes is how every name that was meant goes on, and all of it that they
\* share; a blank follows what is the only name.
AddsWhatAgrees ==
    (Now /\ tab.did \in {"part", "whole"} /\ NoEscape(tab.word)) =>
        LET more == tab.word \o tab.added
        IN  IF tab.did = "whole" THEN tab.matched = <<SubSeq(more, 1, Len(more) - 1)>>
            ELSE /\ \A n \in ToSet(tab.matched) : IsPrefix(more, n)
                 /\ \A c \in Letter : \E n \in ToSet(tab.matched) : ~IsPrefix(Append(more, c), n)

\* The names are listed at the second of two presses with no other key between, and
\* when nothing else came between either, after nothing was left to add -- unless the
\* press before finished a name, which counts as the first for the next word.
ListsWhenStuck ==
    (Now /\ tab.did = "listed") =>
        /\ "key" \notin tab.between /\ tab.before # "listed"
        /\ (tab.between = {} /\ tab.before = "part" /\ NoEscape(tab.word)) =>
             \A c \in Letter : \E n \in ToSet(tab.matched) : ~IsPrefix(Append(tab.word, c), n)

\* Nothing that holds a blank is ever completed: a name is cut at its first.
NeverSpaced == \A i \in DOMAIN names : \A j \in DOMAIN names[i] : names[i][j] \notin {Space, Comma}

CompletionTrue == AddsWhatAgrees /\ ListsWhenStuck /\ NeverSpaced
=============================================================================
