-------------------------------- MODULE Shell --------------------------------
(***************************************************************************)
(* What a terminal promises: a session that is somewhere, and runs there   *)
(* the commands its user enters, one after the other.  The parts of a      *)
(* command are not kept together: what comes after ";", "||" or "&" may    *)
(* run although the session is nowhere, and what comes after "&" never     *)
(* runs where the session is.  It runs where a login starts.  Nothing is   *)
(* promised to a user who does not wait for answers, or in a directory     *)
(* whose name the terminal cannot send.                                    *)
(***************************************************************************)
EXTENDS Naturals, Sequences

CONSTANTS
    Dir, Start, Command,
    Lost,      \* the session is in no directory
    Login,     \* the directory a login starts in
    Parts,     \* of commands of two parts: the one before and the one after
    Detached,  \* those joined by "&"
    Mangled    \* directories whose names cannot be sent

VARIABLES
    patient,  \* whether the user waits for the answer of a command
    dir,      \* where the session is; Lost when it is nowhere
    log       \* the commands run so far, with the directories they ran in

vars == <<patient, dir, log>>

Init == patient \in BOOLEAN /\ dir = Start /\ log = <<>>

\* A command runs where the session is, and may take it elsewhere.
Run(c) ==
    /\ dir # Lost /\ c \notin Detached
    /\ log' = Append(log, <<dir, c>>)
    /\ dir' \in Dir \cup {Lost}

\* The part before "&" runs where the session is, the part after it does not.
RunDetached(c) ==
    /\ dir # Lost /\ c \in Detached
    /\ log' = log \o <<<<dir, Parts[c][1]>>, <<Login, Parts[c][2]>>>>
    /\ dir' \in Dir \cup {Lost}

\* Of a command entered nowhere only the part after runs; it may find the session
\* a directory.
RunRest(c) ==
    /\ dir = Lost /\ c \in DOMAIN Parts
    /\ log' = Append(log, <<Login, Parts[c][2]>>)
    /\ dir' \in Dir \cup {Lost}

\* A session that is nowhere is given up, and any may be.
Restart == dir' = Start /\ log' = log

\* Nothing is promised about the order in which impatience is served, nor about
\* what is run for a directory that is taken for another.
RunAnywhere ==
    /\ ~patient \/ dir \in Mangled
    /\ dir' \in Dir \cup {Lost}
    /\ \/ log' = log
       \/ \E d \in Dir, c \in Command : log' = Append(log, <<d, c>>)
       \/ \E c \in Detached, d \in Dir :
             log' = log \o <<<<d, Parts[c][1]>>, <<Login, Parts[c][2]>>>>

Next ==
    /\ UNCHANGED patient
    /\ (\E c \in Command : Run(c) \/ RunDetached(c) \/ RunRest(c)) \/ Restart \/ RunAnywhere

Spec == Init /\ [][Next]_vars
=============================================================================
