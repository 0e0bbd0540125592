----------------------------- MODULE TerminalMC -----------------------------
(***************************************************************************)
(* Three directories, and one command of each kind, for the model checker. *)
(* "tmpx,yfalse" is a directory with a comma in its name: the server takes *)
(* it for "tmp", and any command there for "false".  It makes nothing of   *)
(* the command ",".                                                        *)
(***************************************************************************)
EXTENDS Terminal

Commands == {"cd", "false", "#", ",", "", "clear", "false&cd"}

NoTaking == <<>>

Takings == [s \in (Dir \cup {None}) \X Commands |->
    CASE s[1] = "tmpx,yfalse" -> <<"tmp", "false">>
      [] s[1] # "tmpx,yfalse" /\ s[2] = "," -> NoTaking
      [] OTHER -> s]

Joined == [c \in {"false&cd"} |-> <<"false", "cd">>]

Leaving == [c \in Commands |-> [d \in Dir |->
    CASE c # "cd"   -> d
      [] d = "home" -> "tmp"
      [] d = "tmp"  -> "tmpx,yfalse"
      [] OTHER      -> "home"]]
=============================================================================
