---------------------------- MODULE CommandLineMC ----------------------------
(***************************************************************************)
(* A small alphabet for the model checker: a blank, a new line, and a       *)
(* backslash, which only a search tells from a letter.                     *)
(***************************************************************************)
EXTENDS CommandLine

\* Lines with and without room beside the prompt, and a prompt that takes it all.
Widths == {[chars |-> 1, prompt |-> 1], [chars |-> 2, prompt |-> 2],
           [chars |-> 3, prompt |-> 1], [chars |-> 5, prompt |-> 2]}

Esc == "esc"

SomeCommands == {<<>>, <<Space>>, <<Space, Esc>>}

PastedTexts == {<<Space, Space>>}

\* A backslash escapes what follows it, also another one; with nothing after it the
\* text is refused.
RefusedTexts == {<<Esc>>, <<Space, Esc>>}
Short == {<<>>} \cup {<<c>> : c \in Char} \cup {<<c, d>> : c \in Char, d \in Char}
MatchedTexts == UNION {{<<<<Esc, c>>, t>> : t \in {t \in Short : Contains(t, c)}} : c \in Char}
=============================================================================
