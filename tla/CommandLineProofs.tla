-------------------------- MODULE CommandLineProofs --------------------------
(***************************************************************************)
(* Proofs about CommandLine, for every alphabet, every size of the history *)
(* and every bound of a command: the line and its cursor fit, the history  *)
(* is kept, what was killed can be had back, and a search misses nothing.  *)
(***************************************************************************)
EXTENDS CommandLine, IntervalTheorems, SequenceTheorems, TLAPS

-----------------------------------------------------------------------------
(***************************************************************************)
(* The inductive invariant.                                                *)
(***************************************************************************)

\* A search began with a command that can be given back.
SearchCanEnd == search => last # Undefined

\* What a search found is still in the history.
FoundIsThere == found <= Len(history)

LineInv ==
    /\ TypeOK /\ HistoryKept /\ SearchCanEnd /\ FoundIsThere
    /\ CursorInLine /\ YankUndoesKill

-----------------------------------------------------------------------------
(***************************************************************************)
(* Texts and their parts.                                                  *)
(***************************************************************************)

\* A command is a text of at most so many characters.
LEMMA CommandIsText ==
    ASSUME NEW s
    PROVE  s \in Cmd <=> s \in Seq(Char) /\ Len(s) <= MaxLength
<1>1. MaxLength \in Nat
  BY SizeAssumption
<1>2. ASSUME s \in Cmd PROVE s \in Seq(Char) /\ Len(s) <= MaxLength
  <2>1. PICK n \in 0 .. MaxLength : s \in [1 .. n -> Char]
    BY <1>2 DEF Cmd
  <2>2. n \in Nat
    BY <1>1, <2>1
  <2>3. s \in Seq(Char)
    BY <2>1, <2>2
  <2>4. Len(s) = n
    BY <2>1, <2>2
  <2> QED BY <2>1, <2>3, <2>4, <1>1
<1>3. ASSUME s \in Seq(Char), Len(s) <= MaxLength PROVE s \in Cmd
  <2>1. Len(s) \in 0 .. MaxLength
    BY <1>1, <1>3
  <2>2. s \in [1 .. Len(s) -> Char]
    BY <1>3
  <2> QED BY <2>1, <2>2 DEF Cmd
<1> QED BY <1>2, <1>3

\* A part of a text.
LEMMA PartOfText ==
    ASSUME NEW S, NEW s \in Seq(S), NEW i \in Nat \ {0}, NEW j \in 0 .. Len(s)
    PROVE  /\ SubSeq(s, i, j) \in Seq(S)
           /\ Len(SubSeq(s, i, j)) = IF i <= j THEN j - i + 1 ELSE 0
           /\ \A k \in 1 .. j - i + 1 : SubSeq(s, i, j)[k] = s[i + k - 1]
<1>1. i \in Int /\ j \in Int /\ Len(s) \in Nat
  OBVIOUS
<1>2. \A k \in i .. j : s[k] \in S
  BY <1>1
<1> QED BY <1>1, <1>2, SubSeqProperties

\* What slice(0, j) and slice(i) return; the end may lie behind the text.
LEMMA SliceOfText ==
    ASSUME NEW s \in Seq(Char), NEW i \in Nat, NEW j \in Nat
    PROVE  /\ Slice(s, i, j) \in Seq(Char)
           /\ Len(Slice(s, i, j)) = IF i >= j \/ i >= Len(s) THEN 0
                                    ELSE IF j <= Len(s) THEN j - i ELSE Len(s) - i
           /\ \A k \in 1 .. Len(Slice(s, i, j)) : Slice(s, i, j)[k] = s[i + k]
<1> DEFINE e == IF j <= Len(s) THEN j ELSE Len(s)
<1>1. Slice(s, i, j) = SubSeq(s, i + 1, e)
  BY MinOfTwo DEF Slice
<1>2. e \in 0 .. Len(s) /\ i + 1 \in Nat \ {0} /\ Len(s) \in Nat
  OBVIOUS
<1>3. /\ SubSeq(s, i + 1, e) \in Seq(Char)
      /\ Len(SubSeq(s, i + 1, e)) = IF i + 1 <= e THEN e - (i + 1) + 1 ELSE 0
      /\ \A k \in 1 .. e - (i + 1) + 1 : SubSeq(s, i + 1, e)[k] = s[(i + 1) + k - 1]
  <2> HIDE DEF e
  <2> QED BY <1>2, PartOfText
<1>4. Len(Slice(s, i, j)) = IF i >= j \/ i >= Len(s) THEN 0
                            ELSE IF j <= Len(s) THEN j - i ELSE Len(s) - i
  BY <1>1, <1>2, <1>3
<1>5. ASSUME NEW k \in 1 .. Len(Slice(s, i, j)) PROVE Slice(s, i, j)[k] = s[i + k]
  BY <1>1, <1>2, <1>3, <1>4
<1> QED BY <1>1, <1>3, <1>4, <1>5

\* The rest of a text.
LEMMA RestOfText ==
    ASSUME NEW s \in Seq(Char), NEW i \in Nat
    PROVE  /\ Rest(s, i) \in Seq(Char)
           /\ Len(Rest(s, i)) = IF i >= Len(s) THEN 0 ELSE Len(s) - i
           /\ \A k \in 1 .. Len(Rest(s, i)) : Rest(s, i)[k] = s[i + k]
<1>1. Len(s) \in 0 .. Len(s) /\ i + 1 \in Nat \ {0} /\ Len(s) \in Nat
  OBVIOUS
<1>2. /\ SubSeq(s, i + 1, Len(s)) \in Seq(Char)
      /\ Len(SubSeq(s, i + 1, Len(s))) =
             IF i + 1 <= Len(s) THEN Len(s) - (i + 1) + 1 ELSE 0
      /\ \A k \in 1 .. Len(s) - (i + 1) + 1 : SubSeq(s, i + 1, Len(s))[k] = s[(i + 1) + k - 1]
  BY <1>1, PartOfText
<1>3. Len(Rest(s, i)) = IF i >= Len(s) THEN 0 ELSE Len(s) - i
  BY <1>1, <1>2 DEF Rest
<1>4. ASSUME NEW k \in 1 .. Len(Rest(s, i)) PROVE Rest(s, i)[k] = s[i + k]
  BY <1>1, <1>2, <1>3 DEF Rest
<1> QED BY <1>2, <1>3, <1>4 DEF Rest

\* Texts that agree in every character are the same.
LEMMA SameText ==
    ASSUME NEW S, NEW s \in Seq(S), NEW t \in Seq(S), Len(s) = Len(t),
           \A k \in 1 .. Len(s) : s[k] = t[k]
    PROVE  s = t
OBVIOUS

\* A text that is cut at a place can be put together again.
LEMMA CutAndJoined ==
    ASSUME NEW s \in Seq(Char), NEW i \in Nat
    PROVE  Slice(s, 0, i) \o Rest(s, i) = s
<1> DEFINE a == Slice(s, 0, i)
           b == Rest(s, i)
           n == IF i >= Len(s) THEN Len(s) ELSE i
<1>1. a \in Seq(Char) /\ Len(a) = n /\ \A k \in 1 .. Len(a) : a[k] = s[k]
  BY SliceOfText
<1>2. b \in Seq(Char) /\ Len(b) = Len(s) - n /\ \A k \in 1 .. Len(b) : b[k] = s[i + k]
  BY RestOfText
<1>3. n \in Nat /\ Len(s) \in Nat /\ n <= Len(s)
  OBVIOUS
<1>4. Len(b) > 0 => n = i
  BY <1>2, <1>3
<1> HIDE DEF a, b, n
<1>5. a \o b \in Seq(Char) /\ Len(a \o b) = Len(s)
  <2>1. a \o b \in Seq(Char) /\ Len(a \o b) = Len(a) + Len(b)
    BY <1>1, <1>2, ConcatProperties
  <2> QED BY <2>1, <1>1, <1>2, <1>3
<1>6. ASSUME NEW k \in 1 .. Len(a \o b) PROVE (a \o b)[k] = s[k]
  <2>1. CASE k <= n
    BY <1>1, <1>2, <1>3, <1>5, <2>1
  <2>2. CASE k > n
    <3>1. (a \o b)[k] = b[k - n]
      BY <1>1, <1>2, <1>3, <1>5, <2>2
    <3>2. k - n \in 1 .. Len(b)
      BY <1>2, <1>3, <1>5, <2>2
    <3>3. n = i
      BY <3>2, <1>2, <1>4
    <3> QED BY <3>1, <3>2, <3>3, <1>2, <1>3
  <2> QED BY <2>1, <2>2, <1>3, <1>5
<1>7. a \o b = s
  BY <1>5, <1>6, SameText
<1> QED BY <1>7 DEF a, b

-----------------------------------------------------------------------------
(***************************************************************************)
(* What a key does to the line.                                            *)
(***************************************************************************)

\* What the invariant says of the line.
LEMMA LineFacts ==
    ASSUME LineInv
    PROVE  /\ MaxLength \in Nat /\ HistorySize \in Nat \ {0}
           /\ command \in Seq(Char) /\ Len(command) \in Nat /\ Len(command) <= MaxLength
           /\ kill \in Seq(Char) /\ Len(kill) \in Nat /\ Len(kill) <= MaxLength
           /\ sought \in Seq(Char) /\ Len(sought) \in Nat /\ Len(sought) <= MaxLength
           /\ position \in Nat /\ position <= 2 * MaxLength
BY CommandIsText, SizeAssumption DEF LineInv, TypeOK

\* A text of the command line is not "undefined".
LEMMA CommandIsDefined ==
    ASSUME NEW s \in Cmd
    PROVE  s # Undefined
BY CommandIsText, UndefinedAssumption DEF Text

\* The empty command.
LEMMA EmptyCommand == <<>> \in Cmd /\ Len(<<>>) = 0
<1>1. <<>> \in Seq(Char) /\ Len(<<>>) = 0 /\ 0 <= MaxLength
  BY SizeAssumption
<1> QED BY <1>1, CommandIsText

\* A key that leaves the history and what was killed alone keeps the invariant, if
\* the line still fits, a search does not begin, what it sought and found fits, and
\* the cursor does not leave the line.
LEMMA PlainStep ==
    ASSUME LineInv, Plain,
           command' \in Cmd, position' \in 0 .. 2 * MaxLength,
           position <= Len(command) => position' <= Len(command'),
           search' \in BOOLEAN, search' => search,
           sought' \in Cmd, found' \in 0 .. HistorySize, found' <= Len(history)
    PROVE  LineInv'
<1> USE DEF Plain, KeyDown, past
<1>1. adrift' = (position' > Len(command') /\ adrift)
  BY DEF Adrift
<1>2. Len(command') \in Nat
  BY CommandIsText
<1>3. TypeOK'
  <2>1. adrift' \in BOOLEAN
    BY <1>1, Zenon
  <2>2. firstUp' \in BOOLEAN
    OBVIOUS
  <2> QED BY <2>1, <2>2 DEF LineInv, TypeOK
<1>4. HistoryKept'
  BY DEF LineInv, HistoryKept
<1>5. SearchCanEnd'
  BY DEF LineInv, SearchCanEnd
<1>6. FoundIsThere'
  BY DEF FoundIsThere
<1>7. CursorInLine'
  <2>1. CASE position <= Len(command)
    BY <2>1 DEF CursorInLine
  <2>2. CASE ~(position <= Len(command))
    <3>1. adrift
      BY <2>2 DEF LineInv, CursorInLine
    <3>2. CASE position' > Len(command')
      BY <3>1, <3>2, <1>1 DEF CursorInLine
    <3>3. CASE ~(position' > Len(command'))
      BY <3>3, <1>2, SizeAssumption DEF CursorInLine
    <3> QED BY <3>2, <3>3
  <2> QED BY <2>1, <2>2
<1>8. YankUndoesKill'
  BY DEF YankUndoesKill
<1> QED BY <1>3, <1>4, <1>5, <1>6, <1>7, <1>8 DEF LineInv

\* The same for keys that leave a search alone, or leave it.
LEMMA EditStep ==
    ASSUME LineInv, Plain, UNCHANGED seek \/ EndSearch,
           command' \in Cmd, position' \in 0 .. 2 * MaxLength,
           position <= Len(command) => position' <= Len(command')
    PROVE  LineInv'
<1>1. search' \in BOOLEAN /\ (search' => search)
  <2>1. CASE UNCHANGED seek
    <3>1. search' = search /\ search \in BOOLEAN
      BY <2>1 DEF LineInv, TypeOK, seek
    <3> QED BY <3>1
  <2>2. CASE EndSearch
    BY <2>2 DEF EndSearch
  <2> QED BY <2>1, <2>2
<1>2. sought' \in Cmd
  BY EmptyCommand DEF LineInv, TypeOK, seek, EndSearch
<1>3. found' \in 0 .. HistorySize /\ found' <= Len(history)
  <2>1. 0 \in 0 .. HistorySize /\ 0 <= Len(history)
    BY SizeAssumption DEF LineInv, TypeOK
  <2> QED BY <2>1 DEF LineInv, TypeOK, FoundIsThere, seek, EndSearch
<1> QED BY <1>1, <1>2, <1>3, PlainStep

\* A text with another one in it.
LEMMA InsertedText ==
    ASSUME LineInv, NEW text \in Seq(Char), Len(command) + Len(text) <= MaxLength
    PROVE  Inserted(text) \in Cmd /\ Len(Inserted(text)) = Len(command) + Len(text)
<1> DEFINE a == Slice(command, 0, position)
           b == Rest(command, position)
<1>1. command \in Seq(Char) /\ position \in Nat /\ Len(command) \in Nat
  BY LineFacts
<1>2. a \in Seq(Char) /\ b \in Seq(Char) /\ Len(a) + Len(b) = Len(command)
  <2>1. a \in Seq(Char)
        /\ Len(a) = IF position <= Len(command) THEN position ELSE Len(command)
    BY <1>1, SliceOfText
  <2>2. b \in Seq(Char)
        /\ Len(b) = IF position >= Len(command) THEN 0 ELSE Len(command) - position
    BY <1>1, RestOfText
  <2> DEFINE n == Len(command)
             l == Len(a)
             m == Len(b)
  <2>3. l = (IF position <= n THEN position ELSE n) /\ n \in Nat /\ position \in Nat
        /\ m = (IF position >= n THEN 0 ELSE n - position)
    BY <1>1, <2>1, <2>2
  <2> HIDE DEF n, l, m
  <2>4. l + m = n
    BY <2>3
  <2> QED BY <2>1, <2>2, <2>4 DEF n, l, m
<1>3. Len(a) \in Nat /\ Len(b) \in Nat /\ Len(text) \in Nat
  BY <1>2
<1> HIDE DEF a, b
<1>4. a \o text \in Seq(Char) /\ Len(a \o text) = Len(a) + Len(text)
  BY <1>2, ConcatProperties
<1>5. (a \o text) \o b \in Seq(Char) /\ Len((a \o text) \o b) = Len(a \o text) + Len(b)
  BY <1>2, <1>4, ConcatProperties
<1>6. Len((a \o text) \o b) = Len(command) + Len(text)
  BY <1>2, <1>3, <1>4, <1>5
<1>7. Inserted(text) = (a \o text) \o b
  BY DEF Inserted, a, b
<1> QED BY <1>5, <1>6, <1>7, CommandIsText

\* insert() keeps the invariant.
LEMMA InsertKeeps ==
    ASSUME LineInv, NEW text \in Seq(Char), Insert(text), Plain, UNCHANGED seek
    PROVE  LineInv'
<1>1. command' \in Cmd /\ Len(command') = Len(command) + Len(text)
  BY InsertedText DEF Insert
<1>2. position' = position + Len(text) /\ position + Len(text) <= 2 * MaxLength
  BY DEF Insert
<1>3. position' \in 0 .. 2 * MaxLength
  BY <1>2, LineFacts
<1>4. position <= Len(command) => position' <= Len(command')
  BY <1>1, <1>2, LineFacts
<1> QED BY <1>1, <1>3, <1>4, EditStep

\* Two parts of a text, the second one behind the first.
LEMMA WithoutMiddle ==
    ASSUME LineInv, NEW i \in Nat, NEW j \in Nat, i <= j
    PROVE  /\ Slice(command, 0, i) \o Rest(command, j) \in Cmd
           /\ j <= Len(command) =>
                  Len(Slice(command, 0, i) \o Rest(command, j)) = Len(command) - (j - i)
           /\ i <= Len(command) => i <= Len(Slice(command, 0, i) \o Rest(command, j))
<1> DEFINE a == Slice(command, 0, i)
           b == Rest(command, j)
<1>1. command \in Seq(Char) /\ Len(command) \in Nat /\ Len(command) <= MaxLength
      /\ MaxLength \in Nat
  BY LineFacts
<1>2. a \in Seq(Char) /\ Len(a) = IF i <= Len(command) THEN i ELSE Len(command)
  BY <1>1, SliceOfText
<1>3. b \in Seq(Char) /\ Len(b) = IF j >= Len(command) THEN 0 ELSE Len(command) - j
  BY <1>1, RestOfText
<1> HIDE DEF a, b
<1>4. a \o b \in Seq(Char) /\ Len(a \o b) = Len(a) + Len(b)
  BY <1>2, <1>3, ConcatProperties
<1> DEFINE n == Len(command)
           l == Len(a)
           m == Len(b)
<1>5. Len(a \o b) <= MaxLength
  <2>1. l = (IF i <= n THEN i ELSE n) /\ m = (IF j >= n THEN 0 ELSE n - j)
        /\ n \in Nat /\ MaxLength \in Nat /\ n <= MaxLength
    BY <1>1, <1>2, <1>3
  <2> HIDE DEF n, l, m
  <2>2. l + m <= MaxLength
    BY <2>1
  <2> QED BY <1>4, <2>2 DEF l, m
<1>6. j <= Len(command) => Len(a \o b) = Len(command) - (j - i)
  <2>1. l = (IF i <= n THEN i ELSE n) /\ m = (IF j >= n THEN 0 ELSE n - j) /\ n \in Nat
    BY <1>1, <1>2, <1>3
  <2> HIDE DEF n, l, m
  <2>2. j <= n => l + m = n - (j - i)
    BY <2>1
  <2> QED BY <1>4, <2>2 DEF n, l, m
<1>7. i <= Len(command) => i <= Len(a \o b)
  <2>1. l = (IF i <= n THEN i ELSE n) /\ m = (IF j >= n THEN 0 ELSE n - j) /\ n \in Nat
    BY <1>1, <1>2, <1>3
  <2> HIDE DEF n, l, m
  <2>2. i <= n => i <= l + m
    BY <2>1
  <2> QED BY <1>4, <2>2 DEF n, l, m
<1>8. a \o b \in Cmd
  BY <1>4, <1>5, CommandIsText
<1> QED BY <1>6, <1>7, <1>8 DEF a, b


-----------------------------------------------------------------------------
(***************************************************************************)
(* Editing keeps the invariant.                                            *)
(***************************************************************************)

\* A character that is typed.
LEMMA TypeKeeps ==
    ASSUME LineInv, NEW ch \in Char, Type(ch)
    PROVE  LineInv'
<1>1. <<ch>> \in Seq(Char)
  OBVIOUS
<1> QED BY <1>1, InsertKeeps DEF Type

\* A new line.
LEMMA ShiftEnterKeeps ==
    ASSUME LineInv, ShiftEnter
    PROVE  LineInv'
<1>1. <<NewLine>> \in Seq(Char) /\ Len(<<NewLine>>) = 1
  BY DEF ShiftEnter
<1>2. Insert(<<NewLine>>) /\ Plain /\ EndSearch
  BY DEF ShiftEnter
<1>3. command' \in Cmd /\ Len(command') = Len(command) + 1
  BY <1>1, <1>2, InsertedText DEF Insert
<1>4. position' = position + 1 /\ position + 1 <= 2 * MaxLength
  BY <1>1, <1>2 DEF Insert
<1>5. position' \in 0 .. 2 * MaxLength
  BY <1>4, LineFacts
<1>6. position <= Len(command) => position' <= Len(command')
  BY <1>3, <1>4, LineFacts
<1> QED BY <1>2, <1>3, <1>5, <1>6, EditStep

\* A text that is pasted.
LEMMA PasteKeeps ==
    ASSUME LineInv, NEW text \in Pasted, Paste(text)
    PROVE  LineInv'
<1>1. text \in Seq(Char)
  BY PastedAssumption DEF Text
<1> QED BY <1>1, InsertKeeps DEF Paste

\* The text that was killed last.
LEMMA YankKeeps ==
    ASSUME LineInv, Yank
    PROVE  LineInv'
BY LineFacts, InsertKeeps DEF Yank

\* Backspace takes the character before the cursor.
LEMMA BackspaceKeeps ==
    ASSUME LineInv, Backspace
    PROVE  LineInv'
<1>1. position \in Nat /\ position <= 2 * MaxLength /\ Len(command) \in Nat
      /\ MaxLength \in Nat
  BY LineFacts
<1>2. Plain /\ UNCHANGED seek
  BY DEF Backspace
<1>3. CASE ~(command # <<>> /\ position > 0)
  <2>1. command' = command /\ position' = position
    BY <1>3 DEF Backspace, line
  <2> QED BY <2>1, <1>2, EditStep DEF LineInv, TypeOK
<1>4. CASE command # <<>> /\ position > 0
  <2> DEFINE i == position - 1
  <2>1. i \in Nat /\ i <= position /\ i \in 0 .. 2 * MaxLength
    BY <1>1, <1>4
  <2>2. command' = Slice(command, 0, i) \o Rest(command, position) /\ position' = i
    BY <1>4 DEF Backspace
  <2>3. i <= Len(command) => i <= Len(command')
    BY <1>1, <2>1, <2>2, WithoutMiddle
  <2>4. command' \in Cmd
    BY <1>1, <2>1, <2>2, WithoutMiddle
  <2>5. position <= Len(command) => position' <= Len(command')
    BY <1>1, <2>1, <2>2, <2>3
  <2> QED BY <1>2, <2>1, <2>2, <2>4, <2>5, EditStep
<1> QED BY <1>3, <1>4

\* Delete takes the one under it.
LEMMA DeleteKeeps ==
    ASSUME LineInv, Delete
    PROVE  LineInv'
<1>1. position \in Nat /\ position <= 2 * MaxLength /\ Len(command) \in Nat
      /\ MaxLength \in Nat
  BY LineFacts
<1>2. Plain /\ UNCHANGED seek /\ position' = position
  BY DEF Delete
<1>3. command' \in Cmd /\ (position <= Len(command) => position <= Len(command'))
  <2>1. CASE position < Len(command)
    <3>1. command' = Slice(command, 0, position) \o Rest(command, position + 1)
      BY <2>1 DEF Delete
    <3>2. position + 1 \in Nat /\ position <= position + 1
      BY <1>1
    <3> QED BY <1>1, <3>1, <3>2, WithoutMiddle
  <2>2. CASE ~(position < Len(command))
    BY <2>2 DEF Delete, LineInv, TypeOK
  <2> QED BY <2>1, <2>2
<1> QED BY <1>1, <1>2, <1>3, EditStep

\* ALT+D leaves what is before the cursor, and a part of what is behind it.
LEMMA DeleteWordKeeps ==
    ASSUME LineInv, DeleteWord
    PROVE  LineInv'
<1> DEFINE rest  == Rest(command, position)
           start == {i \in 1 .. Len(rest) : rest[i] # Space}
           stop  == {i \in Min(start) .. Len(rest) : rest[i] = Space}
           left  == IF start = {} THEN rest
                    ELSE SubSeq(rest, 1, Min(start) - 1) \o
                         (IF stop = {} THEN <<>> ELSE SubSeq(rest, Min(stop) + 1, Len(rest)))
           head  == Slice(command, 0, position)
<1>1. /\ command \in Seq(Char) /\ Len(command) \in Nat /\ Len(command) <= MaxLength
      /\ MaxLength \in Nat /\ position \in Nat /\ position <= 2 * MaxLength
  BY LineFacts
<1>2. Plain /\ UNCHANGED seek /\ position' = position /\ command' = head \o left
  BY DEF DeleteWord
<1>3. rest \in Seq(Char) /\ Len(rest) \in Nat
      /\ Len(rest) = IF position >= Len(command) THEN 0 ELSE Len(command) - position
  BY <1>1, RestOfText
<1>4. head \in Seq(Char)
      /\ Len(head) = IF position <= Len(command) THEN position ELSE Len(command)
  BY <1>1, SliceOfText
<1>5. left \in Seq(Char) /\ Len(left) <= Len(rest)
  <2> HIDE DEF rest
  <2>1. CASE start = {}
    BY <1>3, <2>1
  <2>2. CASE start # {}
    <3>1. start \in SUBSET (1 .. Len(rest)) /\ 1 \in Int /\ Len(rest) \in Int
      BY <1>3
    <3>2. Min(start) \in start
      <4> HIDE DEF start
      <4> QED BY <2>2, <3>1, MinOf
    <3>3. Min(start) \in 1 .. Len(rest)
      BY <3>1, <3>2
    <3> DEFINE u == SubSeq(rest, 1, Min(start) - 1)
               v == IF stop = {} THEN <<>> ELSE SubSeq(rest, Min(stop) + 1, Len(rest))
               m == Min(start)
    <3> HIDE DEF start
    <3>4. u \in Seq(Char) /\ Len(u) = m - 1
      <4>1. m - 1 \in 0 .. Len(rest) /\ 1 \in Nat \ {0}
        BY <1>3, <3>3
      <4> HIDE DEF m
      <4>2. SubSeq(rest, 1, m - 1) \in Seq(Char)
            /\ Len(SubSeq(rest, 1, m - 1)) = IF 1 <= m - 1 THEN (m - 1) - 1 + 1 ELSE 0
        BY <1>3, <4>1, PartOfText
      <4> QED BY <4>1, <4>2, <3>3 DEF m
    <3>5. v \in Seq(Char) /\ Len(v) \in Nat /\ Len(v) <= Len(rest) - m
      <4>1. CASE stop = {}
        <5>1. v = <<>> /\ <<>> \in Seq(Char) /\ Len(<<>>) = 0
          BY <4>1
        <5>2. 0 <= Len(rest) - m
          BY <3>3, <1>3
        <5> HIDE DEF v, m
        <5>3. Len(v) = 0 /\ v \in Seq(Char)
          BY <5>1
        <5> QED BY <5>2, <5>3
      <4>2. CASE stop # {}
        <5>1. stop \in SUBSET (m .. Len(rest)) /\ m \in Int /\ Len(rest) \in Int
          BY <1>3, <3>3
        <5> DEFINE k == Min(stop)
        <5>2. k \in stop
          <6> HIDE DEF stop, m
          <6> QED BY <4>2, <5>1, MinOf
        <5>3. k \in m .. Len(rest)
          BY <5>1, <5>2
        <5>4. k + 1 \in Nat \ {0} /\ Len(rest) \in 0 .. Len(rest)
          BY <5>3, <3>3, <1>3
        <5> HIDE DEF k, m
        <5>5. SubSeq(rest, k + 1, Len(rest)) \in Seq(Char)
              /\ Len(SubSeq(rest, k + 1, Len(rest))) =
                   IF k + 1 <= Len(rest) THEN Len(rest) - (k + 1) + 1 ELSE 0
          BY <1>3, <5>4, PartOfText
        <5>6. v = SubSeq(rest, k + 1, Len(rest))
          BY <4>2 DEF k
        <5> HIDE DEF v
        <5>7. m \in 1 .. Len(rest)
          BY <3>3 DEF m
        <5> QED BY <5>3, <5>5, <5>6, <5>7, <1>3
      <4> QED BY <4>1, <4>2
    <3>6. left = u \o v
      BY <2>2
    <3> HIDE DEF u, v, m, left
    <3>7. u \o v \in Seq(Char) /\ Len(u \o v) = Len(u) + Len(v)
      BY <3>4, <3>5, ConcatProperties
    <3>8. m \in 1 .. Len(rest)
      BY <3>3 DEF m
    <3>9. Len(u) + Len(v) <= Len(rest)
      BY <3>4, <3>5, <3>8, <1>3
    <3> QED BY <3>6, <3>7, <3>9
  <2> QED BY <2>1, <2>2
<1> HIDE DEF rest, left, head
<1>6. head \o left \in Seq(Char) /\ Len(head \o left) = Len(head) + Len(left)
  BY <1>4, <1>5, ConcatProperties
<1>7. Len(left) \in Nat
  BY <1>5
<1>8. Len(head) + Len(left) <= MaxLength
  BY <1>1, <1>3, <1>4, <1>5, <1>7
<1>9. command' \in Cmd
  BY <1>2, <1>6, <1>8, CommandIsText
<1>10. position <= Len(command) => position <= Len(command')
  BY <1>1, <1>2, <1>4, <1>6, <1>7
<1> QED BY <1>1, <1>2, <1>9, <1>10, EditStep

\* CTRL+H leaves what is before that character.
LEMMA RubOutKeeps ==
    ASSUME LineInv, RubOut
    PROVE  LineInv'
<1> DEFINE i == position - 1
<1>1. /\ command \in Seq(Char) /\ Len(command) \in Nat /\ Len(command) <= MaxLength
      /\ MaxLength \in Nat /\ position \in Nat /\ position <= 2 * MaxLength
  BY LineFacts
<1>2. Plain /\ UNCHANGED seek /\ position' = i /\ command' = Slice(command, 0, i)
  BY DEF RubOut
<1>3. i \in Nat /\ i \in 0 .. 2 * MaxLength /\ i < position
  BY <1>1 DEF RubOut
<1>4. command' \in Seq(Char)
      /\ Len(command') = IF 0 >= i \/ 0 >= Len(command) THEN 0
                         ELSE IF i <= Len(command) THEN i - 0 ELSE Len(command) - 0
  <2> HIDE DEF i
  <2>1. 0 \in Nat
    OBVIOUS
  <2> QED BY <1>1, <1>2, <1>3, <2>1, SliceOfText
<1> HIDE DEF i
<1>5. command' \in Cmd
  BY <1>1, <1>3, <1>4, CommandIsText
<1>6. position <= Len(command) => position' <= Len(command')
  BY <1>1, <1>2, <1>3, <1>4
<1> QED BY <1>2, <1>3, <1>5, <1>6, EditStep


-----------------------------------------------------------------------------
(***************************************************************************)
(* Moving the cursor keeps the invariant.                                  *)
(***************************************************************************)

\* A key that only moves the cursor, to a place in the line or to where it was.
LEMMA MoveStep ==
    ASSUME LineInv, Plain, LeaveSearch, UNCHANGED command,
           position' \in 0 .. Len(command) \/ position' = position
    PROVE  LineInv'
<1>1. UNCHANGED seek \/ EndSearch
  BY DEF LeaveSearch
<1>2. command' \in Cmd /\ Len(command) \in Nat /\ Len(command) <= MaxLength
      /\ MaxLength \in Nat /\ position \in 0 .. 2 * MaxLength
  BY LineFacts DEF LineInv, TypeOK
<1>3. position' \in 0 .. 2 * MaxLength
  BY <1>2
<1>4. position <= Len(command) => position' <= Len(command')
  BY <1>2
<1> QED BY <1>1, <1>2, <1>3, <1>4, EditStep

\* position(n) puts the cursor in the line.
LEMMA MovedTo ==
    ASSUME LineInv, NEW n \in Int, MoveTo(n)
    PROVE  position' \in 0 .. Len(command) /\ UNCHANGED command
<1> DEFINE m == Min({n, Len(command)})
<1>1. Len(command) \in Nat
  BY LineFacts
<1>2. m = IF n <= Len(command) THEN n ELSE Len(command)
  BY <1>1, MinOfTwo
<1>3. position' = Max({0, m}) /\ UNCHANGED command
  BY DEF MoveTo
<1> HIDE DEF m
<1>4. m \in Int /\ 0 \in Int
  BY <1>1, <1>2
<1>5. position' = IF 0 >= m THEN 0 ELSE m
  BY <1>3, <1>4, MaxOfTwo
<1>6. position' \in 0 .. Len(command)
  BY <1>1, <1>2, <1>5
<1> QED BY <1>3, <1>6

\* The arrow to the left, and CTRL+B.
LEMMA LeftKeeps ==
    ASSUME LineInv, Left
    PROVE  LineInv'
<1>1. Plain /\ LeaveSearch /\ UNCHANGED command /\ position' = Max({0, position - 1})
  BY DEF Left, MoveKey
<1>2. position \in Nat /\ position <= 2 * MaxLength /\ MaxLength \in Nat
      /\ Len(command) \in Nat
  BY LineFacts
<1>3. position' = IF 0 >= position - 1 THEN 0 ELSE position - 1
  <2>1. 0 \in Int /\ position - 1 \in Int
    BY <1>2
  <2> QED BY <1>1, <2>1, MaxOfTwo
<1>4. position' \in 0 .. 2 * MaxLength
      /\ (position <= Len(command) => position' <= Len(command))
  BY <1>2, <1>3
<1>5. command' \in Cmd
  BY <1>1 DEF LineInv, TypeOK
<1> QED BY <1>1, <1>4, <1>5, EditStep DEF LeaveSearch

\* The arrow to the right, and CTRL+F.
LEMMA RightKeeps ==
    ASSUME LineInv, Right
    PROVE  LineInv'
<1>1. Plain /\ LeaveSearch /\ UNCHANGED command
      /\ position' = IF position < Len(command) THEN position + 1 ELSE position
  BY DEF Right, MoveKey
<1>2. position' \in 0 .. Len(command) \/ position' = position
  BY <1>1, LineFacts
<1> QED BY <1>1, <1>2, MoveStep

\* HOME and CTRL+A, END and CTRL+E.
LEMMA HomeEndKeep ==
    ASSUME LineInv, Home \/ End
    PROVE  LineInv'
<1>1. Plain /\ LeaveSearch /\ (MoveTo(0) \/ MoveTo(Len(command)))
  BY DEF Home, End, MoveKey
<1>2. 0 \in Int /\ Len(command) \in Int
  BY LineFacts
<1>3. position' \in 0 .. Len(command) /\ UNCHANGED command
  BY <1>1, <1>2, MovedTo
<1> QED BY <1>1, <1>3, MoveStep

\* CTRL+LEFT.
LEMMA WordLeftKeeps ==
    ASSUME LineInv, WordLeft
    PROVE  LineInv'
<1> DEFINE from  == IF At(position - 1) = Space THEN position - 2 ELSE position - 1
           breaks == {i \in 1 .. from : At(i) \in {Space, NewLine} /\ At(i + 1) # At(i)}
           to == IF breaks = {} THEN 0
                 ELSE IF At(Max(breaks)) = Space THEN Max(breaks) + 1 ELSE Max(breaks)
<1>1. Plain /\ EndSearch /\ MoveTo(to)
  BY DEF WordLeft
<1>2. from \in Int /\ 1 \in Int
  BY LineFacts
<1>3. to \in Int
  <2>1. breaks \in SUBSET (1 .. from)
    OBVIOUS
  <2> HIDE DEF breaks, from
  <2>2. CASE breaks # {}
    <3>1. Max(breaks) \in 1 .. from
      BY <1>2, <2>1, <2>2, MaxOf
    <3> QED BY <3>1, <1>2
  <2> QED BY <2>2
<1>4. position' \in 0 .. Len(command) /\ UNCHANGED command
  BY <1>1, <1>3, MovedTo
<1> QED BY <1>1, <1>4, MoveStep DEF LeaveSearch

\* CTRL+RIGHT.
LEMMA WordRightKeeps ==
    ASSUME LineInv, WordRight
    PROVE  LineInv'
<1> DEFINE n      == Len(command)
           from   == IF At(position) = Space THEN position + 1 ELSE position
           blanks == {i \in from .. n - 1 : At(i) \in {Space, NewLine}}
           first  == Min(blanks)
           after  == {i \in first .. n - 1 : i \notin blanks}
           passed == At(first) = NewLine /\ (first = from \/ first + 1 \notin blanks)
<1>1. /\ Plain /\ EndSearch /\ UNCHANGED command
      /\ position' = IF blanks = {} THEN n
                     ELSE IF after = {} /\ (first = from \/ first = n - 1) THEN n
                     ELSE IF passed THEN first + 1
                     ELSE IF first > from THEN first
                     ELSE Min(after) - 1
  BY DEF WordRight
<1>2. from \in Nat /\ n \in Nat /\ n - 1 \in Int
  BY LineFacts
<1>3. position' \in 0 .. n
  <2>1. CASE blanks = {}
    BY <1>1, <1>2, <2>1
  <2>2. CASE blanks # {}
    <3>1. blanks \in SUBSET (from .. n - 1)
      OBVIOUS
    <3>0. from \in Int /\ n - 1 \in Int
      BY <1>2
    <3> HIDE DEF blanks, from, n
    <3>2. first \in blanks /\ \A y \in blanks : first <= y
      BY <3>0, <2>2, <3>1, MinOf
    <3>3. first \in from .. n - 1
      BY <3>1, <3>2
    <3>4. after \in SUBSET (first .. n - 1)
      OBVIOUS
    <3> DEFINE all == after = {} /\ (first = from \/ first = n - 1)
    <3> HIDE DEF first, after, passed
    <3>8. CASE ~all /\ passed
      BY <1>1, <1>2, <2>2, <3>3, <3>8
    <3>5. CASE after = {} /\ (first = from \/ first = n - 1)
      BY <1>1, <1>2, <2>2, <3>5
    <3>6. CASE ~all /\ ~passed /\ first > from
      BY <1>1, <1>2, <2>2, <3>3, <3>6
    <3>7. CASE ~all /\ ~passed /\ ~(first > from)
      <4>1. first = from
        BY <1>2, <3>3, <3>7
      <4>2. after # {}
        BY <3>7, <4>1
      <4>3. Min(after) \in after
        <5>1. first \in Int
          BY <3>0, <3>3
        <5> QED BY <3>0, <3>4, <4>2, <5>1, MinOf
      <4>4. Min(after) \in first .. n - 1
        BY <3>4, <4>3
      <4>5. Min(after) # first
        BY <3>2, <4>3 DEF after
      <4>6. position' = Min(after) - 1
        BY <1>1, <2>2, <3>7
      <4> QED BY <1>2, <3>3, <4>4, <4>5, <4>6
    <3> QED BY <3>5, <3>6, <3>7, <3>8
  <2> QED BY <2>1, <2>2
<1> QED BY <1>1, <1>3, MoveStep DEF LeaveSearch

-----------------------------------------------------------------------------
(***************************************************************************)
(* Killing keeps the invariant.                                            *)
(***************************************************************************)

\* A key that kills a part of the line keeps the invariant, if what is left and what
\* is killed fits and the latter can be had back.
LEMMA KillStep ==
    ASSUME LineInv, Killing,
           command' \in Cmd, kill' \in Cmd, position' \in 0 .. 2 * MaxLength,
           position <= Len(command) => position' <= Len(command'),
           before' \in Cmd \cup {Undefined}, YankUndoesKill'
    PROVE  LineInv'
<1> USE DEF Killing, KeyDown, past, seek
<1>1. adrift' = (position' > Len(command') /\ adrift)
  BY DEF Adrift
<1>2. Len(command') \in Nat
  BY CommandIsText
<1>3. TypeOK'
  <2>1. adrift' \in BOOLEAN
    BY <1>1, Zenon
  <2>2. search' = search /\ search \in BOOLEAN
    BY DEF LineInv, TypeOK
  <2>3. search' \in BOOLEAN /\ firstUp' \in BOOLEAN
    BY <2>2
  <2> QED BY <2>1, <2>3 DEF LineInv, TypeOK
<1>4. HistoryKept'
  BY DEF LineInv, HistoryKept
<1>5. SearchCanEnd'
  BY DEF LineInv, SearchCanEnd
<1>6. FoundIsThere'
  BY DEF LineInv, FoundIsThere
<1>7. CursorInLine'
  <2>1. CASE position <= Len(command)
    BY <2>1 DEF CursorInLine
  <2>2. CASE ~(position <= Len(command))
    <3>1. adrift
      BY <2>2 DEF LineInv, CursorInLine
    <3>2. CASE position' > Len(command')
      BY <3>1, <3>2, <1>1 DEF CursorInLine
    <3>3. CASE ~(position' > Len(command'))
      BY <3>3, <1>2, SizeAssumption DEF CursorInLine
    <3> QED BY <3>2, <3>3
  <2> QED BY <2>1, <2>2
<1> QED BY <1>3, <1>4, <1>5, <1>6, <1>7 DEF LineInv

\* What inserting at the end of a line, or at its beginning, gives.
LEMMA InsertedAtEnds ==
    ASSUME NEW s \in Seq(Char), NEW t \in Seq(Char)
    PROVE  /\ Slice(s, 0, Len(s)) \o t \o Rest(s, Len(s)) = s \o t
           /\ Slice(s, 0, 0) \o t \o Rest(s, 0) = t \o s
<1>1. Len(s) \in Nat /\ 0 \in Nat
  OBVIOUS
<1>2. Slice(s, 0, Len(s)) = s
  <2> DEFINE a == Slice(s, 0, Len(s))
  <2>1. a \in Seq(Char) /\ Len(a) = Len(s) /\ \A k \in 1 .. Len(a) : a[k] = s[0 + k]
    BY <1>1, SliceOfText
  <2> HIDE DEF a
  <2>2. \A k \in 1 .. Len(a) : a[k] = s[k]
    BY <2>1
  <2>3. a = s
    BY <2>1, <2>2, SameText
  <2> QED BY <2>3 DEF a
<1>3. Rest(s, Len(s)) = <<>>
  <2>1. Rest(s, Len(s)) \in Seq(Char) /\ Len(Rest(s, Len(s))) = 0
    BY <1>1, RestOfText
  <2> QED BY <2>1
<1>4. Slice(s, 0, 0) = <<>>
  <2>1. Slice(s, 0, 0) \in Seq(Char) /\ Len(Slice(s, 0, 0)) = 0
    BY <1>1, SliceOfText
  <2> QED BY <2>1
<1>5. Rest(s, 0) = s
  <2>1. Slice(s, 0, 0) \o Rest(s, 0) = s /\ Rest(s, 0) \in Seq(Char)
    BY <1>1, CutAndJoined, RestOfText
  <2> QED BY <1>4, <2>1, ConcatEmptySeq
<1>6. s \o t \in Seq(Char)
  OBVIOUS
<1> QED BY <1>2, <1>3, <1>4, <1>5, <1>6, ConcatEmptySeq

\* CTRL+K.
LEMMA KillRestKeeps ==
    ASSUME LineInv, KillRest
    PROVE  LineInv'
<1> DEFINE a == Slice(command, 0, position)
           b == Rest(command, position)
<1>1. /\ command \in Seq(Char) /\ Len(command) \in Nat /\ Len(command) <= MaxLength
      /\ MaxLength \in Nat /\ position \in Nat
  BY LineFacts
<1>2. Killing /\ kill' = b /\ command' = a /\ position' = Len(a) /\ before' = command
  BY DEF KillRest, Set
<1>3. a \in Seq(Char)
      /\ Len(a) = IF position <= Len(command) THEN position ELSE Len(command)
  BY <1>1, SliceOfText
<1>4. b \in Seq(Char)
      /\ Len(b) = IF position >= Len(command) THEN 0 ELSE Len(command) - position
  BY <1>1, RestOfText
<1>5. a \o b = command
  BY <1>1, CutAndJoined
<1> HIDE DEF a, b
<1>6. command' \in Cmd /\ position' \in 0 .. 2 * MaxLength
  BY <1>1, <1>2, <1>3, CommandIsText
<1>7. kill' \in Cmd
  <2>1. Len(b) <= MaxLength
    BY <1>1, <1>4
  <2> QED BY <1>2, <1>4, <2>1, CommandIsText
<1>8. position' <= Len(command')
  BY <1>1, <1>2, <1>3
<1>9. YankUndoesKill'
  <2>1. Slice(a, 0, Len(a)) \o b \o Rest(a, Len(a)) = command
    BY <1>3, <1>4, <1>5, InsertedAtEnds
  <2> QED BY <1>2, <2>1 DEF YankUndoesKill, Inserted
<1>10. before' \in Cmd \cup {Undefined}
  BY <1>2 DEF LineInv, TypeOK
<1> QED BY <1>2, <1>6, <1>7, <1>8, <1>9, <1>10, KillStep

\* CTRL+U.
LEMMA KillStartKeeps ==
    ASSUME LineInv, KillStart
    PROVE  LineInv'
<1> DEFINE a == Slice(command, 0, position)
           b == Rest(command, position)
<1>1. /\ command \in Seq(Char) /\ Len(command) \in Nat /\ Len(command) <= MaxLength
      /\ MaxLength \in Nat /\ position \in Nat
  BY LineFacts
<1>2. Killing /\ kill' = a /\ command' = b /\ position' = 0 /\ before' = command
  BY DEF KillStart
<1>3. a \in Seq(Char)
      /\ Len(a) = IF position <= Len(command) THEN position ELSE Len(command)
  BY <1>1, SliceOfText
<1>4. b \in Seq(Char)
      /\ Len(b) = IF position >= Len(command) THEN 0 ELSE Len(command) - position
  BY <1>1, RestOfText
<1>5. a \o b = command
  BY <1>1, CutAndJoined
<1> HIDE DEF a, b
<1>6. kill' \in Cmd
  <2>1. Len(a) <= MaxLength
    BY <1>1, <1>3
  <2> QED BY <1>2, <1>3, <2>1, CommandIsText
<1>7. command' \in Cmd /\ position' \in 0 .. 2 * MaxLength /\ position' <= Len(command')
  <2>1. Len(b) <= MaxLength /\ Len(b) \in Nat
    BY <1>1, <1>4
  <2>2. command' \in Cmd
    BY <1>2, <1>4, <2>1, CommandIsText
  <2> QED BY <1>1, <1>2, <2>1, <2>2
<1>8. YankUndoesKill'
  <2>1. Slice(b, 0, 0) \o a \o Rest(b, 0) = command
    BY <1>3, <1>4, <1>5, InsertedAtEnds
  <2> QED BY <1>2, <2>1 DEF YankUndoesKill, Inserted
<1>9. before' \in Cmd \cup {Undefined}
  BY <1>2 DEF LineInv, TypeOK
<1> QED BY <1>2, <1>6, <1>7, <1>8, <1>9, KillStep

\* CTRL+W.
LEMMA KillWordKeeps ==
    ASSUME LineInv, KillWord
    PROVE  LineInv'
<1> DEFINE head  == Slice(command, 0, position)
           words == {i \in 1 .. Len(head) : head[i] # Space}
           cut   == {i \in 1 .. Max(words) : head[i] = Space}
           start == IF cut = {} THEN 0 ELSE Max(cut)
           a     == Slice(head, 0, start)
           b     == Rest(head, start)
           c     == Rest(command, position + 1)
<1>1. /\ command \in Seq(Char) /\ Len(command) \in Nat /\ Len(command) <= MaxLength
      /\ MaxLength \in Nat /\ position \in Nat /\ position + 1 \in Nat
  BY LineFacts
<1>2. /\ Killing /\ words # {} /\ position' = start /\ kill' = b /\ command' = a \o c
      /\ before' = IF position >= Len(command) THEN command ELSE Undefined
  BY DEF KillWord
<1>3. head \in Seq(Char) /\ Len(head) \in Nat
      /\ Len(head) = IF position <= Len(command) THEN position ELSE Len(command)
  BY <1>1, SliceOfText
<1>4. start \in 0 .. Len(head)
  <2> HIDE DEF head
  <2>1. words \in SUBSET (1 .. Len(head)) /\ 1 \in Int /\ Len(head) \in Int
    BY <1>3
  <2>2. Max(words) \in 1 .. Len(head)
    <3> HIDE DEF words
    <3>1. Max(words) \in words
      BY <1>2, <2>1, MaxOf
    <3> QED BY <2>1, <3>1
  <2> DEFINE w == Max(words)
  <2>3. cut \in SUBSET (1 .. w) /\ w \in Int
    BY <2>2
  <2> HIDE DEF w, words
  <2>4. CASE cut = {}
    BY <1>3, <2>4
  <2>5. CASE cut # {}
    <3>1. Max(cut) \in 1 .. w
      <4> HIDE DEF cut
      <4>1. Max(cut) \in cut
        BY <2>1, <2>3, <2>5, MaxOf
      <4> QED BY <2>3, <4>1
    <3> QED BY <1>3, <2>2, <2>5, <3>1 DEF w
  <2> QED BY <2>4, <2>5
<1> HIDE DEF start
<1>5. start \in Nat /\ start <= Len(head)
  BY <1>3, <1>4
<1>6. a \in Seq(Char) /\ Len(a) = start
  <2> HIDE DEF head
  <2>1. 0 \in Nat
    OBVIOUS
  <2>2. a \in Seq(Char)
        /\ Len(a) = IF 0 >= start \/ 0 >= Len(head) THEN 0
                    ELSE IF start <= Len(head) THEN start - 0 ELSE Len(head) - 0
    BY <1>3, <1>5, <2>1, SliceOfText
  <2> QED BY <1>3, <1>5, <2>2
<1>7. b \in Seq(Char) /\ Len(b) = Len(head) - start
  <2> HIDE DEF head
  <2>1. b \in Seq(Char) /\ Len(b) = IF start >= Len(head) THEN 0 ELSE Len(head) - start
    BY <1>3, <1>5, RestOfText
  <2> QED BY <1>3, <1>5, <2>1
<1>8. c \in Seq(Char)
      /\ Len(c) = IF position + 1 >= Len(command) THEN 0 ELSE Len(command) - (position + 1)
  BY <1>1, RestOfText
<1>9. a \o b = head
  <2> HIDE DEF head
  <2> QED BY <1>3, <1>5, CutAndJoined
<1>10. position >= Len(command) => head = command /\ c = <<>>
  <2>1. SUFFICES ASSUME position >= Len(command) PROVE head = command /\ c = <<>>
    OBVIOUS
  <2>2. \A k \in 1 .. Len(head) : head[k] = command[0 + k]
    BY <1>1, SliceOfText
  <2>3. Len(head) = Len(command) /\ Len(c) = 0
    BY <1>1, <1>3, <1>8, <2>1
  <2> HIDE DEF head, c
  <2>4. \A k \in 1 .. Len(head) : head[k] = command[k]
    BY <2>2
  <2>5. head = command
    BY <1>1, <1>3, <2>3, <2>4, SameText
  <2> QED BY <2>3, <2>5, <1>8
<1> HIDE DEF head, words, cut, a, b, c
<1>11. a \o c \in Seq(Char) /\ Len(a \o c) = Len(a) + Len(c)
  BY <1>6, <1>8, ConcatProperties
<1>12. Len(a) + Len(c) <= MaxLength /\ Len(c) \in Nat
  BY <1>1, <1>3, <1>5, <1>6, <1>8
<1>13. command' \in Cmd
  BY <1>2, <1>11, <1>12, CommandIsText
<1>14. kill' \in Cmd
  <2>1. Len(b) <= MaxLength
    BY <1>1, <1>3, <1>5, <1>7
  <2> QED BY <1>2, <1>7, <2>1, CommandIsText
<1>15. position' \in 0 .. 2 * MaxLength /\ position' <= Len(command')
  BY <1>1, <1>2, <1>3, <1>5, <1>6, <1>11, <1>12
<1>16. YankUndoesKill'
  <2>1. CASE position >= Len(command)
    <3>1. c = <<>> /\ head = command
      BY <1>10, <2>1
    <3>2. a \o c = a
      BY <1>6, <3>1, ConcatEmptySeq
    <3>3. Slice(a, 0, Len(a)) \o b \o Rest(a, Len(a)) = a \o b
      BY <1>6, <1>7, InsertedAtEnds
    <3> QED BY <1>2, <1>6, <1>9, <3>1, <3>2, <3>3 DEF YankUndoesKill, Inserted
  <2>2. CASE ~(position >= Len(command))
    BY <1>2, <2>2 DEF YankUndoesKill
  <2> QED BY <2>1, <2>2
<1>17. before' \in Cmd \cup {Undefined}
  BY <1>2 DEF LineInv, TypeOK
<1> QED BY <1>2, <1>13, <1>14, <1>15, <1>16, <1>17, KillStep


-----------------------------------------------------------------------------
(***************************************************************************)
(* Entering commands and recalling them keeps the invariant.               *)
(***************************************************************************)

\* History.append: at most so many commands, none twice in a row.
LEMMA AppendedFacts ==
    ASSUME NEW data \in Seq(Cmd), NEW c \in Cmd, Len(data) <= HistorySize,
           \A i \in 1 .. Len(data) - 1 : data[i] # data[i + 1]
    PROVE  /\ Appended(data, c) \in Seq(Cmd)
           /\ Len(Appended(data, c)) \in 1 .. HistorySize
           /\ \A i \in 1 .. Len(Appended(data, c)) - 1 :
                 Appended(data, c)[i] # Appended(data, c)[i + 1]
<1> DEFINE d == IF data # <<>> /\ Last(data) = c THEN data ELSE Append(data, c)
           n == Len(d)
           m == IF 1 >= n - HistorySize + 1 THEN 1 ELSE n - HistorySize + 1
<1>1. Len(data) \in Nat /\ HistorySize \in Nat \ {0}
  BY SizeAssumption
<1>2. d \in Seq(Cmd) /\ Len(d) \in Nat \ {0} /\ \A i \in 1 .. Len(d) - 1 : d[i] # d[i + 1]
  <2>1. CASE data # <<>> /\ Last(data) = c
    <3>1. d = data
      BY <2>1
    <3>2. Len(data) # 0
      BY <2>1
    <3> QED BY <1>1, <3>1, <3>2
  <2>2. CASE ~(data # <<>> /\ Last(data) = c)
    <3>1. d = Append(data, c)
      BY <2>2
    <3>2. d \in Seq(Cmd) /\ Len(d) = Len(data) + 1
      BY <3>1, AppendProperties
    <3>3. ASSUME NEW i \in 1 .. Len(d) - 1 PROVE d[i] # d[i + 1]
      <4>1. i \in 1 .. Len(data) /\ d[i] = data[i]
        BY <1>1, <3>1, <3>2, <3>3, AppendProperties
      <4>2. CASE i = Len(data)
        <5>1. data # <<>> /\ Last(data) = data[i]
          BY <4>1, <4>2 DEF Last
        <5>2. d[i + 1] = c
          BY <3>1, <4>2, AppendProperties
        <5> QED BY <2>2, <4>1, <5>1, <5>2
      <4>3. CASE i # Len(data)
        <5>1. i + 1 \in 1 .. Len(data) /\ i \in 1 .. Len(data) - 1
          BY <1>1, <4>1, <4>3
        <5>2. d[i + 1] = data[i + 1]
          BY <3>1, <5>1, AppendProperties
        <5> QED BY <4>1, <5>1, <5>2
      <4> QED BY <4>2, <4>3
    <3> QED BY <1>1, <3>2, <3>3
  <2> QED BY <2>1, <2>2
<1>3. Len(d) <= HistorySize + 1
  BY <1>1
<1> HIDE DEF d
<1>4. n \in Nat \ {0} /\ n <= HistorySize + 1
  BY <1>2, <1>3
<1>5. m \in Nat \ {0} /\ m <= n /\ n - m + 1 \in 1 .. HistorySize /\ n \in 0 .. Len(d)
  BY <1>1, <1>4
<1>6. Appended(data, c) = SubSeq(d, m, n)
  <2>1. 1 \in Int /\ n - HistorySize + 1 \in Int
    BY <1>1, <1>4
  <2>2. Max({1, n - HistorySize + 1}) = m
    BY <2>1, MaxOfTwo
  <2> HIDE DEF m
  <2> QED BY <2>2 DEF Appended, d
<1> DEFINE t == SubSeq(d, m, n)
<1> HIDE DEF m, n
<1>7. t \in Seq(Cmd) /\ Len(t) = (IF m <= n THEN n - m + 1 ELSE 0)
      /\ \A k \in 1 .. n - m + 1 : t[k] = d[m + k - 1]
  BY <1>2, <1>5, PartOfText
<1>8. n \in Nat /\ m \in Nat \ {0} /\ Len(t) = n - m + 1 /\ n = Len(d)
  BY <1>4, <1>5, <1>7 DEF n
<1> HIDE DEF t
<1>9. ASSUME NEW i \in 1 .. Len(t) - 1 PROVE t[i] # t[i + 1]
  <2>1. i \in 1 .. n - m + 1 /\ i + 1 \in 1 .. n - m + 1 /\ i \in Nat
    BY <1>8
  <2>2. t[i] = d[m + i - 1] /\ t[i + 1] = d[m + (i + 1) - 1]
    BY <1>7, <2>1
  <2>3. m + i - 1 \in 1 .. Len(d) - 1 /\ m + (i + 1) - 1 = (m + i - 1) + 1
    BY <1>8, <2>1
  <2> QED BY <1>2, <2>2, <2>3
<1>10. Appended(data, c) = t
  BY <1>6 DEF t
<1>11. Len(t) \in 1 .. HistorySize
  BY <1>5, <1>8
<1> QED BY <1>7, <1>9, <1>10, <1>11

\* Enter.
LEMMA EnterKeeps ==
    ASSUME LineInv, Enter
    PROVE  LineInv'
<1> DEFINE once == IF command = <<>> THEN history ELSE Appended(history, command)
           h    == Appended(once, command)
<1>1. /\ history \in Seq(Cmd) /\ Len(history) <= HistorySize /\ command \in Cmd
      /\ \A i \in 1 .. Len(history) - 1 : history[i] # history[i + 1]
      /\ HistorySize \in Nat \ {0}
  BY SizeAssumption DEF LineInv, TypeOK, HistoryKept
<1>2. once \in Seq(Cmd) /\ Len(once) <= HistorySize
      /\ \A i \in 1 .. Len(once) - 1 : once[i] # once[i + 1]
  <2>1. CASE command = <<>>
    BY <1>1, <2>1
  <2>2. CASE command # <<>>
    <3> DEFINE g == Appended(history, command)
    <3>1. g \in Seq(Cmd) /\ Len(g) \in 1 .. HistorySize
          /\ \A i \in 1 .. Len(g) - 1 : g[i] # g[i + 1]
      BY <1>1, AppendedFacts
    <3>2. once = g
      BY <2>2
    <3> HIDE DEF once, g
    <3> QED BY <1>1, <3>1, <3>2
  <2> QED BY <2>1, <2>2
<1> HIDE DEF once
<1>3. h \in Seq(Cmd) /\ Len(h) \in 1 .. HistorySize
      /\ \A i \in 1 .. Len(h) - 1 : h[i] # h[i + 1]
  BY <1>1, <1>2, AppendedFacts
<1>4. /\ history' = h /\ pos' = Len(history') - 1
      /\ command' = <<>> /\ position' = Len(<<>>)
      /\ firstUp' = TRUE /\ search' = FALSE /\ found' = 0 /\ sought' = <<>>
      /\ Adrift(FALSE) /\ before' = Undefined /\ kill' = kill /\ last' = last
  BY DEF Enter, once, Set, KeyDown, EndSearch
<1> HIDE DEF h
<1>5. pos' \in 0 .. Len(history') - 1 /\ pos' \in -1 .. HistorySize - 1 /\ history' # <<>>
  BY <1>1, <1>3, <1>4
<1>6. position' = 0 /\ Len(command') = 0
  BY <1>4
<1>7. adrift' = FALSE
  <2>1. ~(position' > Len(command'))
    BY <1>6
  <2>2. adrift' = (position' > Len(command') /\ (adrift \/ FALSE))
    BY <1>4, Zenon DEF Adrift
  <2> QED BY <2>1, <2>2, Zenon
<1>8. TypeOK'
  <2>1. 0 \in 0 .. 2 * MaxLength /\ 0 \in 0 .. HistorySize
    BY SizeAssumption
  <2> QED BY <1>3, <1>4, <1>5, <1>6, <1>7, <2>1, EmptyCommand DEF LineInv, TypeOK
<1>9. HistoryKept'
  <2>1. Len(history') <= HistorySize
    BY <1>1, <1>3, <1>4
  <2> QED BY <1>3, <1>4, <1>5, <2>1 DEF HistoryKept
<1>10. SearchCanEnd' /\ CursorInLine' /\ YankUndoesKill'
  BY <1>4, <1>6 DEF SearchCanEnd, CursorInLine, YankUndoesKill
<1>11. FoundIsThere'
  BY <1>3, <1>4 DEF FoundIsThere
<1> QED BY <1>8, <1>9, <1>10, <1>11 DEF LineInv

\* A key that recalls a command, or leaves the line.
LEMMA RecallStep ==
    ASSUME LineInv, LeaveSearch, Adrift(FALSE), before' = Undefined,
           UNCHANGED <<kill, history>>, firstUp' \in BOOLEAN,
           pos' = pos \/ (history # <<>> /\ pos' \in 0 .. Len(history) - 1),
           last' \in Cmd \cup {Undefined}, last # Undefined => last' # Undefined,
           UNCHANGED line \/ (command' \in Cmd /\ position' = Len(command'))
    PROVE  LineInv'
<1>1. adrift' = (position' > Len(command') /\ adrift)
  BY DEF Adrift
<1>2. /\ command' \in Cmd /\ Len(command') \in Nat /\ Len(command') <= MaxLength
      /\ MaxLength \in Nat
  <2>1. command' \in Cmd
    BY DEF LineInv, TypeOK, line
  <2> QED BY <2>1, CommandIsText, SizeAssumption
<1>3. position' \in 0 .. 2 * MaxLength
  BY <1>2 DEF LineInv, TypeOK, line
<1>4. search' \in BOOLEAN /\ (search' => search)
  <2>1. CASE UNCHANGED seek
    <3>1. search' = search /\ search \in BOOLEAN
      BY <2>1 DEF LineInv, TypeOK, seek
    <3> QED BY <3>1
  <2>2. CASE EndSearch
    BY <2>2 DEF EndSearch
  <2> QED BY <2>1, <2>2 DEF LeaveSearch
<1>5. sought' \in Cmd
  BY EmptyCommand DEF LineInv, TypeOK, seek, EndSearch, LeaveSearch
<1>6. found' \in 0 .. HistorySize /\ found' <= Len(history)
  <2>1. 0 \in 0 .. HistorySize /\ 0 <= Len(history)
    BY SizeAssumption DEF LineInv, TypeOK
  <2> QED BY <2>1 DEF LineInv, TypeOK, FoundIsThere, seek, EndSearch, LeaveSearch
<1>7. pos' \in -1 .. HistorySize - 1
      /\ pos' \in (IF history = <<>> THEN {-1} ELSE 0 .. Len(history) - 1)
  <2>1. /\ Len(history) \in Nat /\ Len(history) <= HistorySize /\ HistorySize \in Nat
        /\ pos \in (IF history = <<>> THEN {-1} ELSE 0 .. Len(history) - 1)
    BY SizeAssumption DEF LineInv, TypeOK, HistoryKept
  <2>2. pos' \in (IF history = <<>> THEN {-1} ELSE 0 .. Len(history) - 1)
    BY <2>1
  <2>3. CASE history = <<>>
    BY <2>1, <2>2, <2>3
  <2>4. CASE history # <<>>
    BY <2>1, <2>2, <2>4
  <2> QED BY <2>2, <2>3, <2>4
<1>8. adrift' \in BOOLEAN
  BY <1>1, Zenon
<1>9. TypeOK'
  BY <1>2, <1>3, <1>4, <1>5, <1>6, <1>7, <1>8 DEF LineInv, TypeOK
<1>10. HistoryKept'
  BY <1>7 DEF LineInv, HistoryKept
<1>11. SearchCanEnd'
  BY <1>4 DEF LineInv, SearchCanEnd
<1>12. FoundIsThere'
  BY <1>6 DEF FoundIsThere
<1>13. CursorInLine'
  <2>1. CASE UNCHANGED line
    <3>1. command' = command /\ position' = position
      BY <2>1 DEF line
    <3>2. CASE position <= Len(command)
      BY <3>1, <3>2 DEF CursorInLine
    <3>3. CASE ~(position <= Len(command))
      <4>1. adrift
        BY <3>3 DEF LineInv, CursorInLine
      <4>2. position' > Len(command')
        BY <3>1, <3>3, LineFacts
      <4> QED BY <1>1, <4>1, <4>2 DEF CursorInLine
    <3> QED BY <3>2, <3>3
  <2>2. CASE position' = Len(command')
    BY <1>2, <2>2 DEF CursorInLine
  <2> QED BY <2>1, <2>2
<1>14. YankUndoesKill'
  BY DEF YankUndoesKill
<1> QED BY <1>9, <1>10, <1>11, <1>12, <1>13, <1>14 DEF LineInv

\* What the history stands at.
LEMMA HistoryFacts ==
    ASSUME LineInv
    PROVE  /\ Len(history) \in Nat /\ pos \in Int
           /\ history # <<>> => pos \in 0 .. Len(history) - 1
           /\ history = <<>> => pos = -1 /\ Len(history) = 0
           /\ \A i \in 0 .. Len(history) - 1 : history[i + 1] \in Cmd
<1>1. history \in Seq(Cmd) /\ Len(history) \in Nat
  BY DEF LineInv, TypeOK
<1>2. pos \in (IF history = <<>> THEN {-1} ELSE 0 .. Len(history) - 1) /\ pos \in Int
  BY SizeAssumption DEF LineInv, TypeOK, HistoryKept
<1>3. ASSUME NEW i \in 0 .. Len(history) - 1 PROVE history[i + 1] \in Cmd
  <2>1. i + 1 \in 1 .. Len(history)
    BY <1>1
  <2> QED BY <1>1, <2>1
<1> QED BY <1>1, <1>2, <1>3

\* UP.
LEMMA UpKeeps ==
    ASSUME LineInv, Up
    PROVE  LineInv'
<1> DEFINE to == IF firstUp THEN pos ELSE Max({pos - 1, Min({pos, 0})})
<1>1. /\ last' = (IF firstUp THEN command ELSE last) /\ pos' = to
      /\ IF to = -1 THEN UNCHANGED line ELSE Set(history[to + 1])
      /\ firstUp' = FALSE /\ LeaveSearch /\ Adrift(FALSE) /\ before' = Undefined
      /\ UNCHANGED <<kill, history>>
  BY DEF Up
<1>2. to = IF firstUp \/ pos <= 0 THEN pos ELSE pos - 1
  <2>1. pos \in Int /\ 0 \in Int /\ pos - 1 \in Int /\ pos >= -1
    BY HistoryFacts
  <2>2. Min({pos, 0}) = IF pos <= 0 THEN pos ELSE 0
    BY <2>1, MinOfTwo
  <2> DEFINE m == Min({pos, 0})
  <2>3. m \in Int
    BY <2>1, <2>2
  <2> HIDE DEF m
  <2>4. Max({pos - 1, m}) = IF pos - 1 >= m THEN pos - 1 ELSE m
    BY <2>1, <2>3, MaxOfTwo
  <2>5. m = IF pos <= 0 THEN pos ELSE 0
    BY <2>2 DEF m
  <2>6. Max({pos - 1, m}) = IF pos <= 0 THEN pos ELSE pos - 1
    BY <2>1, <2>4, <2>5
  <2> QED BY <2>6 DEF m
<1> HIDE DEF to
<1>3. pos' = pos \/ (history # <<>> /\ pos' \in 0 .. Len(history) - 1)
  BY <1>1, <1>2, HistoryFacts
<1>4. UNCHANGED line \/ (command' \in Cmd /\ position' = Len(command'))
  <2>1. CASE to = -1
    BY <1>1, <2>1
  <2>2. CASE to # -1
    <3>1. to \in 0 .. Len(history) - 1
      BY <1>2, <2>2, HistoryFacts
    <3>2. history[to + 1] \in Cmd
      BY <3>1, HistoryFacts
    <3> QED BY <1>1, <2>2, <3>2 DEF Set
  <2> QED BY <2>1, <2>2
<1>5. last' \in Cmd \cup {Undefined} /\ (last # Undefined => last' # Undefined)
  BY <1>1, CommandIsDefined DEF LineInv, TypeOK
<1>6. firstUp' \in BOOLEAN
  BY <1>1
<1> QED BY <1>1, <1>3, <1>4, <1>5, <1>6, RecallStep

\* DOWN.
LEMMA DownKeeps ==
    ASSUME LineInv, Down
    PROVE  LineInv'
<1> DEFINE end == pos = Len(history) - 1
<1>1. /\ pos' = (IF end THEN pos ELSE pos + 1)
      /\ IF end /\ last = Undefined THEN UNCHANGED line
         ELSE Set(IF end THEN last ELSE history[pos' + 1])
      /\ firstUp' = TRUE /\ LeaveSearch /\ Adrift(FALSE) /\ before' = Undefined
      /\ UNCHANGED <<kill, history>> /\ last' = last
  BY DEF Down, KeyDown
<1>2. pos' = pos \/ (history # <<>> /\ pos' \in 0 .. Len(history) - 1)
  BY <1>1, HistoryFacts
<1>3. UNCHANGED line \/ (command' \in Cmd /\ position' = Len(command'))
  <2>1. CASE end /\ last = Undefined
    BY <1>1, <2>1
  <2>2. CASE end /\ last # Undefined
    <3>1. last \in Cmd
      BY <2>2 DEF LineInv, TypeOK
    <3> QED BY <1>1, <2>2, <3>1 DEF Set
  <2>3. CASE ~end
    <3>1. pos' \in 0 .. Len(history) - 1
      BY <1>1, <2>3, HistoryFacts
    <3>2. history[pos' + 1] \in Cmd
      BY <3>1, HistoryFacts
    <3>3. Set(history[pos' + 1])
      BY <1>1, <2>3
    <3> QED BY <3>2, <3>3 DEF Set
  <2> QED BY <2>1, <2>2, <2>3
<1>4. last' \in Cmd \cup {Undefined} /\ (last # Undefined => last' # Undefined)
  BY <1>1 DEF LineInv, TypeOK
<1>5. firstUp' \in BOOLEAN
  BY <1>1
<1> QED BY <1>1, <1>2, <1>3, <1>4, <1>5, RecallStep


-----------------------------------------------------------------------------
(***************************************************************************)
(* Searching the history.                                                  *)
(***************************************************************************)

\* Where a search ends: at the k-th command, which is the newest one among so many
\* that matches the first m characters of s; none of them matches more of s.
Hit(s, limit, m, k) ==
    /\ m \in 1 .. Len(s) /\ k \in 1 .. limit
    /\ sought' = SubSeq(s, 1, m)
    /\ command' = history[k] /\ position' = 0
    /\ found' = Len(history) - k + 1
    /\ Matches(SubSeq(s, 1, m), history[k])
    /\ \A j \in k + 1 .. limit : ~Matches(SubSeq(s, 1, m), history[j])
    /\ \A l \in m + 1 .. Len(s) : \A j \in 1 .. limit : ~Matches(SubSeq(s, 1, l), history[j])

\* A search finds nothing, throws, or ends where it should.
LEMMA SearchResult ==
    ASSUME LineInv, NEW s \in Seq(Char), NEW next \in BOOLEAN, Search(s, next)
    PROVE  \/ sought' = <<>> /\ UNCHANGED <<line, found>>
           \/ /\ \E j \in 1 .. Len(s) : Throws(SubSeq(s, 1, j))
              /\ sought' = s /\ UNCHANGED <<line, found>>
           \/ \E limit \in Nat :
                 /\ limit = IF next /\ found > 0 THEN Len(history) - found ELSE Len(history)
                 /\ \E m \in Nat, k \in Nat : Hit(s, limit, m, k)
<1> DEFINE n     == Len(history)
           limit == IF next /\ found > 0 THEN n - found ELSE n
           hits  == {j \in 1 .. Len(s) : \E k \in 1 .. limit : Matches(SubSeq(s, 1, j), history[k])}
           stops == {j \in 1 .. Len(s) : Throws(SubSeq(s, 1, j))}
           m     == Max(hits \cup stops)
           ks    == {k \in 1 .. limit : Matches(SubSeq(s, 1, m), history[k])}
           k     == Max(ks)
<1>1. n \in Nat /\ found \in Nat /\ found <= n /\ Len(s) \in Nat
  BY HistoryFacts, SizeAssumption DEF LineInv, TypeOK, FoundIsThere
<1>2. IF hits \cup stops = {} THEN sought' = <<>> /\ UNCHANGED <<line, found>>
      ELSE IF m \in stops THEN sought' = s /\ UNCHANGED <<line, found>>
      ELSE command' = history[k] /\ position' = 0 /\ found' = n - k + 1
           /\ sought' = SubSeq(s, 1, m)
  BY DEF Search
<1>3. SUFFICES ASSUME hits \cup stops # {}, m \notin stops
              PROVE  limit \in Nat /\ m \in Nat /\ k \in Nat /\ Hit(s, limit, m, k)
  BY <1>2
<1>4. limit \in Nat
  BY <1>1
<1>5. m \in hits /\ \A j \in hits : m >= j
  <2>1. hits \cup stops \in SUBSET (1 .. Len(s)) /\ 1 \in Int /\ Len(s) \in Int
    BY <1>1
  <2> HIDE DEF hits, stops
  <2>2. m \in hits \cup stops /\ \A j \in hits \cup stops : m >= j
    BY <1>3, <2>1, MaxOf
  <2> QED BY <1>3, <2>2
<1>6. m \in 1 .. Len(s) /\ m \in Nat
  BY <1>5, <1>1
<1>7. PICK k0 \in 1 .. limit : Matches(SubSeq(s, 1, m), history[k0])
  <2> HIDE DEF m, limit, n
  <2> QED BY <1>5
<1>8. k \in ks /\ \A j \in ks : k >= j
  <2>1. ks \in SUBSET (1 .. limit) /\ ks # {} /\ 1 \in Int /\ limit \in Int
    <3> HIDE DEF m, limit
    <3> QED BY <1>4, <1>7
  <2> HIDE DEF ks
  <2> QED BY <2>1, MaxOf
<1> HIDE DEF k, m, limit, n
<1>9. k \in 1 .. limit /\ k \in Nat /\ Matches(SubSeq(s, 1, m), history[k])
  BY <1>4, <1>8
<1>10. ASSUME NEW j \in k + 1 .. limit PROVE ~Matches(SubSeq(s, 1, m), history[j])
  <2>1. SUFFICES ASSUME Matches(SubSeq(s, 1, m), history[j]) PROVE FALSE
    OBVIOUS
  <2>2. j \in 1 .. limit /\ j > k
    BY <1>4, <1>9
  <2>3. j \in ks
    BY <2>1, <2>2
  <2>4. k >= j
    BY <1>8, <2>3
  <2> QED BY <1>9, <2>2, <2>4
<1>11. ASSUME NEW l \in m + 1 .. Len(s), NEW j \in 1 .. limit
       PROVE  ~Matches(SubSeq(s, 1, l), history[j])
  <2>1. SUFFICES ASSUME Matches(SubSeq(s, 1, l), history[j]) PROVE FALSE
    OBVIOUS
  <2>2. l \in 1 .. Len(s) /\ l > m
    BY <1>1, <1>6
  <2>3. l \in hits
    BY <2>1, <2>2
  <2>4. m >= l
    BY <1>5, <2>3
  <2> QED BY <1>6, <2>2, <2>4
<1>12. command' = history[k] /\ position' = 0 /\ found' = n - k + 1
       /\ sought' = SubSeq(s, 1, m)
  BY <1>2, <1>3
<1>13. Hit(s, limit, m, k)
  BY <1>6, <1>9, <1>10, <1>11, <1>12 DEF Hit, n
<1> QED BY <1>4, <1>6, <1>9, <1>13

\* What a search leaves fits.
LEMMA SearchFits ==
    ASSUME LineInv, NEW s \in Seq(Char), Len(s) <= MaxLength, NEW next \in BOOLEAN,
           Search(s, next)
    PROVE  /\ command' \in Cmd /\ position' \in 0 .. 2 * MaxLength
           /\ position <= Len(command) => position' <= Len(command')
           /\ sought' \in Cmd /\ found' \in 0 .. HistorySize /\ found' <= Len(history)
<1>1. CASE sought' = <<>> /\ UNCHANGED <<line, found>>
  BY <1>1, EmptyCommand DEF LineInv, TypeOK, FoundIsThere, line
<1>2. ASSUME NEW limit \in Nat, NEW m \in Nat, NEW k \in Nat, Hit(s, limit, m, k),
             limit <= Len(history)
      PROVE  /\ command' \in Cmd /\ position' \in 0 .. 2 * MaxLength
             /\ position <= Len(command) => position' <= Len(command')
             /\ sought' \in Cmd /\ found' \in 0 .. HistorySize /\ found' <= Len(history)
  <2>1. /\ m \in 1 .. Len(s) /\ k \in 1 .. limit /\ sought' = SubSeq(s, 1, m)
        /\ command' = history[k] /\ position' = 0 /\ found' = Len(history) - k + 1
    BY <1>2 DEF Hit
  <2>2. /\ history \in Seq(Cmd) /\ Len(history) \in Nat /\ Len(history) <= HistorySize
        /\ HistorySize \in Nat /\ MaxLength \in Nat /\ Len(s) \in Nat
    BY SizeAssumption DEF LineInv, TypeOK, HistoryKept
  <2>3. k \in 1 .. Len(history)
    BY <1>2, <2>1, <2>2
  <2>4. command' \in Cmd /\ Len(command') \in Nat
    BY <2>1, <2>2, <2>3, CommandIsText
  <2>5. position' \in 0 .. 2 * MaxLength /\ position' <= Len(command')
    BY <2>1, <2>2, <2>4
  <2>6. sought' \in Cmd
    <3>1. m \in 0 .. Len(s) /\ 1 \in Nat \ {0}
      BY <2>1, <2>2
    <3>2. SubSeq(s, 1, m) \in Seq(Char)
          /\ Len(SubSeq(s, 1, m)) = IF 1 <= m THEN m - 1 + 1 ELSE 0
      BY <3>1, PartOfText
    <3>3. Len(SubSeq(s, 1, m)) <= MaxLength
      BY <2>1, <2>2, <3>2
    <3> QED BY <2>1, <3>2, <3>3, CommandIsText
  <2>7. found' \in 0 .. HistorySize /\ found' <= Len(history)
    BY <2>1, <2>2, <2>3
  <2> QED BY <2>4, <2>5, <2>6, <2>7
<1>3. CASE \E limit \in Nat :
              /\ limit = IF next /\ found > 0 THEN Len(history) - found ELSE Len(history)
              /\ \E m \in Nat, k \in Nat : Hit(s, limit, m, k)
  <2>1. PICK limit \in Nat :
              /\ limit = IF next /\ found > 0 THEN Len(history) - found ELSE Len(history)
              /\ \E m \in Nat, k \in Nat : Hit(s, limit, m, k)
    BY <1>3
  <2>2. limit <= Len(history)
    <3>1. Len(history) \in Nat /\ found \in Nat
      BY HistoryFacts, SizeAssumption DEF LineInv, TypeOK
    <3> QED BY <2>1, <3>1
  <2> QED BY <1>2, <2>1, <2>2
<1>4. CASE sought' = s /\ UNCHANGED <<line, found>>
  BY <1>4, CommandIsText DEF LineInv, TypeOK, FoundIsThere, line
<1> QED BY <1>1, <1>3, <1>4, SearchResult

\* CTRL+R goes on with a search.
LEMMA SearchNextKeeps ==
    ASSUME LineInv, SearchNext
    PROVE  LineInv'
<1>1. Search(sought, TRUE) /\ Plain /\ search' = search
  BY DEF SearchNext
<1>2. sought \in Seq(Char) /\ Len(sought) <= MaxLength
  BY LineFacts
<1>3. search' \in BOOLEAN /\ (search' => search)
  <2>1. search \in BOOLEAN
    BY DEF LineInv, TypeOK
  <2> QED BY <1>1, <2>1
<1> QED BY <1>1, <1>2, <1>3, SearchFits, PlainStep

\* A character that is typed while searching.
LEMMA TypeInSearchKeeps ==
    ASSUME LineInv, NEW ch \in Char, TypeInSearch(ch)
    PROVE  LineInv'
<1> DEFINE s == Append(sought, ch)
<1>1. Search(s, FALSE) /\ Plain /\ search' = search /\ Len(sought) < MaxSought
  BY DEF TypeInSearch
<1>2. s \in Seq(Char) /\ Len(s) <= MaxLength
  <2>1. /\ sought \in Seq(Char) /\ Len(sought) \in Nat /\ MaxLength \in Nat
        /\ MaxSought \in Nat /\ MaxSought <= MaxLength
    BY LineFacts, SizeAssumption
  <2>2. s \in Seq(Char) /\ Len(s) = Len(sought) + 1
    BY <2>1, AppendProperties
  <2> QED BY <1>1, <2>1, <2>2
<1>3. search' \in BOOLEAN /\ (search' => search)
  <2>1. search \in BOOLEAN
    BY DEF LineInv, TypeOK
  <2> QED BY <1>1, <2>1
<1> HIDE DEF s
<1> QED BY <1>1, <1>2, <1>3, SearchFits, PlainStep

\* Backspace while searching.
LEMMA ShortenSearchKeeps ==
    ASSUME LineInv, ShortenSearch
    PROVE  LineInv'
<1>1. /\ Plain /\ search' = search /\ found' = found /\ command' = command
      /\ position' = position /\ sought' = SubSeq(sought, 1, Len(sought) - 1)
  BY DEF ShortenSearch, line
<1>2. sought' \in Cmd
  <2>1. sought \in Seq(Char) /\ Len(sought) \in Nat /\ Len(sought) <= MaxLength
        /\ MaxLength \in Nat
    BY LineFacts
  <2>2. CASE Len(sought) = 0
    <3>1. SubSeq(sought, 1, Len(sought) - 1) = <<>>
      BY <2>2, SubSeqEmpty
    <3> QED BY <1>1, <3>1, EmptyCommand
  <2>3. CASE Len(sought) # 0
    <3>1. Len(sought) - 1 \in 0 .. Len(sought) /\ 1 \in Nat \ {0}
      BY <2>1, <2>3
    <3> DEFINE j == Len(sought) - 1
    <3> HIDE DEF j
    <3>2. SubSeq(sought, 1, j) \in Seq(Char)
          /\ Len(SubSeq(sought, 1, j)) = IF 1 <= j THEN j - 1 + 1 ELSE 0
      BY <2>1, <3>1, PartOfText DEF j
    <3>3. Len(SubSeq(sought, 1, j)) <= MaxLength
      BY <2>1, <3>1, <3>2 DEF j
    <3> QED BY <1>1, <3>2, <3>3, CommandIsText DEF j
  <2> QED BY <2>2, <2>3
<1>3. search' \in BOOLEAN /\ (search' => search)
  <2>1. search \in BOOLEAN
    BY DEF LineInv, TypeOK
  <2> QED BY <1>1, <2>1
<1> QED BY <1>1, <1>2, <1>3, PlainStep DEF LineInv, TypeOK, FoundIsThere

\* A key that empties the line or gives it back, and leaves the cursor, keeps the
\* invariant: the cursor may be adrift.
LEMMA DriftStep ==
    ASSUME LineInv, Adrift(TRUE), before' = Undefined, firstUp' = TRUE,
           UNCHANGED <<position, kill, past>>, command' \in Cmd,
           search' \in BOOLEAN, sought' \in Cmd,
           found' \in 0 .. HistorySize, found' <= Len(history),
           last' \in Cmd \cup {Undefined}, search' => last' # Undefined
    PROVE  LineInv'
<1>1. adrift' = (position' > Len(command') /\ (adrift \/ TRUE))
  BY Zenon DEF Adrift
<1>2. adrift' \in BOOLEAN
  BY <1>1, Zenon
<1>3. TypeOK'
  BY <1>2 DEF LineInv, TypeOK, past
<1>4. HistoryKept'
  BY DEF LineInv, HistoryKept, past
<1>5. SearchCanEnd'
  BY DEF SearchCanEnd
<1>6. FoundIsThere'
  BY DEF FoundIsThere, past
<1>7. CursorInLine'
  <2>1. Len(command') \in Nat /\ position' \in Nat
    BY CommandIsText, LineFacts
  <2>2. CASE position' > Len(command')
    <3>1. adrift' = TRUE
      BY <1>1, <2>2, Zenon
    <3> QED BY <3>1 DEF CursorInLine
  <2>3. CASE ~(position' > Len(command'))
    BY <2>1, <2>3 DEF CursorInLine
  <2> QED BY <2>2, <2>3
<1>8. YankUndoesKill'
  BY DEF YankUndoesKill
<1> QED BY <1>3, <1>4, <1>5, <1>6, <1>7, <1>8 DEF LineInv

\* CTRL+R begins a search.
LEMMA BeginSearchKeeps ==
    ASSUME LineInv, BeginSearch
    PROVE  LineInv'
<1>1. /\ Adrift(TRUE) /\ before' = Undefined /\ firstUp' = TRUE
      /\ UNCHANGED <<position, kill, past>> /\ command' = <<>> /\ search' = TRUE
      /\ sought' = sought /\ found' = found /\ last' = command
  BY DEF BeginSearch, KeyDown
<1>2. last' \in Cmd /\ last' # Undefined
  BY <1>1, CommandIsDefined DEF LineInv, TypeOK
<1> QED BY <1>1, <1>2, EmptyCommand, DriftStep DEF LineInv, TypeOK, FoundIsThere

\* CTRL+G gives the command back.
LEMMA CancelSearchKeeps ==
    ASSUME LineInv, CancelSearch
    PROVE  LineInv'
<1>1. /\ Adrift(TRUE) /\ before' = Undefined /\ firstUp' = TRUE
      /\ UNCHANGED <<position, kill, past>> /\ command' = last /\ search' = FALSE
      /\ sought' = <<>> /\ found' = found /\ last' = last /\ search
  BY DEF CancelSearch, KeyDown
<1>2. last \in Cmd
  BY <1>1 DEF LineInv, TypeOK, SearchCanEnd
<1>3. last' \in Cmd \cup {Undefined} /\ (search' => last' # Undefined)
  BY <1>1, <1>2
<1> QED BY <1>1, <1>2, <1>3, EmptyCommand, DriftStep DEF LineInv, TypeOK, FoundIsThere

\* Escape empties the line.
LEMMA EscapeKeeps ==
    ASSUME LineInv, Escape
    PROVE  LineInv'
<1>1. /\ Adrift(TRUE) /\ before' = Undefined /\ firstUp' = TRUE
      /\ UNCHANGED <<position, kill, past>> /\ command' = <<>> /\ search' = FALSE
      /\ sought' = <<>> /\ found' = 0 /\ last' = last
  BY DEF Escape, KeyDown, EndSearch
<1>2. 0 \in 0 .. HistorySize /\ 0 <= Len(history)
  BY SizeAssumption, HistoryFacts
<1>3. last' \in Cmd \cup {Undefined} /\ (search' => last' # Undefined)
  BY <1>1 DEF LineInv, TypeOK
<1> QED BY <1>1, <1>2, <1>3, EmptyCommand, DriftStep

-----------------------------------------------------------------------------
(***************************************************************************)
(* A page that is loaded.                                                  *)
(***************************************************************************)

\* The page is loaded again.
LEMMA ReloadKeeps ==
    ASSUME LineInv, Reload
    PROVE  LineInv'
<1>1. /\ command' = <<>> /\ position' = 0 /\ kill' = <<>> /\ last' = Undefined
      /\ firstUp' = TRUE /\ search' = FALSE /\ sought' = <<>> /\ found' = 0
      /\ before' = Undefined /\ adrift' = FALSE
      /\ pos' = Len(history) - 1 /\ history' = history
  BY DEF Reload, Fresh
<1>2. /\ history \in Seq(Cmd) /\ Len(history) \in Nat /\ Len(history) <= HistorySize
      /\ HistorySize \in Nat /\ MaxLength \in Nat
  BY SizeAssumption DEF LineInv, TypeOK, HistoryKept
<1>3. pos' \in -1 .. HistorySize - 1
      /\ pos' \in (IF history = <<>> THEN {-1} ELSE 0 .. Len(history) - 1)
  <2>1. CASE history = <<>>
    BY <1>1, <1>2, <2>1
  <2>2. CASE history # <<>>
    BY <1>1, <1>2, <2>2
  <2> QED BY <2>1, <2>2
<1>4. TypeOK'
  <2>1. 0 \in 0 .. 2 * MaxLength /\ 0 \in 0 .. HistorySize
    BY <1>2
  <2> QED BY <1>1, <1>2, <1>3, <2>1, EmptyCommand DEF TypeOK
<1>5. HistoryKept'
  BY <1>1, <1>3 DEF LineInv, HistoryKept
<1>6. SearchCanEnd' /\ CursorInLine' /\ YankUndoesKill'
  BY <1>1, EmptyCommand DEF SearchCanEnd, CursorInLine, YankUndoesKill
<1>7. FoundIsThere'
  BY <1>1, <1>2 DEF FoundIsThere
<1> QED BY <1>4, <1>5, <1>6, <1>7 DEF LineInv

\* The first page.
LEMMA InitHolds == Init => LineInv
<1> SUFFICES ASSUME Init PROVE LineInv
  OBVIOUS
<1>1. 0 \in 0 .. 2 * MaxLength /\ 0 \in 0 .. HistorySize /\ -1 \in -1 .. HistorySize - 1
  BY SizeAssumption
<1>2. TypeOK
  <2>1. <<>> \in Seq(Cmd)
    OBVIOUS
  <2> QED BY <1>1, <2>1, EmptyCommand DEF Init, TypeOK
<1>3. HistoryKept
  BY SizeAssumption DEF Init, HistoryKept
<1>4. SearchCanEnd /\ FoundIsThere /\ CursorInLine /\ YankUndoesKill
  BY EmptyCommand DEF Init, SearchCanEnd, FoundIsThere, CursorInLine, YankUndoesKill
<1> QED BY <1>2, <1>3, <1>4 DEF LineInv

\* Every step keeps the invariant.
LEMMA StepHolds == LineInv /\ [Next]_vars => LineInv'
<1> SUFFICES ASSUME LineInv, [Next]_vars PROVE LineInv'
  OBVIOUS
<1>1. CASE Enter \/ Up \/ Down
  BY <1>1, EnterKeeps, UpKeeps, DownKeeps
<1>2. CASE Searching
  BY <1>2, BeginSearchKeeps, SearchNextKeeps, ShortenSearchKeeps, CancelSearchKeeps,
     EscapeKeeps, TypeInSearchKeeps DEF Searching
<1>3. CASE Editing
  BY <1>3, TypeKeeps, PasteKeeps, ShiftEnterKeeps, BackspaceKeeps, DeleteKeeps, DeleteWordKeeps, RubOutKeeps,
     KillRestKeeps, KillStartKeeps, KillWordKeeps, YankKeeps DEF Editing
<1>4. CASE Moving
  BY <1>4, LeftKeeps, RightKeeps, HomeEndKeep, WordLeftKeeps, WordRightKeeps DEF Moving
<1>5. CASE Reload
  BY <1>5, ReloadKeeps
<1>6. CASE UNCHANGED vars
  BY <1>6 DEF vars, line, past, seek, LineInv, TypeOK, HistoryKept, SearchCanEnd,
     FoundIsThere, CursorInLine, YankUndoesKill, Inserted
<1> QED BY <1>1, <1>2, <1>3, <1>4, <1>5, <1>6 DEF Next

-----------------------------------------------------------------------------
(***************************************************************************)
(* The theorems.                                                           *)
(***************************************************************************)

\* The invariant holds at all times.
THEOREM LineInvariant == Spec => []LineInv
BY InitHolds, StepHolds, PTL DEF Spec

\* The line, its cursor, the history and what is sought have their types: the cursor
\* stays within its bound, the history pointer within the history's size.
THEOREM TypeCorrect == Spec => []TypeOK
<1>1. LineInv => TypeOK
  BY DEF LineInv
<1> QED BY <1>1, LineInvariant, PTL

\* History.append, UP, DOWN, Enter and a page that is loaded again: the history holds
\* at most its size, no command twice in a row, and stands at one of its commands.
THEOREM HistoryStays == Spec => []HistoryKept
<1>1. LineInv => HistoryKept
  BY DEF LineInv
<1> QED BY <1>1, LineInvariant, PTL

\* The cursor is in the line, or a search left it behind the line's end.
THEOREM CursorStays == Spec => []CursorInLine
<1>1. LineInv => CursorInLine
  BY DEF LineInv
<1> QED BY <1>1, LineInvariant, PTL

\* What was killed from the line and yanked at once gives the line back.
THEOREM KillsUndone == Spec => []YankUndoesKill
<1>1. LineInv => YankUndoesKill
  BY DEF LineInv
<1> QED BY <1>1, LineInvariant, PTL

-----------------------------------------------------------------------------
(***************************************************************************)
(* What a search finds.                                                    *)
(***************************************************************************)

\* What a text without operators begins with has none either: it is no regular
\* expression that RegExp refuses, and matches what contains it.
LEMMA LiteralParts ==
    ASSUME NEW s \in Seq(Char), Literal(s), NEW m \in 0 .. Len(s)
    PROVE  LET t == SubSeq(s, 1, m) IN
           Literal(t) /\ ~Throws(t) /\ \A c : Matches(t, c) <=> Occurs(t, c)
<1> DEFINE t == SubSeq(s, 1, m)
<1>1. /\ Len(t) = IF 1 <= m THEN m - 1 + 1 ELSE 0
      /\ \A k \in 1 .. m - 1 + 1 : t[k] = s[1 + k - 1]
  BY PartOfText
<1>2. \A i \in 1 .. Len(t) : i \in 1 .. Len(s) /\ t[i] = s[i]
  BY <1>1
<1> HIDE DEF t
<1>3. Literal(t)
  BY <1>2 DEF Literal
<1> QED BY <1>3 DEF Throws, Matches, t

\* The next command that is found is older.
LEMMA NextIsOlder ==
    ASSUME LineInv, SearchNext, Literal(sought), sought' # <<>>
    PROVE  found' > found /\ Occurs(sought', command')
<1>1. Search(sought, TRUE) /\ sought \in Seq(Char) /\ Len(sought) \in Nat
  BY LineFacts DEF SearchNext
<1>2. PICK limit \in Nat :
              /\ limit = IF TRUE /\ found > 0 THEN Len(history) - found ELSE Len(history)
              /\ \E m \in Nat, k \in Nat : Hit(sought, limit, m, k)
  <2>1. \A j \in 1 .. Len(sought) : ~Throws(SubSeq(sought, 1, j))
    BY <1>1, LiteralParts
  <2> QED BY <1>1, <2>1, SearchResult
<1>3. PICK m \in Nat, k \in Nat : Hit(sought, limit, m, k)
  BY <1>2
<1>4. found \in Nat /\ Len(history) \in Nat
  BY HistoryFacts, SizeAssumption DEF LineInv, TypeOK
<1>5. k \in 1 .. limit /\ found' = Len(history) - k + 1
  BY <1>3 DEF Hit
<1>6. found' > found
  BY <1>2, <1>4, <1>5
<1>7. Occurs(sought', command')
  <2>1. /\ m \in 1 .. Len(sought) /\ sought' = SubSeq(sought, 1, m)
        /\ Matches(sought', command')
    BY <1>3 DEF Hit
  <2> QED BY <1>1, <2>1, LiteralParts
<1> QED BY <1>6, <1>7

\* What is found for a character that is typed is the newest command with the longest
\* beginning of what was typed that any contains.
LEMMA FoundIsNewest ==
    ASSUME LineInv, NEW ch \in Char, TypeInSearch(ch), Literal(Append(sought, ch)),
           sought' # <<>>
    PROVE  /\ command' = history[Len(history) - found' + 1]
           /\ Occurs(sought', command')
           /\ \A k \in Len(history) - found' + 2 .. Len(history) : ~Occurs(sought', history[k])
           /\ sought' = Append(sought, ch) \/
              \A k \in 1 .. Len(history) :
                 ~Occurs(SubSeq(Append(sought, ch), 1, Len(sought') + 1), history[k])
<1> DEFINE s == Append(sought, ch)
           n == Len(history)
<1>0. Literal(s)
  OBVIOUS
<1>1. Search(s, FALSE) /\ s \in Seq(Char) /\ n \in Nat
  <2>1. Search(s, FALSE)
    BY DEF TypeInSearch
  <2>2. sought \in Seq(Char) /\ n \in Nat
    BY LineFacts, HistoryFacts
  <2>3. s \in Seq(Char)
    BY <2>2, AppendProperties
  <2> QED BY <2>1, <2>2, <2>3
<1>2. PICK limit \in Nat :
              /\ limit = IF FALSE /\ found > 0 THEN Len(history) - found ELSE Len(history)
              /\ \E m \in Nat, k \in Nat : Hit(s, limit, m, k)
  <2> HIDE DEF s
  <2>1. \A j \in 1 .. Len(s) : ~Throws(SubSeq(s, 1, j))
    BY <1>0, <1>1, LiteralParts
  <2> QED BY <1>1, <2>1, SearchResult
<1>3. PICK m \in Nat, i \in Nat : Hit(s, n, m, i)
  BY <1>2
<1> HIDE DEF s
<1>4. /\ m \in 1 .. Len(s) /\ i \in 1 .. n /\ sought' = SubSeq(s, 1, m)
      /\ command' = history[i] /\ found' = n - i + 1
      /\ Occurs(SubSeq(s, 1, m), history[i])
      /\ \A j \in i + 1 .. n : ~Occurs(SubSeq(s, 1, m), history[j])
      /\ \A l \in m + 1 .. Len(s) : \A j \in 1 .. n : ~Occurs(SubSeq(s, 1, l), history[j])
  <2>1. /\ m \in 1 .. Len(s) /\ i \in 1 .. n /\ sought' = SubSeq(s, 1, m)
        /\ command' = history[i] /\ found' = n - i + 1
        /\ Matches(SubSeq(s, 1, m), history[i])
        /\ \A j \in i + 1 .. n : ~Matches(SubSeq(s, 1, m), history[j])
        /\ \A l \in m + 1 .. Len(s) : \A j \in 1 .. n : ~Matches(SubSeq(s, 1, l), history[j])
    BY <1>3 DEF Hit
  <2>2. \A l \in 1 .. Len(s) : \A c : Matches(SubSeq(s, 1, l), c) <=> Occurs(SubSeq(s, 1, l), c)
    BY <1>0, <1>1, LiteralParts
  <2>3. \A l \in m + 1 .. Len(s) : l \in 1 .. Len(s)
    BY <1>1, <2>1
  <2> QED BY <2>1, <2>2, <2>3
<1>5. Len(s) \in Nat /\ Len(history) \in Nat
  BY <1>1
<1>6. n - found' + 1 = i /\ n - found' + 2 = i + 1
  BY <1>4, <1>5
<1>7. SubSeq(s, 1, m) \in Seq(Char) /\ Len(SubSeq(s, 1, m)) = m
  <2>1. m \in 0 .. Len(s) /\ 1 \in Nat \ {0}
    BY <1>4, <1>5
  <2>2. SubSeq(s, 1, m) \in Seq(Char)
        /\ Len(SubSeq(s, 1, m)) = IF 1 <= m THEN m - 1 + 1 ELSE 0
    BY <1>1, <2>1, PartOfText
  <2> QED BY <1>4, <1>5, <2>2
<1>8. sought' = s \/ \A k \in 1 .. n : ~Occurs(SubSeq(s, 1, Len(sought') + 1), history[k])
  <2>1. CASE m = Len(s)
    <3>1. \A k \in 1 .. Len(s) : SubSeq(s, 1, m)[k] = s[k]
      <4>1. m \in 0 .. Len(s) /\ 1 \in Nat \ {0}
        BY <1>4, <1>5
      <4>2. \A k \in 1 .. m - 1 + 1 : SubSeq(s, 1, m)[k] = s[1 + k - 1]
        BY <1>1, <4>1, PartOfText
      <4> QED BY <1>4, <1>5, <2>1, <4>2
    <3>2. SubSeq(s, 1, m) = s
      <4> DEFINE t == SubSeq(s, 1, m)
      <4>1. t \in Seq(Char) /\ Len(t) = Len(s) /\ \A k \in 1 .. Len(t) : t[k] = s[k]
        BY <1>7, <2>1, <3>1
      <4> HIDE DEF t
      <4>2. t = s
        BY <1>1, <4>1, SameText
      <4> QED BY <4>2 DEF t
    <3> QED BY <1>4, <3>2
  <2>2. CASE m # Len(s)
    <3>1. m + 1 \in m + 1 .. Len(s)
      BY <1>4, <1>5, <2>2
    <3>2. Len(sought') + 1 = m + 1
      BY <1>4, <1>7
    <3> QED BY <1>4, <3>1, <3>2
  <2> QED BY <2>1, <2>2
<1>9. command' = history[n - found' + 1]
  BY <1>4, <1>6
<1>10. \A k \in n - found' + 2 .. n : ~Occurs(sought', history[k])
  BY <1>4, <1>6
<1>11. Occurs(sought', command')
  BY <1>4
<1> QED BY <1>8, <1>9, <1>10, <1>11 DEF s

\* The line is the command of the history that was found.
LEMMA SearchShown ==
    ASSUME LineInv, NEW s \in Seq(Char), NEW next \in BOOLEAN, Search(s, next),
           UNCHANGED history, found' \notin {0, found}
    PROVE  command' = history'[Len(history') - found' + 1]
<1>1. PICK limit \in Nat, m \in Nat, k \in Nat : Hit(s, limit, m, k)
  BY SearchResult DEF line
<1>2. command' = history[k] /\ found' = Len(history) - k + 1
  BY <1>1 DEF Hit
<1>3. Len(history) - found' + 1 = k
  BY <1>2, HistoryFacts
<1> QED BY <1>2, <1>3

\* Only searching finds.
LEMMA FoundIsShown ==
    ASSUME LineInv, Next, found' \notin {0, found}
    PROVE  command' = history'[Len(history') - found' + 1]
<1>1. ASSUME NEW s \in Seq(Char), NEW next \in BOOLEAN, Search(s, next), Plain
      PROVE  command' = history'[Len(history') - found' + 1]
  BY <1>1, SearchShown DEF Plain, past
<1>2. CASE SearchNext
  BY <1>1, <1>2, LineFacts DEF SearchNext
<1>3. ASSUME NEW ch \in Char, TypeInSearch(ch)
      PROVE  command' = history'[Len(history') - found' + 1]
  <2>1. Append(sought, ch) \in Seq(Char)
    BY LineFacts, AppendProperties
  <2> QED BY <1>1, <1>3, <2>1 DEF TypeInSearch
<1>4. CASE Enter \/ Up \/ Down \/ Reload
  BY <1>4 DEF Enter, Up, Down, Reload, Fresh, LeaveSearch, EndSearch, seek
<1>5. CASE BeginSearch \/ ShortenSearch \/ CancelSearch \/ Escape
  BY <1>5 DEF BeginSearch, ShortenSearch, CancelSearch, Escape, EndSearch
<1>6. CASE Editing
  BY <1>6 DEF Editing, Type, Paste, ShiftEnter, Backspace, Delete, DeleteWord, RubOut,
     KillRest, KillStart, KillWord, Yank, Killing, EndSearch, seek
<1>7. CASE Moving
  BY <1>7 DEF Moving, Left, Right, Home, End, MoveKey, WordLeft, WordRight, LeaveSearch,
     EndSearch, seek
<1> QED BY <1>2, <1>3, <1>4, <1>5, <1>6, <1>7 DEF Next, Searching

\* CTRL+R and the characters typed while searching: the search goes through the
\* history backwards and, for a text without operators, misses no command.
THEOREM SearchMissesNothing == Spec => SearchesBackwards
<1>1. LineInv /\ [Next]_vars =>
         [sought' # <<>> /\ Literal(sought) /\ SearchNext =>
             found' > found /\ Occurs(sought', command')]_vars
  BY NextIsOlder
<1>2. LineInv /\ [Next]_vars =>
         [\A ch \in Char : sought' # <<>> /\ Literal(Append(sought, ch)) /\ TypeInSearch(ch) =>
             /\ command' = history[Len(history) - found' + 1]
             /\ Occurs(sought', command')
             /\ \A k \in Len(history) - found' + 2 .. Len(history) :
                   ~Occurs(sought', history[k])
             /\ sought' = Append(sought, ch) \/
                \A k \in 1 .. Len(history) :
                   ~Occurs(SubSeq(Append(sought, ch), 1, Len(sought') + 1), history[k])]_vars
  BY FoundIsNewest
<1>3. LineInv /\ [Next]_vars =>
         [found' \notin {0, found} => command' = history'[Len(history') - found' + 1]]_vars
  BY FoundIsShown
<1> QED BY <1>1, <1>2, <1>3, LineInvariant, PTL
        DEF Spec, SearchesBackwards, SearchGoesBack, SearchFindsNewest, SearchShowsHistory
=============================================================================
