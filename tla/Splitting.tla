------------------------------ MODULE Splitting ------------------------------
(***************************************************************************)
(* splitForTelegram: a text is cut into parts of at most Limit bytes, at   *)
(* line breaks where it can be.  A text is a sequence of bytes.  Newline   *)
(* and "a" are characters of one byte; "h" and "t" are the two bytes of a  *)
(* longer character, so that a cut may fall inside it.                     *)
(***************************************************************************)
EXTENDS Naturals, Sequences, Functions

CONSTANT Limit      \* telegramMessageLimit

ASSUME LimitAssumption == Limit \in Nat \ {0}

Newline == "nl"
Byte == {Newline, "a", "h", "t"}

\* UTF-8: the second byte of a character follows its first byte, and only it.
WellFormed(text) ==
    \A i \in 1 .. Len(text) + 1 :
        (i > 1 /\ text[i - 1] = "h") <=> (i <= Len(text) /\ text[i] = "t")

\* strings.Split at newlines: one line more than there are newlines.
Lines(text) ==
    LET upTo[i \in 0 .. Len(text)] ==
          IF i = 0 THEN <<<<>>>>
          ELSE IF text[i] = Newline THEN Append(upTo[i - 1], <<>>)
          ELSE [upTo[i - 1] EXCEPT ![Len(upTo[i - 1])] = Append(@, text[i])]
    IN  upTo[Len(text)]

\* strings.TrimSpace leaves nothing.
Blank(text) == \A i \in DOMAIN text : text[i] = Newline

\* How many pieces of Limit bytes the inner loop cuts off a line: the rest is
\* not longer than Limit.
Cuts(line) == IF line = <<>> THEN 0 ELSE (Len(line) - 1) \div Limit

Pieces(line) == [i \in 1 .. Cuts(line) |-> SubSeq(line, (i - 1) * Limit + 1, i * Limit)]

\* The line and its newline do not fit into the part that is being filled.
Overflows(current, line) == Len(current) + Len(line) + 1 > Limit

\* One iteration over the lines: a part in progress is closed before a line is
\* cut, and before a line that it has no room for, even if it is empty.
AddLine(st, line) ==
    LET long    == Cuts(line) > 0
        closed  == IF long /\ st.current # <<>> THEN Append(st.parts, st.current) ELSE st.parts
        parts   == closed \o Pieces(line)
        current == IF long THEN <<>> ELSE st.current
        rest    == SubSeq(line, Cuts(line) * Limit + 1, Len(line))
    IN  IF Overflows(current, rest)
          THEN [parts |-> Append(parts, current), current |-> rest]
          ELSE [parts |-> parts,
                current |-> IF current = <<>> THEN rest ELSE current \o <<Newline>> \o rest]

Split(text) ==
    LET lines == Lines(text)
        after[n \in 0 .. Len(lines)] ==
          IF n = 0 THEN [parts |-> <<>>, current |-> <<>>] ELSE AddLine(after[n - 1], lines[n])
        st == after[Len(lines)]
    IN  IF Len(text) <= Limit THEN <<text>>
        ELSE IF st.current = <<>> THEN st.parts ELSE Append(st.parts, st.current)

\* json.Marshal: a byte that belongs to no character becomes U+FFFD.
Marshal(part) ==
    [i \in DOMAIN part |->
        CASE part[i] = "h" -> IF i < Len(part) THEN "h" ELSE "?"
          [] part[i] = "t" -> IF i > 1 THEN "t" ELSE "?"
          [] OTHER -> part[i]]

-----------------------------------------------------------------------------
(* What the splitting is for, without saying how it is done. *)

\* What is left of a text when line breaks are ignored.
Content(text) == SelectSeq(text, LAMBDA b : b # Newline)

Joined(parts) ==
    LET upTo[n \in 0 .. Len(parts)] == IF n = 0 THEN <<>> ELSE upTo[n - 1] \o parts[n]
    IN  upTo[Len(parts)]

\* A cut falls inside a character: then it is lost.
CutsCharacter(text) ==
    \E n \in DOMAIN Lines(text) :
        LET line == Lines(text)[n]
        IN  \E i \in 1 .. Cuts(line) : line[i * Limit + 1] = "t"

Fit(parts) == \A i \in DOMAIN parts : Len(parts[i]) <= Limit

\* The parts that arrived hold the text but for line breaks, and a line that fits
\* into a part was not broken; unless a character was cut.
Carries(parts, text) ==
    \/ CutsCharacter(text)
    \/ /\ Content(Joined(parts)) = Content(text)
       /\ \A line \in Range(Lines(text)) :
            line # <<>> /\ Len(line) <= Limit =>
                \E i \in DOMAIN parts : line \in Range(Lines(parts[i]))

=============================================================================
