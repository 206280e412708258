----------------------------- MODULE LineFormat -----------------------------
(***************************************************************************)
(* The text of a line: the cut of a message (format_and_dispatch of        *)
(* logger.cpp), the prefix pattern and the line built from it (format.cpp).*)
(*                                                                         *)
(* A pattern and a message are sequences of characters.  A line is a       *)
(* sequence of bytes <<kind, value>>; a field other than the message is    *)
(* one byte, which carries the value it shows.                             *)
(***************************************************************************)
EXTENDS Integers, Sequences, SequencesExt

CONSTANTS
    Characters,     \* what a pattern or a message consists of
    MaxLine,        \* kMaxLine
    MaxMsg,         \* kMaxMsg
    BuiltinLevels   \* the levels that have a colour

ASSUME SizesAssumption == MaxMsg \in 4 .. MaxLine /\ MaxLine \in Nat

Chars(kind, s)  == [i \in DOMAIN s |-> <<kind, s[i]>>]
NewLine         == <<"char", "\n">>
Ellipsis        == <<".", ".", ".">>

\* What vsnprintf leaves of a message, cut and on one line.
CutMessage(msg) ==
    LET cut == IF Len(msg) < MaxMsg THEN msg ELSE SubSeq(msg, 1, MaxMsg - 4) \o Ellipsis
    IN [i \in DOMAIN cut |-> IF cut[i] \in {"\n", "\r"} THEN " " ELSE cut[i]]

FieldFor ==
    [c \in {"L", "f", "m", "M", "t", "e", "p", "T", "F", "#"} |->
       CASE c = "L" -> "Level"  [] c = "f" -> "Func"    [] c = "m" -> "Msg"
         [] c = "M" -> "Module" [] c = "t" -> "Time"    [] c = "e" -> "Elapsed"
         [] c = "p" -> "Pid"    [] c = "T" -> "Tid"     [] c = "F" -> "File"
         [] c = "#" -> "Line"]

Has(text, c) == \E i \in 1 .. Len(text) - 1 : text[i] = "%" /\ text[i + 1] = c

\* The toggles put their field in front of a text that lacks it.  Mutant: of any text.
ToggledAlways(text, time, elapsed) ==
    (IF time THEN <<"%", "t", " ">> ELSE <<>>)
    \o (IF elapsed THEN <<"%", "e", " ">> ELSE <<>>) \o text
Toggled(text, time, elapsed) ==
    (IF time /\ ~Has(text, "t") THEN <<"%", "t", " ">> ELSE <<>>)
    \o (IF elapsed /\ ~Has(text, "e") THEN <<"%", "e", " ">> ELSE <<>>) \o text

\* A literal text is kept character by character, as <<"Literal", c>>.
Tokens(p) ==
    LET from[i \in 1 .. Len(p) + 1] ==
          IF i > Len(p) THEN <<>>
          ELSE IF p[i] # "%" \/ i = Len(p) THEN <<<<"Literal", p[i]>>>> \o from[i + 1]
          ELSE IF p[i + 1] = "%" THEN <<<<"Literal", "%">>>> \o from[i + 2]
          ELSE IF p[i + 1] \in DOMAIN FieldFor
               THEN <<<<FieldFor[p[i + 1]], "">>>> \o from[i + 2]
          ELSE <<<<"Literal", "%">>, <<"Literal", p[i + 1]>>>> \o from[i + 2]
    IN from[1]

ParseFormat(text, time, elapsed, start) ==
    LET tokens == Tokens(Toggled(text, time, elapsed))
    IN [tokens |-> tokens,
        needsTime |-> \E i \in DOMAIN tokens : tokens[i][1] \in {"Time", "Elapsed"},
        start |-> start]

\* The level tag, with its colour.
LevelTag(level, colored) ==
    IF colored /\ level \in BuiltinLevels
    THEN <<<<"colour", level>>, <<"level", level>>, <<"colour", "reset">>>>
    ELSE <<<<"level", level>>>>

\* The time a line shows since the start; a clock that was set back shows none.
Elapsed(start, now) == IF now < start THEN 0 ELSE now - start

\* What one token adds to a line.
Bytes(spec, rec, colored, token) ==
    CASE token[1] = "Literal" -> <<<<"char", token[2]>>>>
      [] token[1] = "Msg"     -> Chars("msg", rec.msg)
      [] token[1] = "Level"   -> LevelTag(rec.level, colored)
      [] token[1] = "Time"    -> <<<<"time", rec.now>>>>
      [] token[1] = "Elapsed" -> <<<<"elapsed", Elapsed(spec.start, rec.now)>>>>
      [] OTHER                -> <<<<"field", token[1]>>>>

\* Mutant: no byte is kept for the newline.
PutToTheEnd(acc, bytes) ==
    LET room == MaxLine - Len(acc.out)
    IN IF acc.trunc THEN acc
       ELSE IF Len(bytes) <= room THEN [acc EXCEPT !.out = @ \o bytes]
       ELSE [out |-> acc.out \o SubSeq(bytes, 1, room), trunc |-> TRUE]
Put(acc, bytes) ==
    LET room == MaxLine - 1 - Len(acc.out)
    IN IF acc.trunc THEN acc
       ELSE IF Len(bytes) <= room THEN [acc EXCEPT !.out = @ \o bytes]
       ELSE [out |-> acc.out \o SubSeq(bytes, 1, room), trunc |-> TRUE]

\* The line after each of the tokens.
LineUpTo(spec, rec, colored) ==
    LET upTo[n \in 0 .. Len(spec.tokens)] ==
          IF n = 0 THEN [out |-> <<>>, trunc |-> FALSE]
          ELSE Put(upTo[n - 1], Bytes(spec, rec, colored, spec.tokens[n]))
    IN upTo

BuildLine(spec, rec, colored) ==
    LET line == LineUpTo(spec, rec, colored)[Len(spec.tokens)]
        kept == IF Len(line.out) > MaxLine - 4 THEN MaxLine - 4 ELSE Len(line.out)
    IN IF line.trunc THEN SubSeq(line.out, 1, kept) \o Chars("char", Ellipsis) \o <<NewLine>>
       ELSE line.out \o <<NewLine>>

----------------------------------------------------------------------------
(* What the documentation promises of a line, written without scanning.    *)

\* A percent sign starts a token if an odd number of them ends at it.
StartsToken(p, i) ==
    /\ i \in 1 .. Len(p) - 1
    /\ p[i] = "%"
    /\ \E n \in 1 .. i : /\ n % 2 = 1
                         /\ \A j \in i - n + 1 .. i : p[j] = "%"
                         /\ i - n >= 1 => p[i - n] # "%"

\* What the documentation says a character of a pattern shows.
Shown(p, i, start, rec, colored) ==
    CASE StartsToken(p, i - 1) -> <<>>
      [] StartsToken(p, i) /\ p[i + 1] = "m" -> Chars("msg", rec.msg)
      [] StartsToken(p, i) /\ p[i + 1] = "L" -> LevelTag(rec.level, colored)
      [] StartsToken(p, i) /\ p[i + 1] = "t" -> <<<<"time", rec.now>>>>
      [] StartsToken(p, i) /\ p[i + 1] = "e" -> <<<<"elapsed", Elapsed(start, rec.now)>>>>
      [] StartsToken(p, i) /\ p[i + 1] = "%" -> <<<<"char", "%">>>>
      [] StartsToken(p, i) /\ p[i + 1] \in {"f", "M", "p", "T", "F", "#"} ->
            <<<<"field", FieldFor[p[i + 1]]>>>>
      [] StartsToken(p, i) /\ p[i + 1] \notin DOMAIN FieldFor \cup {"%"} ->
            Chars("char", <<"%", p[i + 1]>>)
      [] OTHER -> <<<<"char", p[i]>>>>

\* The toggles add their field to a text that does not show it.
WithToggles(text, time, elapsed) ==
    LET lacks(c) == ~\E i \in DOMAIN text : StartsToken(text, i) /\ text[i + 1] = c
    IN (IF time /\ lacks("t") THEN <<"%", "t", " ">> ELSE <<>>)
       \o (IF elapsed /\ lacks("e") THEN <<"%", "e", " ">> ELSE <<>>) \o text

AllShown(p, start, rec, colored) ==
    FlattenSeq([i \in 1 .. Len(p) |-> Shown(p, i, start, rec, colored)])

Promised(text, time, elapsed, start, rec, colored) ==
    LET whole == AllShown(WithToggles(text, time, elapsed), start, rec, colored)
    IN IF Len(whole) < MaxLine THEN whole \o <<NewLine>>
       ELSE SubSeq(whole, 1, MaxLine - 4) \o Chars("char", Ellipsis) \o <<NewLine>>

=============================================================================
