----------------------------- MODULE ConfigText -----------------------------
(***************************************************************************)
(* The two readers of config.cpp, from text to key/value pairs:            *)
(* read_config_file, line by line, and read_env.                           *)
(*                                                                         *)
(* A text is a sequence of symbols.  A word or a number is one symbol (a   *)
(* text of Levels), and so is each blank, "=", "#", "%" and ",".  A key is *)
(* the word it consists of; "module.<name>" is the word <name>.            *)
(***************************************************************************)
EXTENDS Levels, SequencesExt

Alphabet == (STRING \X {0}) \cup ({"0"} \X Int)
Blanks   == {Word(" "), Word("\t")}
Equals   == Word("=")
Hash     == Word("#")
Comma    == Word(",")

\* The keys of a pair that names none, and of one whose name is not one word.
Nameless == ""
Several  == "several words"

\* Key/value pairs: none, one, and those of two maps, of which the first decides.
NoPairs          == [key \in {} |-> <<>>]
Pair(key, value) == [k \in {key} |-> value]
Atop(top, base)  == [key \in DOMAIN top \cup DOMAIN base |->
                        IF key \in DOMAIN top THEN top[key] ELSE base[key]]

Least(s)    == CHOOSE i \in s : \A j \in s : i <= j
Greatest(s) == CHOOSE i \in s : \A j \in s : i >= j

Kept(text) == {i \in DOMAIN text : text[i] \notin Blanks}
Trim(text) == IF Kept(text) = {} THEN <<>> ELSE SubSeq(text, Least(Kept(text)), Greatest(Kept(text)))

\* The parts of a list, each up to a comma or the end; those that are empty are dropped.
Ends(text)      == {i \in 1 .. Len(text) + 1 : i <= Len(text) => text[i] = Comma}
PartAt(text, i) == Trim(SubSeq(text, Greatest({0} \cup {j \in Ends(text) : j < i}) + 1, i - 1))
Split(text)     == {PartAt(text, i) : i \in Ends(text)} \ {<<>>}

\* A "#" inside a word, as that of a format, starts no comment.
StartsComment(line, i) == line[i] = Hash /\ (i > 1 => line[i - 1] \in Blanks)

StripComment(line) ==
    LET starts == {i \in DOMAIN line : StartsComment(line, i)}
    IN IF starts = {} THEN line ELSE SubSeq(line, 1, Least(starts) - 1)

\* A pair is cut at its first equals sign.
EqualsIn(text) == {i \in DOMAIN text : text[i] = Equals}
KeyOf(text) ==
    LET key == Trim(SubSeq(text, 1, Least(EqualsIn(text)) - 1))
    IN IF key = <<>> THEN Nameless ELSE IF Len(key) > 1 THEN Several ELSE key[1][1]
ValueOf(text) == Trim(SubSeq(text, Least(EqualsIn(text)) + 1, Len(text)))

WithPair(kv, text) ==
    IF EqualsIn(text) = {} \/ KeyOf(text) = Nameless THEN kv
    ELSE Atop(Pair(KeyOf(text), ValueOf(text)), kv)

\* A file is its lines, and whether it can be opened; no file is one without lines.
\* The pairs after each line.
PairsUpTo(lines) ==
    LET upTo[i \in 0 .. Len(lines)] ==
          IF i = 0 THEN NoPairs ELSE WithPair(upTo[i - 1], StripComment(lines[i]))
    IN upTo
ReadConfigFile(file) == IF file.opens THEN PairsUpTo(file.lines)[Len(file.lines)] ELSE NoPairs

\* What reading it records: a line that is neither blank nor a pair is skipped.
ReadingErrors(file) ==
    IF ~file.opens THEN {"config_file_read"}
    ELSE IF \E i \in DOMAIN file.lines :
              LET body == StripComment(file.lines[i]) IN EqualsIn(body) = {} /\ Trim(body) # <<>>
    THEN {"config_bad_value"}
    ELSE {}

\* SLOG_VERBOSITY: the first bare part is the global level.
WithLevel(kv, part) ==
    IF part = <<>> THEN kv
    ELSE IF EqualsIn(part) = {} THEN Atop(kv, Pair("verbosity", part))
    ELSE Atop(Pair(KeyOf(part), ValueOf(part)), kv)

LevelsUpTo(text) ==
    LET upTo[i \in 0 .. Len(text) + 1] ==
          IF i = 0 THEN NoPairs
          ELSE IF i \in Ends(text) THEN WithLevel(upTo[i - 1], PartAt(text, i))
          ELSE upTo[i - 1]
    IN upTo
ReadLevels(text) == LevelsUpTo(text)[Len(text) + 1]

KeyOfVariable ==
    [SLOG_DISABLE |-> "disable", SLOG_DIR |-> "dir", SLOG_TAG |-> "tag", SLOG_FILE |-> "file",
     SLOG_FILE_PER_MODULE |-> "file.per_module", SLOG_FILE_NAME |-> "file.name",
     SLOG_STDOUT |-> "stdout", SLOG_STDOUT_ONLY |-> "stdout.only",
     SLOG_STDOUT_MODULES |-> "stdout.modules", SLOG_FORMAT |-> "format", SLOG_TIME |-> "time",
     SLOG_ELAPSED |-> "elapsed", SLOG_COLOR |-> "color", SLOG_FLUSH |-> "flush",
     SLOG_RETAIN_RUNS |-> "retain.runs", SLOG_RETAIN_DAYS |-> "retain.days"]

\* env has the variables that are set and not empty.
ReadEnv(env) ==
    LET variables == DOMAIN env \cap DOMAIN KeyOfVariable
        named     == [key \in {KeyOfVariable[v] : v \in variables} |->
                         env[CHOOSE v \in variables : KeyOfVariable[v] = key]]
        noColor   == IF "NO_COLOR" \in DOMAIN env THEN Pair("color", <<Word("never")>>) ELSE NoPairs
        levels    == IF "SLOG_VERBOSITY" \in DOMAIN env
                     THEN ReadLevels(env["SLOG_VERBOSITY"]) ELSE NoPairs
    IN Atop(named, Atop(noColor, levels))

----------------------------------------------------------------------------
(* What the documentation promises of a text, found without a scan.        *)

CommentAt(line, i) == line[i] = Hash /\ (i = 1 \/ line[i - 1] \in Blanks)

\* What stands before the comment of a line, as a set.
Uncommented(line) ==
    {SubSeq(line, 1, end - 1) :
        end \in {e \in 1 .. Len(line) + 1 :
                   /\ \A i \in 1 .. e - 1 : ~CommentAt(line, i)
                   /\ e <= Len(line) => CommentAt(line, e)}}

\* The name before place q: the one word that stands there, or several.
NamesBefore(text, q) ==
    LET said == {k \in 1 .. q - 1 : text[k] \notin Blanks}
    IN {text[k][1] : k \in {i \in said : said = {i}}}
       \cup IF \E i, j \in said : i # j THEN {Several} ELSE {}

\* "One key = value per line": the value a text gives a key, as a set.
AssignedIn(text, key) ==
    {Trim(SubSeq(text, q + 1, Len(text))) :
        q \in {p \in DOMAIN text : /\ text[p] = Equals
                                   /\ \A j \in 1 .. p - 1 : text[j] # Equals
                                   /\ key \in NamesBefore(text, p)}}
AssignedBy(line, key) == UNION {AssignedIn(text, key) : text \in Uncommented(line)}

\* Of several values that are given the last decides.
LastOf(values) ==
    LET given == {i \in DOMAIN values : values[i] # {}}
    IN IF given = {} THEN {} ELSE values[Greatest(given)]

\* A module is listed if it stands alone between commas; an empty list lists all.
Listed(text, m) ==
    LET said == {i \in DOMAIN text : text[i] \notin Blanks \cup {Comma}}
    IN \/ said = {}
       \/ \E i \in said :
             /\ text[i] = Word(m)
             /\ \A j \in said \ {i} :
                   \E k \in DOMAIN text : text[k] = Comma /\ (k \in i .. j \/ k \in j .. i)

=============================================================================
