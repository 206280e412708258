------------------------------- MODULE Levels -------------------------------
(***************************************************************************)
(* The level registry of level.cpp: add_level, and the two conversions     *)
(* every threshold goes through, level_name when a setter stores it and    *)
(* parse_level when the settings are rebuilt.                              *)
(*                                                                         *)
(* A text is a pair: a word (already trimmed and in lower case, as the     *)
(* comparison of parse_level sees it), or "0" with an integer.             *)
(***************************************************************************)
EXTENDS Integers, Sequences

CONSTANTS
    LevelNames,  \* the texts add_level may be given as a name
    LevelValues, \* the values it may be given
    Inherit,     \* kInherit
    Off,         \* kOff
    IntHalf,     \* an int is in -IntHalf .. IntHalf - 1
    MaxLevels    \* bound on the number of custom levels

Word(w)   == <<w, 0>>
Number(n) == <<"0", n>>

Ints == -IntHalf .. IntHalf - 1

ASSUME LevelsAssumption ==
    /\ IntHalf \in Nat \ {0}
    /\ MaxLevels \in Nat
    /\ Off \in Ints /\ Inherit \in Ints /\ Off < Inherit
    /\ LevelValues \subseteq Ints
    /\ \A v \in LevelValues \cup {10, 20, 30, 40} : v > Inherit
    /\ {10, 20, 30, 40} \subseteq Ints

VARIABLE registry  \* the entries: a name and a value each

Builtin == << <<Word("error"), 10>>, <<Word("warning"), 20>>,
              <<Word("info"), 30>>, <<Word("debug"), 40>> >>

Reserved == {Word("inherit"), Word("default")}

\* static_cast<int>(long)
ToInt(n) == ((n + IntHalf) % (2 * IntHalf)) - IntHalf

\* The first entry of the registry whose index is in s.
FirstOf(s) == registry[CHOOSE i \in s : \A j \in s : i <= j]

\* parse_level with the first n entries: the value, as a set that is empty when the
\* text does not parse.
ParseAmong(n, text) ==
    LET named == {i \in 1 .. n : registry[i][1] = text}
    IN IF text \in Reserved THEN {Inherit}
       ELSE IF named # {} THEN {FirstOf(named)[2]}
       ELSE IF text[1] = "0" /\ text[2] \in Int THEN {ToInt(text[2])}
       ELSE {}

ParseLevel(text) == ParseAmong(Len(registry), text)

\* Mutant: the first level that is at least as verbose.
LevelNameAtLeast(value) ==
    LET valued == {i \in DOMAIN registry : registry[i][2] >= value}
    IN IF value = Inherit THEN Word("inherit")
       ELSE IF value = Off THEN Word("off")
       ELSE IF valued # {} THEN FirstOf(valued)[1]
       ELSE Number(value)

\* level_name: the first name that has it, or the number.
LevelName(value) ==
    LET valued == {i \in DOMAIN registry : registry[i][2] = value}
    IN IF value = Inherit THEN Word("inherit")
       ELSE IF value = Off THEN Word("off")
       ELSE IF valued # {} THEN FirstOf(valued)[1]
       ELSE Number(value)

----------------------------------------------------------------------------
RegistryInit == registry = Builtin

\* add_level appends, whatever the name and the value are.
AddLevel(name, value) ==
    /\ Len(registry) < Len(Builtin) + MaxLevels
    /\ registry' = Append(registry, <<name, value>>)

----------------------------------------------------------------------------
(* Properties.                                                             *)

\* The level a value was made for is the level the settings see after the value
\* was stored as a text: "a custom level works everywhere a built-in does".
RoundTrips ==
    \A i \in DOMAIN registry :
        LET value == registry[i][2] IN ParseLevel(LevelName(value)) = {value}

\* Names that parse_level can tell apart: no two entries share one, and none is one of
\* its own words.
NamesAreDistinct ==
    /\ \A i, j \in DOMAIN registry : registry[i][1] = registry[j][1] => i = j
    /\ \A i \in DOMAIN registry : registry[i][1] \notin Reserved

\* With such names every threshold survives the conversion, in whatever order the
\* levels were added and however many of them share a value.
DistinctNamesRoundTrip == NamesAreDistinct => RoundTrips

=============================================================================
