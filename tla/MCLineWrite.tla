---------------------------- MODULE MCLineWrite -----------------------------
(* LineWrite with small buffers and two threads of one line each.  The     *)
(* logger starts with every pattern that reads its characters differently, *)
(* with and without the toggles; the program then asks for three others.   *)
EXTENDS LineWrite

CONSTANTS t1, t2

MCCharacters == {"a", "b", "x", "q", "f", "M", "p", "T", "F", "#", "e", "m", "L", "t", "%", "\n"}
MCThreads  == {t1, t2}
MCMaxLines == [t \in MCThreads |-> 1]

MCRecords == {[level |-> "WARNING", msg |-> <<"a", "\n">>],
              [level |-> "TRACE", msg |-> <<"b", "b", "b", "b", "b", "\n">>]}

Prefix(format, time, elapsed, coloured, flushed) ==
    [format |-> format, time |-> time, elapsed |-> elapsed, colour |-> coloured, flush |-> flushed]

LevelAndMsg == <<"%", "L", "%", "m">>
MCDefaults == Prefix(LevelAndMsg, FALSE, FALSE, TRUE, TRUE)

\* What the logger starts with: both toggles; an escaped "%t" that hides a toggle;
\* escapes, an unknown token and a last percent sign; a coloured tag that does not fit;
\* fields and messages that do not fit.
MCLoaded ==
    {Prefix(LevelAndMsg, TRUE, TRUE, TRUE, TRUE),
     Prefix(<<"%", "%", "t", "%", "m">>, TRUE, FALSE, TRUE, TRUE),
     Prefix(<<"%", "%", "%", "t", "%", "%", "x", "%", "q", "%", "m", "%">>, TRUE, FALSE, FALSE, TRUE),
     Prefix(<<"x", "x", "x", "x", "x", "x", "x", "x", "x", "%", "L">>, FALSE, FALSE, TRUE, FALSE),
     Prefix(<<"%", "f", "%", "M", "%", "p", "%", "T", "%", "F", "%", "#", "%", "e", "%", "m", "%", "m">>,
            FALSE, TRUE, TRUE, TRUE)}

MCConfigurations == {MCDefaults, Prefix(LevelAndMsg, TRUE, FALSE, FALSE, FALSE)}

Alike == Permutations(MCThreads)
=============================================================================
