----------------------------- MODULE MCSettings -----------------------------
(* Files, environments, setter calls and Configs for a small instance of   *)
(* Settings.                                                               *)
EXTENDS Settings

MCInherit == -50
MCOff     == -60

MCNames == {Word("trace"), Word("info")}

\* A text of words.
W(words) == [i \in DOMAIN words |-> Word(words[i])]

\* set_verbosity with the value that add_level may give a name, set_module_verbosity,
\* set_stdout_verbosity, set_file_verbosity.
MCLevelCalls ==
    {<<"verbosity", 25>>, <<"net", 40>>, <<"net", MCInherit>>, <<"stdout", 10>>,
     <<"file", MCInherit>>}

\* set_disabled, set_stdout_modules, file_off.
MCTextCalls ==
    {<<"disable", W(<<"true">>)>>, <<"stdout.modules", W(<<"db", ",", "app">>)>>,
     <<"file", W(<<"off">>)>>}

\* A Config for a full file and a quiet console.
MCConfigs ==
    {[disabled |-> FALSE, verbosity |-> 20, module |-> [db |-> 30],
      fileOn |-> TRUE, file |-> 40, stdoutOn |-> TRUE, stdout |-> 10, only |-> FALSE,
      selected |-> <<>>]}

\* Files with a comment, a pattern that has a "#", a key that is given twice, and a
\* line that is no pair; and one that cannot be read.
MCFiles ==
    {[opens |-> TRUE, lines |-> <<
        W(<<"verbosity", " ", "=", " ", "trace", " ", "#", "=">>),
        W(<<"stdout", "=", "off">>),
        W(<<"stdout", "=", "#", "debug">>),
        W(<<"net", "=", "info">>)>>],
     [opens |-> TRUE, lines |-> <<
        W(<<"#", "verbosity", "=", "debug">>),
        W(<<"net">>),
        W(<<"verbose", "=", "debug">>),
        <<Word("stdout"), Word("="), Number(25)>> >>],
     [opens |-> FALSE, lines |-> <<>>]}

MCEnvs ==
    {NoPairs,
     ("SLOG_VERBOSITY" :> W(<<"net", "=", "error", ",", "info", ",", " ", "debug", ",",
                              "db", "=", "trace">>)) @@
     ("SLOG_FILE" :> W(<<"loud">>)) @@ ("SLOG_STDOUT_ONLY" :> <<Number(1)>>) @@
     ("NO_COLOR" :> <<Number(1)>>)}
=============================================================================
