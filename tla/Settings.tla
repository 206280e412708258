------------------------------ MODULE Settings ------------------------------
(***************************************************************************)
(* The settings of a process: the three layers of key/value pairs, the     *)
(* rebuild of the settings and of every module's thresholds when a layer   *)
(* changes (reload_locked, compute_module), and the log call that reads    *)
(* the published thresholds with no lock, one atomic load at a time.       *)
(*                                                                         *)
(* Every text is a sequence of the symbols of ConfigText, in lower case.   *)
(***************************************************************************)
EXTENDS ConfigText

CONSTANTS
    Modules,     \* module names
    Threads,     \* threads that log
    CallLevels,  \* levels of the lines they log
    LevelCalls,  \* calls of the setters of a level, as <<key, value>> pairs
    TextCalls,   \* calls of the other setters, as <<key, text>> pairs
    Configs,     \* what configure() may be given
    Files,       \* the files load_file may read
    Envs,        \* the environments load_env may read
    MaxChanges,  \* bound on the number of configuration calls
    MaxCalls     \* bound on the number of log calls

SwitchKeys == {"disable", "stdout.only", "file.per_module", "time", "elapsed"}
LevelKeys  == {"verbosity", "flush"}
OutputKeys == {"file", "stdout"}
PlainKeys  == {"dir", "tag", "file.name", "stdout.modules", "format", "color",
               "retain.runs", "retain.days"}
Keys       == SwitchKeys \cup LevelKeys \cup OutputKeys \cup PlainKeys \cup Modules

ASSUME ModulesAssumption ==
    Modules \cap (SwitchKeys \cup LevelKeys \cup OutputKeys \cup PlainKeys) = {}

\* "module.<name>" is the word <name>, and those of SLOG_VERBOSITY are no other keys.
ASSUME TextsAssumption ==
    /\ Modules \cap {Nameless, Several} = {}
    /\ Files \subseteq [opens : BOOLEAN, lines : Seq(Seq(Alphabet))]
    /\ \A e \in Envs : /\ e \in [DOMAIN e -> Seq(Alphabet)]
                       /\ "SLOG_VERBOSITY" \in DOMAIN e =>
                             \A i \in Ends(e["SLOG_VERBOSITY"]) :
                                LET part == PartAt(e["SLOG_VERBOSITY"], i)
                                IN EqualsIn(part) # {} => KeyOf(part) \in Modules
    /\ \A c \in TextCalls : c[2] \in Seq(Alphabet)
    /\ \A c \in LevelCalls : c[1] \in LevelKeys \cup OutputKeys \cup Modules
    /\ \A c \in Configs : c.selected \in Seq(Alphabet) /\ DOMAIN c.module \subseteq Modules

ASSUME CallsAssumption == CallLevels \subseteq Ints

VARIABLES
    source,     \* the file and the environment that were last read
    layer,      \* file_kv_, env_kv_, api_kv_
    settings,   \* settings_, the record made of the layers
    entries,    \* how many levels the registry had when they were made
    was,        \* the settings before the rebuild under way
    sticky,     \* the code of the last error
    todo,       \* modules that the rebuild has still to compute
    storing,    \* the module being computed, and the next store of it
    disabled,   \* g_disabled
    known,      \* modules_: the modules that have a state
    threshold,  \* file_level, stdout_level, stdout_only, collect_level of each
    call,       \* the log call each thread is in
    inForce,    \* the settings in force at some moment of that call
    written,    \* what that call has written: a subset of {"file", "stdout"}
    changes, calls

configVars == <<source, layer, settings, entries, was, sticky, changes>>
storeVars  == <<todo, storing, disabled>>
moduleVars == <<known, threshold>>
callVars   == <<call, inForce, written, calls>>
vars == <<registry, configVars, storeVars, moduleVars, callVars>>

NoModule == "no module"
Idle     == [step |-> "idle"]
NoStore  == [module |-> NoModule, store |-> "none"]
NoLevels == [file |-> Off, stdout |-> Off, only |-> FALSE, collect |-> Off]

----------------------------------------------------------------------------
\* parse_level of a text, with the first n levels: only one symbol can be a level.
LevelAmong(n, text) ==
    LET t == Trim(text) IN IF Len(t) = 1 THEN ParseAmong(n, t[1]) ELSE {}
LevelOf(text) == LevelAmong(Len(registry), text)

TrueTexts   == {<<Word("true")>>, <<Word("on")>>, <<Word("yes")>>, <<Number(1)>>}
FalseTexts  == {<<Word("false")>>, <<Word("off")>>, <<Word("no")>>, <<Number(0)>>}
OutputTexts == {<<>>, <<Word("on")>>, <<Word("off")>>}

TheOne(s, default) == IF s = {} THEN default ELSE CHOOSE v \in s : TRUE

\* What apply_kv skips: values that do not parse, and unknown keys.
Skips(key, text) ==
    \/ key \notin Keys
    \/ key \in Modules /\ LevelOf(text) = {}
    \/ key \in LevelKeys /\ LevelOf(text) \subseteq {Inherit}
    \/ key \in OutputKeys /\ Trim(text) \notin OutputTexts /\ LevelOf(text) = {}
    \/ key \in SwitchKeys /\ Trim(text) \notin TrueTexts \cup FalseTexts

CodeFor(key) == IF key \in Keys THEN "config_bad_value" ELSE "config_unknown_key"
Recorded(kv) == {CodeFor(key) : key \in {k \in DOMAIN kv : Skips(k, kv[k])}}

\* apply_kv on the default settings: what is skipped leaves its field alone.
IsOn(kv, key)     == key \in DOMAIN kv /\ Trim(kv[key]) \in TrueTexts
OutputOn(kv, key) == key \in DOMAIN kv => Trim(kv[key]) # <<Word("off")>>
LevelAt(kv, key)  == IF key \in DOMAIN kv THEN LevelOf(kv[key]) \ {Inherit} ELSE {}
OutputLevel(kv, key) ==
    IF key \in DOMAIN kv /\ Trim(kv[key]) \in OutputTexts THEN Inherit
    ELSE TheOne(LevelAt(kv, key), Inherit)

\* The modules of a list, all of them when it is empty.
StdoutModules(kv) ==
    {m \in Modules : "stdout.modules" \in DOMAIN kv =>
        \/ Split(kv["stdout.modules"]) = {}
        \/ <<Word(m)>> \in Split(kv["stdout.modules"])}

ApplyKv(kv) ==
    [disabled |-> IsOn(kv, "disable"),
     global   |-> TheOne(LevelAt(kv, "verbosity"), 20),
     module   |-> [m \in Modules |-> LevelAt(kv, m)],
     fileOn   |-> OutputOn(kv, "file"),
     file     |-> OutputLevel(kv, "file"),
     stdoutOn |-> OutputOn(kv, "stdout"),
     stdout   |-> OutputLevel(kv, "stdout"),
     only     |-> IsOn(kv, "stdout.only"),
     selected |-> StdoutModules(kv)]

\* The merge of reload_locked: a key of a later layer replaces an earlier one.
\* Mutant: the environment overrides the API.
MergedEnvLast(layers) == Atop(layers.env, Atop(layers.api, layers.file))
Merged(layers)        == Atop(layers.api, Atop(layers.env, layers.file))

\* Mutant: each layer is applied for itself, so that it reports what is overridden.
ReportedByLayer(layers) == UNION {Recorded(layers[n]) : n \in DOMAIN layers}
Reported(layers)        == Recorded(Merged(layers))

\* compute_module, from settings s.
Base(s, m)       == TheOne(s.module[m], s.global)
FileLevel(s, m)  == IF ~s.fileOn THEN Off
                    ELSE IF s.file = Inherit THEN Base(s, m) ELSE s.file
StdoutLevel(s, m) == IF ~s.stdoutOn \/ m \notin s.selected THEN Off
                     ELSE IF s.stdout = Inherit THEN Base(s, m) ELSE s.stdout

\* Mutant: the collect level forgets stdout.
CollectOfFile(file, stdout) == file
Collect(file, stdout)       == IF file > stdout THEN file ELSE stdout

Computed(s, m) ==
    [file |-> FileLevel(s, m), stdout |-> StdoutLevel(s, m), only |-> s.only,
     collect |-> Collect(FileLevel(s, m), StdoutLevel(s, m))]

\* A call passes a threshold, or stdout's under stdout.only.
Passes(l, stdout, only) == stdout # Off /\ IF only THEN l = stdout ELSE l <= stdout

\* The texts the setters of a level and configure() store.
LevelText(key, value) ==
    IF key \in OutputKeys /\ value = Inherit THEN <<Word("on")>> ELSE <<LevelName(value)>>
OutputText(key, on, value) == IF on THEN LevelText(key, value) ELSE <<Word("off")>>
SwitchText(b) == <<Word(IF b THEN "true" ELSE "false")>>

\* The keys that decide where a line goes; a module keeps its own key.
ConfigKv(c) ==
    [key \in {"disable", "verbosity", "file", "stdout", "stdout.only", "stdout.modules"}
             \cup DOMAIN c.module |->
       CASE key = "disable"        -> SwitchText(c.disabled)
         [] key = "verbosity"      -> <<LevelName(c.verbosity)>>
         [] key = "file"           -> OutputText("file", c.fileOn, c.file)
         [] key = "stdout"         -> OutputText("stdout", c.stdoutOn, c.stdout)
         [] key = "stdout.only"    -> SwitchText(c.only)
         [] key = "stdout.modules" -> c.selected
         [] OTHER                  -> <<LevelName(c.module[key])>>]

----------------------------------------------------------------------------
NoText == [opens |-> TRUE, lines |-> <<>>]
Cleared == [file |-> NoPairs, env |-> NoPairs, api |-> NoPairs]

\* The constructor: the file and the environment are read and applied.
Init ==
    /\ RegistryInit
    /\ source \in [file : Files, env : Envs]
    /\ layer = [Cleared EXCEPT !.file = ReadConfigFile(source.file), !.env = ReadEnv(source.env)]
    /\ settings = ApplyKv(Merged(layer))
    /\ entries = Len(registry)
    /\ was = settings
    /\ LET found == Reported(layer) IN
         sticky \in IF found # {} THEN found
                    ELSE ReadingErrors(source.file) \cup
                         IF ReadingErrors(source.file) = {} THEN {"ok"} ELSE {}
    /\ todo = {} /\ storing = NoStore
    /\ disabled = settings.disabled
    /\ known = {} /\ threshold = [m \in Modules |-> NoLevels]
    /\ call = [t \in Threads |-> Idle]
    /\ inForce = [t \in Threads |-> {}] /\ written = [t \in Threads |-> {}]
    /\ changes = 0 /\ calls = 0

\* mu_ is free: reload_locked and resolve_module run under it.
MutexFree == todo = {} /\ storing = NoStore

\* The caller of a setter has mu_, changes a layer and rebuilds the settings; what
\* the rebuild records comes after what the reading of a file recorded.
Change(layers, reading, error) ==
    /\ MutexFree
    /\ changes < MaxChanges
    /\ changes' = changes + 1
    /\ layer' = layers
    /\ settings' = ApplyKv(Merged(layers))
    /\ entries' = Len(registry)
    /\ was' = settings
    /\ LET found == Reported(layers) IN
         sticky' \in IF found # {} THEN found
                     ELSE IF reading # {} THEN reading ELSE {error}
    /\ disabled' = settings'.disabled
    /\ todo' = known
    /\ inForce' = [t \in Threads |-> IF call[t] = Idle THEN {}
                                     ELSE inForce[t] \cup {settings'}]
    /\ UNCHANGED <<registry, storing, moduleVars, call, written, calls>>

SetApi(key, text) ==
    /\ Change([layer EXCEPT !.api = Atop(Pair(key, text), @)], {}, sticky)
    /\ UNCHANGED source

SetLevel == \E c \in LevelCalls : SetApi(c[1], LevelText(c[1], c[2]))
SetText  == \E c \in TextCalls : SetApi(c[1], c[2])

Configure ==
    /\ \E c \in Configs : Change([layer EXCEPT !.api = Atop(ConfigKv(c), @)], {}, sticky)
    /\ UNCHANGED source

LoadFile ==
    \E f \in Files :
        /\ Change([layer EXCEPT !.file = ReadConfigFile(f)], ReadingErrors(f), sticky)
        /\ source' = [source EXCEPT !.file = f]

LoadEnv ==
    \E e \in Envs :
        /\ Change([layer EXCEPT !.env = ReadEnv(e)], {}, sticky)
        /\ source' = [source EXCEPT !.env = e]

\* reset_errors, then a rebuild from nothing.
Reset ==
    /\ Change(Cleared, {}, "ok")
    /\ source' = [file |-> NoText, env |-> NoPairs]

ClearError ==
    /\ sticky # "ok"
    /\ sticky' = "ok"
    /\ UNCHANGED <<registry, source, layer, settings, entries, was, changes, storeVars,
                   moduleVars, callVars>>

\* compute_module publishes a module with four stores; any order of the modules.
\* Mutant: a module is reset before its levels are stored.
PickedReset(m) == [threshold EXCEPT ![m] = [NoLevels EXCEPT !.collect = @]]
Picked(m)      == threshold

PickModule ==
    /\ storing = NoStore
    /\ \E m \in todo :
         /\ todo' = todo \ {m}
         /\ storing' = [module |-> m, store |-> "file"]
         /\ threshold' = Picked(m)
    /\ UNCHANGED <<registry, configVars, disabled, known, callVars>>

NextStore == [file |-> "stdout", stdout |-> "only", only |-> "collect"]

Store ==
    /\ storing # NoStore
    /\ LET m == storing.module
           f == storing.store
       IN /\ threshold' = [threshold EXCEPT ![m][f] = Computed(settings, m)[f]]
          /\ storing' = IF f = "collect" THEN NoStore
                        ELSE [storing EXCEPT !.store = NextStore[f]]
    /\ UNCHANGED <<registry, configVars, todo, disabled, known, callVars>>

\* add_level changes what texts mean, but rebuilds nothing.
NewLevel ==
    /\ \E name \in LevelNames, value \in LevelValues : AddLevel(name, value)
    /\ UNCHANGED <<configVars, storeVars, moduleVars, callVars>>

----------------------------------------------------------------------------
\* should_log and is_enabled: the global switch first.
BeginCall(t) ==
    /\ call[t] = Idle
    /\ calls < MaxCalls
    /\ calls' = calls + 1
    /\ \E m \in Modules, l \in CallLevels :
         call' = [call EXCEPT ![t] = [step |-> "disabled", module |-> m, level |-> l]]
    /\ inForce' = [inForce EXCEPT ![t] = {settings} \cup IF MutexFree THEN {} ELSE {was}]
    /\ UNCHANGED <<registry, configVars, storeVars, moduleVars, written>>

\* A step of a call that writes nothing.
Goto(t, from, to) ==
    /\ call[t].step = from
    /\ call' = [call EXCEPT ![t].step = to]
    /\ UNCHANGED <<registry, configVars, storeVars, inForce, calls>>

ReadDisabled(t) ==
    /\ Goto(t, "disabled", IF disabled THEN "done" ELSE "resolve")
    /\ UNCHANGED <<moduleVars, written>>

\* resolve_module, for the first call of a module: under mu_.
Resolve(t) ==
    /\ Goto(t, "resolve", "collect")
    /\ LET m == call[t].module
       IN \/ m \in known /\ UNCHANGED moduleVars
          \/ /\ m \notin known
             /\ MutexFree
             /\ known' = known \cup {m}
             /\ threshold' = [threshold EXCEPT ![m] = Computed(settings, m)]
    /\ UNCHANGED written

Reaches(t, field) == call[t].level <= threshold[call[t].module][field]

ReadCollect(t) ==
    /\ Goto(t, "collect", IF Reaches(t, "collect") THEN "file" ELSE "done")
    /\ UNCHANGED <<moduleVars, written>>

\* dispatch: the file part, then the two loads of the stdout part.
WriteFile(t) ==
    /\ Goto(t, "file", "stdout")
    /\ written' = IF Reaches(t, "file") THEN [written EXCEPT ![t] = @ \cup {"file"}]
                  ELSE written
    /\ UNCHANGED moduleVars

ReadStdoutLevel(t) ==
    /\ call[t].step = "stdout"
    /\ call' = [call EXCEPT ![t] = [step |-> "only", module |-> @.module, level |-> @.level,
                                    stdout |-> threshold[@.module].stdout]]
    /\ UNCHANGED <<registry, configVars, storeVars, moduleVars, inForce, written, calls>>

WriteStdout(t) ==
    /\ Goto(t, "only", "done")
    /\ written' = IF Passes(call[t].level, call[t].stdout, threshold[call[t].module].only)
                  THEN [written EXCEPT ![t] = @ \cup {"stdout"}] ELSE written
    /\ UNCHANGED moduleVars

EndCall(t) ==
    /\ call[t].step = "done"
    /\ call' = [call EXCEPT ![t] = Idle]
    /\ inForce' = [inForce EXCEPT ![t] = {}]
    /\ written' = [written EXCEPT ![t] = {}]
    /\ UNCHANGED <<registry, configVars, storeVars, moduleVars, calls>>

LogCall(t) ==
    \/ BeginCall(t) \/ ReadDisabled(t) \/ Resolve(t) \/ ReadCollect(t)
    \/ WriteFile(t) \/ ReadStdoutLevel(t) \/ WriteStdout(t) \/ EndCall(t)

Next ==
    \/ SetLevel \/ SetText \/ Configure \/ LoadFile \/ LoadEnv \/ Reset \/ ClearError
    \/ PickModule \/ Store \/ NewLevel
    \/ \E t \in Threads : LogCall(t)

Spec == Init /\ [][Next]_vars

----------------------------------------------------------------------------
(* Properties.                                                             *)

\* What the sources give a key by the rules of the documents, as a set of texts.
Symbols   == UNION {ToSet(line) : line \in UNION {ToSet(f.lines) : f \in Files}}
Mentioned == (Keys \cup {Several} \cup {s[1] : s \in Symbols}) \ {Nameless}

FileText(f, key) ==
    IF f.opens THEN LastOf([i \in DOMAIN f.lines |-> AssignedBy(f.lines[i], key)]) ELSE {}

Verbosity(e) == IF "SLOG_VERBOSITY" \in DOMAIN e THEN e["SLOG_VERBOSITY"] ELSE <<>>
Bare(text)   ==
    {i \in Ends(text) : PartAt(text, i) # <<>> /\ EqualsIn(PartAt(text, i)) = {}}
EnvText(e, key) ==
    LET text == Verbosity(e)
    IN {e[v] : v \in {w \in DOMAIN e \cap DOMAIN KeyOfVariable : KeyOfVariable[w] = key}}
       \cup IF key = "verbosity" THEN {PartAt(text, i) : i \in {j \in Bare(text) :
                                                               \A k \in Bare(text) : j <= k}}
            ELSE IF key \in Modules
            THEN LastOf([i \in Ends(text) |-> AssignedIn(PartAt(text, i), key)])
            ELSE {}

\* Each text with the source that gives it and the key it is given to.
Texts(s, key, texts) == {<<s, key, text>> : text \in texts}
FileGives == UNION {Texts(f, key, FileText(f, key)) : f \in Files, key \in Mentioned}
EnvGives  == UNION {Texts(e, key, EnvText(e, key)) : e \in Envs, key \in Mentioned}

Given(gives, s, key) == {g[3] : g \in {h \in gives : h[1] = s /\ h[2] = key}}

\* The last layer that has a key decides.
TextOf(key) ==
    LET env == Given(EnvGives, source.env, key)
    IN IF key \in DOMAIN layer.api THEN {layer.api[key]}
       ELSE IF env # {} THEN env ELSE Given(FileGives, source.file, key)

AssignedKeys == {g[2] : g \in FileGives \cup EnvGives}
Skipped == {key \in AssignedKeys \cup DOMAIN layer.api : \E text \in TextOf(key) : Skips(key, text)}

\* A level means what it meant when the settings were made.
Meant(key)    == UNION {LevelAmong(entries, text) : text \in TextOf(key)}
OwnLevel(key) == Meant(key) \ {Inherit}

\* An output that is on or off by name has no level of its own.
OwnOutput(output) ==
    IF \E text \in TextOf(output) : Trim(text) \in OutputTexts THEN {} ELSE OwnLevel(output)

MostSpecific(output, m) ==
    TheOne(OwnOutput(output), TheOne(OwnLevel(m), TheOne(OwnLevel("verbosity"), 20)))

IsOff(key) == \E text \in TextOf(key) : Trim(text) = <<Word("off")>>

\* "most specific wins": whenever no rebuild is under way every module that has a
\* state, also one made by a log call between two changes, has the thresholds that
\* the file, the environment and the calls of the program give it, from their texts.
ThresholdsFollowLayers ==
    MutexFree => \A m \in known :
        /\ threshold[m].file = IF IsOff("file") THEN Off ELSE MostSpecific("file", m)
        /\ threshold[m].stdout =
             IF IsOff("stdout") \/ \E text \in TextOf("stdout.modules") : ~Listed(text, m)
             THEN Off ELSE MostSpecific("stdout", m)
        /\ threshold[m].only <=> \E text \in TextOf("stdout.only") : Trim(text) \in TrueTexts

\* What settings s ask of a line.
FileTakes(s, c)   == c.level <= FileLevel(s, c.module)
StdoutTakes(s, c) == Passes(c.level, StdoutLevel(s, c.module), s.only)

\* A line is in the file only if, of the settings in force at some moment of its
\* call, some were enabled and some take it; it is missing only if some do not.
FileLineJustified ==
    \A t \in Threads : call[t].step = "done" =>
        IF "file" \in written[t]
        THEN /\ \E s \in inForce[t] : ~s.disabled
             /\ \E s \in inForce[t] : FileTakes(s, call[t])
        ELSE \E s \in inForce[t] : s.disabled \/ ~FileTakes(s, call[t])

\* A call that no change overlaps writes to each output what the settings ask, also
\* when an earlier call or change made the thresholds it reads.
QuietCallsFollowSettings ==
    \A t \in Threads : call[t].step = "done" /\ inForce[t] = {settings} =>
        /\ "file" \in written[t] <=> ~settings.disabled /\ FileTakes(settings, call[t])
        /\ "stdout" \in written[t] <=> ~settings.disabled /\ StdoutTakes(settings, call[t])

\* "unknown config key, skipped it", "did not parse, kept the default": every rebuild
\* reports a text in force that it skips, whoever gave it; a setter that leaves no such
\* text in force reports nothing and keeps the last error, also when it overrides one.
ReloadReportsWhatItSkips ==
    [][changes' # changes =>
         LET skipped == Skipped'
         IN /\ skipped # {} => sticky' \in {CodeFor(key) : key \in skipped}
            /\ skipped = {} /\ layer'.api \notin {layer.api, NoPairs} => sticky' = sticky
            /\ source'.file # source.file /\ ~source'.file.opens => sticky' # "ok"]_vars

=============================================================================
