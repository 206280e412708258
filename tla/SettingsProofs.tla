---------------------------- MODULE SettingsProofs ----------------------------
(***************************************************************************)
(* Theorems about the levels, the thresholds and the log calls of          *)
(* Settings, for any files, environments, setter calls, modules, levels    *)
(* and number of threads, and lemmas about the readers of ConfigText: what *)
(* a scan of a text finds is what the rules say of it.                     *)
(***************************************************************************)
EXTENDS Settings, WellFoundedInduction, TLAPS

----------------------------------------------------------------------------
(* The round trip of a level through its text.                             *)

\* The registry by itself: it starts with the built-in levels, and add_level appends.
RegistrySpec ==
    /\ RegistryInit
    /\ [][\E name \in LevelNames, value \in LevelValues : AddLevel(name, value)]_registry

\* Every value is one a threshold may have, and none is a word of level_name's own.
Values == {v \in Ints : v > Inherit}
RegistryInv ==
    /\ DOMAIN registry = 1 .. Len(registry) /\ Len(registry) \in Nat
    /\ \A i \in 1 .. Len(registry) : registry[i][2] \in Values

LEMMA RegistryStarts == RegistryInit => RegistryInv
<1> SUFFICES ASSUME RegistryInit PROVE RegistryInv
  OBVIOUS
<1>1. registry = Builtin
  BY DEF RegistryInit
<1>2. DOMAIN Builtin = 1 .. 4 /\ Len(Builtin) = 4
  BY DEF Builtin
<1>3. ASSUME NEW i \in 1 .. 4 PROVE Builtin[i][2] \in {10, 20, 30, 40}
  BY DEF Builtin
<1>4. {10, 20, 30, 40} \subseteq Values
  BY LevelsAssumption DEF Values
<1> QED
  BY <1>1, <1>2, <1>3, <1>4 DEF RegistryInv

LEMMA RegistryGrows ==
    /\ RegistryInv
    /\ [\E name \in LevelNames, value \in LevelValues : AddLevel(name, value)]_registry
    => RegistryInv'
<1> USE DEF RegistryInv
<1>1. ASSUME RegistryInv, NEW name \in LevelNames, NEW value \in LevelValues,
             AddLevel(name, value)
      PROVE  RegistryInv'
  <2> DEFINE n == Len(registry)
  <2>1. registry' = Append(registry, <<name, value>>)
    BY <1>1 DEF AddLevel
  <2>2. value \in Values
    BY LevelsAssumption DEF Values
  <2> QED
    BY <1>1, <2>1, <2>2
<1> QED
  BY <1>1

LEMMA RegistryHolds == RegistrySpec => []RegistryInv
  BY RegistryStarts, RegistryGrows, PTL DEF RegistrySpec

LEMMA LeastIs ==
    ASSUME NEW s \in SUBSET Nat, s # {}
    PROVE  Least(s) \in s /\ \A j \in s : Least(s) <= j
<1>1. \E i \in s : \A j \in s : ~(j < i)
  <2> DEFINE less == {p \in Nat \X Nat : p[1] < p[2]}
  <2>1. IsWellFoundedOn(less, Nat)
    BY NatLessThanWellFounded DEF OpToRel
  <2>2. \A i, j \in Nat : <<j, i>> \in less <=> j < i
    OBVIOUS
  <2> HIDE DEF less
  <2>3. \E i \in s : \A j \in s : <<j, i>> \notin less
    BY <2>1, WFMin
  <2> QED
    BY <2>2, <2>3
<1>2. \E i \in s : \A j \in s : i <= j
  BY <1>1
<1> QED
  BY <1>2 DEF Least

\* The first entry of a nonempty set is one of it.
LEMMA FirstIsOfIt ==
    ASSUME NEW s \in SUBSET Nat, s # {}
    PROVE  \E i \in s : FirstOf(s) = registry[i]
BY LeastIs DEF FirstOf, Least

\* The level a value was made for is the level the settings see after the value was
\* stored as a text, whatever levels were added, as long as names are distinct:
\* level_name and parse_level are inverse through the first entry with that value.
THEOREM RoundTripCorrect == RegistrySpec => []DistinctNamesRoundTrip
<1>1. RegistryInv => DistinctNamesRoundTrip
  <2> SUFFICES ASSUME RegistryInv, NamesAreDistinct, NEW k \in DOMAIN registry
               PROVE  ParseLevel(LevelName(registry[k][2])) = {registry[k][2]}
    BY DEF DistinctNamesRoundTrip, RoundTrips
  <2> DEFINE value  == registry[k][2]
             valued == {i \in DOMAIN registry : registry[i][2] = value}
  <2>1. value # Inherit /\ value # Off
    BY LevelsAssumption DEF RegistryInv, Values, Ints
  <2>2. valued \in SUBSET Nat /\ valued # {}
    BY DEF RegistryInv
  <2>3. PICK i \in valued : FirstOf(valued) = registry[i]
    BY <2>2, FirstIsOfIt
  <2>4. LevelName(value) = registry[i][1]
    BY <2>1, <2>2, <2>3 DEF LevelName
  <2> DEFINE text  == registry[i][1]
             named == {j \in 1 .. Len(registry) : registry[j][1] = text}
  <2>5. i \in DOMAIN registry /\ registry[i][2] = value
    BY <2>3
  <2>6. named = {i} /\ text \notin Reserved
    BY <2>5 DEF NamesAreDistinct, RegistryInv
  <2>7. FirstOf(named) = registry[i]
    <3> HIDE DEF named
    <3>1. named \in SUBSET Nat /\ named # {}
      BY <2>2, <2>6
    <3>2. \E j \in named : FirstOf(named) = registry[j]
      BY <3>1, FirstIsOfIt
    <3> QED
      BY <2>6, <3>2
  <2>8. ParseLevel(text) = {FirstOf(named)[2]}
    BY <2>6 DEF ParseLevel, ParseAmong
  <2> QED
    BY <2>4, <2>5, <2>7, <2>8
<1> QED
  BY <1>1, RegistryHolds, PTL

\* The steps of Settings leave the registry alone or add a level.
LEMMA StepsOfRegistry ==
    [Next]_vars => [\E name \in LevelNames, value \in LevelValues : AddLevel(name, value)]_registry
<1> SUFFICES ASSUME [Next]_vars
             PROVE  \/ \E name \in LevelNames, value \in LevelValues : AddLevel(name, value)
                    \/ UNCHANGED registry
  OBVIOUS
<1>1. CASE NewLevel
  BY <1>1 DEF NewLevel
<1>2. CASE SetLevel \/ SetText \/ Configure \/ LoadFile \/ LoadEnv \/ Reset
  BY <1>2 DEF SetLevel, SetText, SetApi, Configure, LoadFile, LoadEnv, Reset, Change
<1>3. CASE ClearError \/ PickModule \/ Store
  BY <1>3 DEF ClearError, PickModule, Store
<1>4. ASSUME NEW t \in Threads, LogCall(t) PROVE UNCHANGED registry
  BY <1>4 DEF LogCall, BeginCall, ReadDisabled, Resolve, ReadCollect, WriteFile,
              ReadStdoutLevel, WriteStdout, EndCall, Goto
<1>5. CASE UNCHANGED vars
  BY <1>5 DEF vars
<1> QED
  BY <1>1, <1>2, <1>3, <1>4, <1>5 DEF Next

LEMMA RegistryOfSettings == Spec => RegistrySpec
<1>1. Init => RegistryInit
  BY DEF Init
<1> QED
  BY <1>1, StepsOfRegistry, PTL DEF Spec, RegistrySpec

\* A threshold that a setter stores as a text is the threshold the next rebuild reads
\* from it, whatever levels the program added in between, as long as their names are
\* distinct.
THEOREM StoredLevelsCorrect == Spec => []DistinctNamesRoundTrip
  BY RegistryOfSettings, RoundTripCorrect, PTL

----------------------------------------------------------------------------
(* What the settings and the thresholds consist of.                        *)

Fields    == {"file", "stdout", "only", "collect"}
AllSettings == [disabled : BOOLEAN, global : Int, module : [Modules -> SUBSET Int],
              fileOn : BOOLEAN, file : Int, stdoutOn : BOOLEAN, stdout : Int,
              only : BOOLEAN, selected : SUBSET Modules]
Published == [file : Int, stdout : Int, only : BOOLEAN, collect : Int]
Begun     == [step : {"disabled", "resolve", "collect", "file", "stdout", "done"},
              module : Modules, level : Int]
Halfway   == [step : {"only", "done"}, module : Modules, level : Int, stdout : Int]

Types ==
    /\ settings \in AllSettings /\ was \in AllSettings
    /\ disabled = settings.disabled
    /\ known \subseteq Modules /\ todo \subseteq known
    /\ storing \in {NoStore} \cup [module : known \ todo, store : Fields]
    /\ threshold \in [Modules -> Published]
    /\ call \in [Threads -> {Idle} \cup Begun \cup Halfway]
    /\ inForce \in [Threads -> SUBSET AllSettings]
    /\ written \in [Threads -> SUBSET {"file", "stdout"}]

LEMMA LevelsAreInts ==
    ASSUME RegistryInv, NEW text
    PROVE  LevelOf(text) \subseteq Int
<1> DEFINE n == Len(registry)
<1>1. n \in Nat /\ DOMAIN registry = 1 .. n
  BY DEF RegistryInv
<1>2. ASSUME NEW word PROVE ParseAmong(n, word) \subseteq Int
  <2> DEFINE named == {i \in 1 .. n : registry[i][1] = word}
  <2>1. CASE word \in Reserved
    BY <2>1, LevelsAssumption DEF ParseAmong, Ints
  <2>2. CASE word \notin Reserved /\ named # {}
    <3>1. ParseAmong(n, word) = {FirstOf(named)[2]}
      BY <2>2 DEF ParseAmong
    <3>2. named \in SUBSET Nat
      BY <1>1
    <3>3. PICK i \in named : FirstOf(named) = registry[i]
      <4> HIDE DEF named
      <4> QED
        BY <2>2, <3>2, FirstIsOfIt
    <3>4. registry[i][2] \in Int
      BY <3>3 DEF RegistryInv, Values, Ints
    <3> QED
      BY <3>1, <3>3, <3>4
  <2>3. CASE word \notin Reserved /\ named = {}
    <3>1. ASSUME NEW k \in Int PROVE ToInt(k) \in Int
      <4>1. 2 * IntHalf \in Nat \ {0} /\ IntHalf \in Int /\ k + IntHalf \in Int
        BY LevelsAssumption
      <4>2. (k + IntHalf) % (2 * IntHalf) \in Int
        BY <4>1
      <4> QED
        BY <4>1, <4>2 DEF ToInt
    <3>2. ParseAmong(n, word) = IF word[1] = "0" /\ word[2] \in Int THEN {ToInt(word[2])} ELSE {}
      BY <2>3 DEF ParseAmong
    <3> QED
      BY <3>1, <3>2
  <2> QED
    BY <2>1, <2>2, <2>3
<1> QED
  BY <1>2 DEF LevelOf, LevelAmong

LEMMA OneOf ==
    ASSUME NEW s \in SUBSET Int, NEW d \in Int
    PROVE  TheOne(s, d) \in Int
BY DEF TheOne

\* The settings are well formed whatever the layers say.
LEMMA SettingsAreFormed ==
    ASSUME RegistryInv, NEW kv
    PROVE  ApplyKv(kv) \in AllSettings
<1>1. ASSUME NEW key PROVE LevelAt(kv, key) \in SUBSET Int
  BY LevelsAreInts DEF LevelAt
<1>2. Inherit \in Int
  BY LevelsAssumption DEF Ints
<1>3. ASSUME NEW key PROVE OutputLevel(kv, key) \in Int
  BY <1>1, <1>2, OneOf DEF OutputLevel
<1>4. TheOne(LevelAt(kv, "verbosity"), 20) \in Int
  BY <1>1, OneOf
<1>5. [m \in Modules |-> LevelAt(kv, m)] \in [Modules -> SUBSET Int]
  BY <1>1
<1>6. \A key : IsOn(kv, key) \in BOOLEAN /\ OutputOn(kv, key) \in BOOLEAN
  BY DEF IsOn, OutputOn
<1>7. StdoutModules(kv) \in SUBSET Modules
  BY DEF StdoutModules
<1> QED
  BY <1>3, <1>4, <1>5, <1>6, <1>7 DEF ApplyKv, AllSettings

LEMMA ComputedIsFormed ==
    ASSUME NEW s \in AllSettings, NEW m \in Modules
    PROVE  /\ FileLevel(s, m) \in Int /\ StdoutLevel(s, m) \in Int
           /\ Computed(s, m) \in Published
           /\ Computed(s, m).file = FileLevel(s, m)
           /\ Computed(s, m).stdout = StdoutLevel(s, m)
           /\ Computed(s, m).only = s.only
           /\ FileLevel(s, m) <= Computed(s, m).collect
           /\ StdoutLevel(s, m) <= Computed(s, m).collect
<1>1. Off \in Int
  BY LevelsAssumption DEF Ints
<1>2. Base(s, m) \in Int
  BY OneOf DEF Base, AllSettings
<1>3. FileLevel(s, m) \in Int /\ StdoutLevel(s, m) \in Int
  BY <1>1, <1>2 DEF FileLevel, StdoutLevel, AllSettings
<1>4. s.only \in BOOLEAN
  BY DEF AllSettings
<1>5. /\ Collect(FileLevel(s, m), StdoutLevel(s, m)) \in Int
      /\ FileLevel(s, m) <= Collect(FileLevel(s, m), StdoutLevel(s, m))
      /\ StdoutLevel(s, m) <= Collect(FileLevel(s, m), StdoutLevel(s, m))
  BY <1>3 DEF Collect
<1> QED
  BY <1>3, <1>4, <1>5 DEF Computed, Published

----------------------------------------------------------------------------
(* What is published while a rebuild is under way.                         *)

\* The stores of a module that a rebuild has still to make.
Ahead == [file |-> Fields, stdout |-> {"stdout", "only", "collect"},
          only |-> {"only", "collect"}, collect |-> {"collect"}]
Waiting(m, f) ==
    \/ m \in todo
    \/ storing # NoStore /\ storing.module = m /\ f \in Ahead[storing.store]

\* What a thread reads is what the settings ask, or those before the rebuild.
Current ==
    \A m \in known : \A f \in Fields :
        threshold[m][f] = Computed(IF Waiting(m, f) THEN was ELSE settings, m)[f]

\* A call under way has seen the settings and, during a rebuild, those before it.
Seen ==
    \A t \in Threads : call[t] # Idle =>
        /\ settings \in inForce[t]
        /\ ~MutexFree => was \in inForce[t]

\* The steps of a call that has passed the global switch.
Past == {"resolve", "collect", "file", "stdout", "only"}

\* What call c has written is justified by some of the settings it has seen.
Justified(c, w, seen, ready) ==
    /\ c.step \in Past => \E s \in seen : ~s.disabled
    /\ c.step \in Past \ {"resolve"} => c.module \in ready
    /\ c.step \in {"idle", "disabled", "resolve", "collect", "file"} => w = {}
    /\ c.step \in {"stdout", "only"} =>
          IF "file" \in w THEN \E s \in seen : FileTakes(s, c)
          ELSE \E s \in seen : ~FileTakes(s, c)
    /\ c.step = "done" =>
          IF "file" \in w
          THEN (\E s \in seen : ~s.disabled) /\ (\E s \in seen : FileTakes(s, c))
          ELSE \E s \in seen : s.disabled \/ ~FileTakes(s, c)

\* Call c, which saw settings s only, does what they ask.
Followed(c, w, s) ==
    /\ c.step \in Past => ~s.disabled
    /\ c.step \in {"stdout", "only"} =>
          /\ "file" \in w <=> FileTakes(s, c)
          /\ "stdout" \notin w
    /\ c.step = "only" => c.stdout = StdoutLevel(s, c.module)
    /\ c.step = "done" =>
          /\ "file" \in w <=> ~s.disabled /\ FileTakes(s, c)
          /\ "stdout" \in w <=> ~s.disabled /\ StdoutTakes(s, c)

Quiet(t) == call[t] # Idle /\ inForce[t] = {settings}

Calls ==
    \A t \in Threads :
        /\ Justified(call[t], written[t], inForce[t], known)
        /\ Quiet(t) => Followed(call[t], written[t], settings)

IInv == RegistryInv /\ Types /\ Current /\ Seen /\ Calls

\* A module that is not being rebuilt has the thresholds of the settings.
LEMMA SettledIsCurrent ==
    ASSUME Current, MutexFree, NEW m \in known, NEW f \in Fields
    PROVE  threshold[m][f] = Computed(settings, m)[f]
BY DEF Current, MutexFree, Waiting

\* What a call reads comes from settings it has seen, all of it from the same when it
\* has seen no others.
LEMMA ReadIsSeen ==
    ASSUME IInv, NEW t \in Threads, call[t] # Idle, NEW m \in known, NEW f \in Fields
    PROVE  /\ \E s \in inForce[t] : s \in AllSettings /\ threshold[m][f] = Computed(s, m)[f]
           /\ Quiet(t) => threshold[m][f] = Computed(settings, m)[f]
<1>1. inForce[t] \subseteq AllSettings
  BY DEF IInv, Types
<1>2. threshold[m][f] = Computed(IF Waiting(m, f) THEN was ELSE settings, m)[f]
  BY DEF IInv, Current
<1>3. settings \in inForce[t] /\ (~MutexFree => was \in inForce[t])
  BY DEF IInv, Seen
<1>4. CASE Waiting(m, f)
  <2>1. ~MutexFree
    BY <1>4 DEF MutexFree, Waiting
  <2>2. was \in inForce[t]
    BY <1>3, <2>1
  <2>3. Quiet(t) => was = settings
    BY <2>2 DEF Quiet
  <2>4. threshold[m][f] = Computed(was, m)[f]
    BY <1>2, <1>4
  <2> QED
    BY <1>1, <2>2, <2>3, <2>4
<1>5. CASE ~Waiting(m, f)
  BY <1>1, <1>2, <1>3, <1>5
<1> QED
  BY <1>4, <1>5

----------------------------------------------------------------------------
(* The invariant.                                                          *)

LEMMA InitInv == Init => IInv
<1> SUFFICES ASSUME Init PROVE IInv
  OBVIOUS
<1>1. RegistryInv
  BY RegistryStarts DEF Init
<1>2. settings \in AllSettings
  BY <1>1, SettingsAreFormed DEF Init
<1>3. \A m \in Modules : NoLevels \in Published
  BY LevelsAssumption DEF NoLevels, Published, Ints
<1>4. Types
  BY <1>2, <1>3 DEF Init, Types
<1>5. \A t \in Threads : call[t] = Idle /\ written[t] = {}
  BY DEF Init
<1>6. Calls
  BY <1>5 DEF Calls, Justified, Idle, Quiet, Past
<1>7. Current /\ Seen
  BY <1>5 DEF Init, Current, Seen
<1> QED
  BY <1>1, <1>4, <1>6, <1>7 DEF IInv

\* Settings that come into force: the thresholds are now those from before them.
LEMMA ChangeKeeps ==
    ASSUME IInv, NEW layers, NEW reading, NEW error, Change(layers, reading, error)
    PROVE  (Types /\ Current /\ Seen /\ Calls)'
<1>1. /\ todo = {} /\ storing = NoStore /\ storing' = NoStore
      /\ settings' \in AllSettings /\ was' = settings /\ disabled' = settings'.disabled
      /\ todo' = known /\ known' = known /\ threshold' = threshold
      /\ call' = call /\ written' = written
  BY SettingsAreFormed DEF Change, MutexFree, moduleVars, IInv
<1>2. inForce' = [t \in Threads |-> IF call[t] = Idle THEN {} ELSE inForce[t] \cup {settings'}]
  BY DEF Change
<1>3. Types'
  <2>1. inForce' \in [Threads -> SUBSET AllSettings]
    BY <1>1, <1>2 DEF IInv, Types
  <2> QED
    BY <1>1, <2>1 DEF IInv, Types
<1>4. Current'
  <2> SUFFICES ASSUME NEW m \in known, NEW f \in Fields
               PROVE  threshold[m][f]
                      = Computed(IF Waiting(m, f)' THEN was' ELSE settings', m)[f]
    BY <1>1 DEF Current
  <2>1. Waiting(m, f)'
    BY <1>1 DEF Waiting
  <2>2. threshold[m][f] = Computed(settings, m)[f]
    BY SettledIsCurrent DEF MutexFree, IInv, Change
  <2> QED
    BY <1>1, <2>1, <2>2
<1>5. Seen'
  BY <1>1, <1>2 DEF Seen, IInv
<1>6. Calls'
  <2> SUFFICES ASSUME NEW t \in Threads
               PROVE  /\ Justified(call[t], written[t], inForce'[t], known)
                      /\ Quiet(t)' => Followed(call[t], written[t], settings')
    BY <1>1 DEF Calls
  <2>1. /\ Justified(call[t], written[t], inForce[t], known)
        /\ Quiet(t) => Followed(call[t], written[t], settings)
    BY DEF Calls, IInv
  <2>2. CASE call[t] = Idle
    BY <1>1, <2>1, <2>2 DEF Justified, Idle, Quiet, Past
  <2>3. CASE call[t] # Idle
    <3>1. inForce'[t] = inForce[t] \cup {settings'} /\ settings \in inForce[t]
      BY <1>2, <2>3 DEF Seen, IInv
    <3>2. Quiet(t)' => Quiet(t) /\ settings' = settings
      BY <2>3, <3>1 DEF Quiet
    <3> QED
      BY <2>1, <3>1, <3>2 DEF Justified
  <2> QED
    BY <2>2, <2>3
<1> QED
  BY <1>3, <1>4, <1>5, <1>6

\* The steps of a rebuild, one store at a time.
LEMMA RebuildKeeps ==
    ASSUME IInv, PickModule \/ Store
    PROVE  (Types /\ Current /\ Seen /\ Calls)'
<1>1. UNCHANGED <<settings, was, disabled, known, call, inForce, written>>
  BY DEF PickModule, Store, configVars, callVars
<1>2. ~MutexFree
  BY DEF PickModule, Store, MutexFree
<1>3. Seen'
  BY <1>1, <1>2 DEF Seen, IInv
<1>4. Calls'
  BY <1>1 DEF Calls, IInv, Quiet
<1>5. CASE PickModule
  <2>1. PICK m \in todo : /\ todo' = todo \ {m}
                          /\ storing' = [module |-> m, store |-> "file"]
                          /\ storing = NoStore /\ threshold' = threshold
    BY <1>5 DEF PickModule, Picked
  <2>2. storing' # NoStore /\ storing'.module = m /\ storing'.store = "file"
    BY <2>1 DEF NoStore
  <2>3. Types'
    BY <1>1, <2>1 DEF IInv, Types, Fields
  <2>4. \A x \in known : \A f \in Fields : Waiting(x, f)' <=> Waiting(x, f)
    BY <2>1, <2>2 DEF Waiting, Ahead
  <2>5. Current'
    BY <1>1, <2>1, <2>4 DEF IInv, Current
  <2> QED
    BY <1>3, <1>4, <2>3, <2>5
<1>6. CASE Store
  <2>1. PICK m, f :
           /\ storing.module = m /\ storing.store = f /\ storing # NoStore /\ todo' = todo
           /\ threshold' = [threshold EXCEPT ![m][f] = Computed(settings, m)[f]]
           /\ storing' = IF f = "collect" THEN NoStore ELSE [storing EXCEPT !.store = NextStore[f]]
    BY <1>6 DEF Store
  <2>2. m \in known \ todo /\ f \in Fields /\ storing \in [module : known \ todo, store : Fields]
    BY <2>1 DEF IInv, Types
  <2>3. m \in Modules /\ threshold[m] \in Published /\ threshold \in [Modules -> Published]
    BY <2>2 DEF IInv, Types
  <2>4. Computed(settings, m) \in Published
    BY <2>3, ComputedIsFormed DEF IInv, Types
  <2>5. /\ threshold' \in [Modules -> Published]
        /\ threshold'[m][f] = Computed(settings, m)[f]
        /\ \A g \in Fields : g # f => threshold'[m][g] = threshold[m][g]
        /\ \A x \in Modules : x # m => threshold'[x] = threshold[x]
    BY <2>1, <2>2, <2>3, <2>4 DEF Published, Fields
  <2>6. \/ f = "collect" /\ storing' = NoStore
        \/ /\ f # "collect"
           /\ storing' \in [module : known \ todo, store : Fields]
           /\ storing' # NoStore /\ storing'.module = m /\ storing'.store = NextStore[f]
    BY <2>1, <2>2 DEF NextStore, Fields, NoStore
  <2>7. Types'
    BY <1>1, <2>1, <2>5, <2>6 DEF IInv, Types
  <2>8. \A g \in Fields : Waiting(m, g)' <=> Waiting(m, g) /\ g # f
    <3>1. CASE f = "collect"
      BY <2>1, <2>2, <2>6, <3>1 DEF Waiting, Ahead, Fields
    <3>2. CASE f # "collect"
      <4>1. f \in {"file", "stdout", "only"}
        BY <2>2, <3>2 DEF Fields
      <4>2. Ahead[NextStore[f]] = Ahead[f] \ {f}
        BY <4>1 DEF Ahead, NextStore, Fields
      <4>3. f \in Ahead[f]
        BY <4>1 DEF Ahead, Fields
      <4> QED
        BY <2>1, <2>2, <2>6, <3>2, <4>2, <4>3 DEF Waiting
    <3> QED
      BY <3>1, <3>2
  <2>9. \A x \in known : x # m => \A g \in Fields : Waiting(x, g)' <=> Waiting(x, g)
    BY <2>1, <2>6 DEF Waiting
  <2>10. Current'
    <3> SUFFICES ASSUME NEW x \in known, NEW g \in Fields
                 PROVE  threshold'[x][g]
                        = Computed(IF Waiting(x, g)' THEN was ELSE settings, x)[g]
      BY <1>1 DEF Current
    <3>1. threshold[x][g] = Computed(IF Waiting(x, g) THEN was ELSE settings, x)[g]
      BY DEF IInv, Current
    <3>2. x \in Modules
      BY DEF IInv, Types
    <3>3. CASE x = m /\ g = f
      <4>1. ~Waiting(x, g)'
        BY <2>8, <3>3
      <4> QED
        BY <2>5, <3>3, <4>1
    <3>4. CASE x = m /\ g # f
      <4>1. Waiting(x, g)' <=> Waiting(x, g)
        BY <2>8, <3>4
      <4> QED
        BY <2>5, <3>1, <3>4, <4>1
    <3>5. CASE x # m
      <4>1. Waiting(x, g)' <=> Waiting(x, g)
        BY <2>9, <3>5
      <4> QED
        BY <2>5, <3>1, <3>2, <3>5, <4>1
    <3> QED
      BY <3>3, <3>4, <3>5
  <2> QED
    BY <1>3, <1>4, <2>7, <2>10
<1> QED
  BY <1>5, <1>6

\* A step of one call leaves the others as they are.
LEMMA OthersKeep ==
    ASSUME IInv, NEW t \in Threads,
           UNCHANGED settings, known \subseteq known',
           \A u \in Threads : u # t => /\ call'[u] = call[u] /\ written'[u] = written[u]
                                       /\ inForce'[u] = inForce[u],
           Justified(call'[t], written'[t], inForce'[t], known'),
           Quiet(t)' => Followed(call'[t], written'[t], settings)
    PROVE  Calls'
<1> SUFFICES ASSUME NEW u \in Threads, u # t
             PROVE  /\ Justified(call[u], written[u], inForce[u], known')
                    /\ Quiet(u) => Followed(call[u], written[u], settings)
  BY DEF Calls, Quiet
<1>1. /\ Justified(call[u], written[u], inForce[u], known)
      /\ Quiet(u) => Followed(call[u], written[u], settings)
  BY DEF IInv, Calls
<1> QED
  BY <1>1 DEF Justified

\* What a step of a call leaves alone.
LEMMA CallFrame ==
    ASSUME NEW t \in Threads, LogCall(t)
    PROVE  UNCHANGED <<settings, was, disabled, todo, storing>>
BY DEF LogCall, BeginCall, ReadDisabled, Resolve, ReadCollect, WriteFile, ReadStdoutLevel,
       WriteStdout, EndCall, Goto, configVars, storeVars

\* The steps that start and end a call.
LEMMA BeginKeeps ==
    ASSUME IInv, NEW t \in Threads, BeginCall(t) \/ EndCall(t)
    PROVE  (Types /\ Current /\ Seen /\ Calls)'
<1>1. UNCHANGED <<settings, was, disabled, todo, storing, known, threshold>>
  BY CallFrame DEF LogCall, BeginCall, EndCall, moduleVars
<1>2. Current'
  BY <1>1 DEF IInv, Current, Waiting
<1>3. /\ call \in [Threads -> {Idle} \cup Begun \cup Halfway]
      /\ inForce \in [Threads -> SUBSET AllSettings]
      /\ settings \in AllSettings /\ was \in AllSettings
      /\ written \in [Threads -> SUBSET {"file", "stdout"}]
  BY DEF IInv, Types
<1>4. Justified(call[t], written[t], inForce[t], known)
  BY DEF IInv, Calls
<1>5. CASE BeginCall(t)
  <2>1. PICK m \in Modules, l \in CallLevels :
           call' = [call EXCEPT ![t] = [step |-> "disabled", module |-> m, level |-> l]]
    BY <1>5 DEF BeginCall
  <2> DEFINE c == [step |-> "disabled", module |-> m, level |-> l]
  <2>2. l \in Int
    BY CallsAssumption DEF Ints
  <2>3. c \in Begun /\ c.step = "disabled" /\ c # Idle
    BY <2>2 DEF Begun, Idle
  <2>4. inForce' = [inForce EXCEPT ![t] = {settings} \cup IF MutexFree THEN {} ELSE {was}]
        /\ written' = written
    BY <1>5 DEF BeginCall
  <2> HIDE DEF c
  <2>5. call' = [call EXCEPT ![t] = c]
    BY <2>1 DEF c
  <2>6. written[t] = {}
    BY <1>4, <1>5 DEF BeginCall, Justified, Idle
  <2>7. Types'
    BY <1>1, <1>3, <2>3, <2>4, <2>5 DEF IInv, Types
  <2>8. MutexFree' <=> MutexFree
    BY <1>1 DEF MutexFree
  <2>9. Seen'
    BY <1>1, <1>3, <2>4, <2>5, <2>8 DEF IInv, Seen
  <2>10. /\ Justified(call'[t], written'[t], inForce'[t], known')
         /\ Followed(call'[t], written'[t], settings)
    BY <1>3, <2>3, <2>4, <2>5, <2>6 DEF Justified, Followed, Past
  <2>11. Calls'
    BY <1>1, <1>3, <2>4, <2>5, <2>10, OthersKeep
  <2> QED
    BY <1>2, <2>7, <2>9, <2>11
<1>6. CASE EndCall(t)
  <2>1. /\ call' = [call EXCEPT ![t] = Idle]
        /\ inForce' = [inForce EXCEPT ![t] = {}] /\ written' = [written EXCEPT ![t] = {}]
    BY <1>6 DEF EndCall
  <2>2. Types'
    BY <1>1, <1>3, <2>1 DEF IInv, Types
  <2>3. Seen'
    BY <1>1, <1>3, <2>1 DEF IInv, Seen, MutexFree
  <2>4. call'[t] = Idle /\ written'[t] = {}
    BY <1>3, <2>1
  <2>5. Justified(call'[t], written'[t], inForce'[t], known') /\ ~Quiet(t)'
    BY <2>4 DEF Justified, Idle, Past, Quiet
  <2>6. Calls'
    BY <1>1, <1>3, <2>1, <2>5, OthersKeep
  <2> QED
    BY <1>2, <2>2, <2>3, <2>6
<1> QED
  BY <1>5, <1>6

\* A step of a call that goes on: it is the same call, and has seen the same settings.
LEMMA GoesOn ==
    ASSUME IInv, NEW t \in Threads, NEW from, NEW to, Goto(t, from, to),
           \/ /\ from \in {"disabled", "resolve", "collect", "file"}
              /\ to \in {"resolve", "collect", "file", "stdout", "done"}
           \/ from = "only" /\ to = "done"
    PROVE  /\ call[t] # Idle /\ call[t].step = from
           /\ call[t].module \in Modules /\ call[t].level \in Int
           /\ from = "only" => call[t].stdout \in Int
           /\ call'[t].step = to /\ call'[t].module = call[t].module
           /\ call'[t].level = call[t].level
           /\ \A u \in Threads : u # t => call'[u] = call[u] /\ inForce'[u] = inForce[u]
           /\ inForce'[t] = inForce[t]
           /\ call' \in [Threads -> {Idle} \cup Begun \cup Halfway]
           /\ Seen' /\ (Quiet(t)' => Quiet(t))
<1>1. call \in [Threads -> {Idle} \cup Begun \cup Halfway]
  BY DEF IInv, Types
<1>2. call[t].step = from /\ call' = [call EXCEPT ![t] = [call[t] EXCEPT !.step = to]]
  BY <1>1 DEF Goto
<1>3. call[t] # Idle
  BY <1>2 DEF Idle
<1>4. UNCHANGED <<settings, was, todo, storing, inForce>>
  BY DEF Goto, configVars, storeVars
<1>5. /\ call[t].module \in Modules /\ call[t].level \in Int
      /\ from = "only" => call[t].stdout \in Int
      /\ call'[t].step = to /\ call'[t].module = call[t].module
      /\ call'[t].level = call[t].level
      /\ call'[t] \in {Idle} \cup Begun \cup Halfway
  <2>1. CASE call[t] \in Begun
    <3>1. from # "only"
      BY <1>2, <2>1 DEF Begun
    <3> QED
      BY <1>1, <1>2, <2>1, <3>1 DEF Begun
  <2>2. CASE call[t] \in Halfway
    <3>1. from = "only" /\ to = "done"
      BY <1>2, <2>2 DEF Halfway
    <3> QED
      BY <1>1, <1>2, <2>2, <3>1 DEF Halfway
  <2> QED
    BY <1>1, <1>3, <2>1, <2>2
<1>6. \A u \in Threads : u # t => call'[u] = call[u]
  BY <1>1, <1>2
<1>7. call' \in [Threads -> {Idle} \cup Begun \cup Halfway]
  BY <1>1, <1>2, <1>5
<1>8. Seen'
  BY <1>3, <1>4, <1>6 DEF IInv, Seen, MutexFree
<1>9. Quiet(t)' => Quiet(t)
  BY <1>3, <1>4 DEF Quiet
<1> QED
  BY <1>2, <1>3, <1>4, <1>5, <1>6, <1>7, <1>8, <1>9

\* What decides about an output is the module and the level of a call.
LEMMA SameLine ==
    ASSUME NEW c, NEW d, d.module = c.module, d.level = c.level, NEW s
    PROVE  /\ FileTakes(s, d) <=> FileTakes(s, c)
           /\ StdoutTakes(s, d) <=> StdoutTakes(s, c)
BY DEF FileTakes, StdoutTakes

LEMMA CallIsOk ==
    ASSUME IInv, NEW t \in Threads
    PROVE  /\ Justified(call[t], written[t], inForce[t], known)
           /\ Quiet(t) => Followed(call[t], written[t], settings)
           /\ call[t] # Idle => settings \in inForce[t]
BY DEF IInv, Calls, Seen

LEMMA ReadDisabledKeeps ==
    ASSUME IInv, NEW t \in Threads, ReadDisabled(t)
    PROVE  (Types /\ Current /\ Seen /\ Calls)'
<1> DEFINE to == IF disabled THEN "done" ELSE "resolve"
<1>1. Goto(t, "disabled", to) /\ UNCHANGED <<known, threshold, written>>
  BY DEF ReadDisabled, moduleVars
<1>2. UNCHANGED <<settings, was, disabled, todo, storing>>
  BY CallFrame DEF LogCall
<1>3. to \in {"resolve", "done"}
  OBVIOUS
<1> HIDE DEF to
<1>4. /\ call[t] # Idle /\ call[t].step = "disabled" /\ call'[t].step = to
      /\ \A u \in Threads : u # t => call'[u] = call[u] /\ inForce'[u] = inForce[u]
      /\ inForce'[t] = inForce[t]
      /\ call' \in [Threads -> {Idle} \cup Begun \cup Halfway]
      /\ Seen' /\ (Quiet(t)' => Quiet(t))
  BY <1>1, <1>3, GoesOn
<1>5. Types'
  BY <1>1, <1>2, <1>4 DEF IInv, Types, Goto
<1>6. Current'
  BY <1>1, <1>2 DEF IInv, Current, Waiting
<1>7. disabled = settings.disabled /\ settings \in inForce[t] /\ written[t] = {}
  BY <1>4, CallIsOk DEF IInv, Types, Justified
<1>8. Justified(call'[t], written'[t], inForce'[t], known')
  <2>1. CASE disabled
    BY <1>1, <1>4, <1>7, <2>1 DEF Justified, Past, to
  <2>2. CASE ~disabled
    BY <1>1, <1>4, <1>7, <2>2 DEF Justified, Past, to
  <2> QED
    BY <2>1, <2>2
<1>9. Followed(call'[t], written'[t], settings)
  <2>1. CASE disabled
    BY <1>1, <1>4, <1>7, <2>1 DEF Followed, Past, to
  <2>2. CASE ~disabled
    BY <1>1, <1>4, <1>7, <2>2 DEF Followed, Past, to
  <2> QED
    BY <2>1, <2>2
<1>10. Calls'
  BY <1>1, <1>2, <1>4, <1>8, <1>9, OthersKeep
<1> QED
  BY <1>4, <1>5, <1>6, <1>10

\* The thresholds of a module are those of the settings from its first call on.
LEMMA ResolveKeeps ==
    ASSUME IInv, NEW t \in Threads, Resolve(t)
    PROVE  (Types /\ Current /\ Seen /\ Calls)'
<1>1. Goto(t, "resolve", "collect") /\ written' = written
  BY DEF Resolve
<1>2. UNCHANGED <<settings, was, disabled, todo, storing>>
  BY CallFrame DEF LogCall
<1>3. /\ call[t] # Idle /\ call[t].step = "resolve" /\ call[t].module \in Modules
      /\ call'[t].step = "collect" /\ call'[t].module = call[t].module
      /\ \A u \in Threads : u # t => call'[u] = call[u] /\ inForce'[u] = inForce[u]
      /\ inForce'[t] = inForce[t]
      /\ call' \in [Threads -> {Idle} \cup Begun \cup Halfway]
      /\ Seen' /\ (Quiet(t)' => Quiet(t))
  BY <1>1, GoesOn
<1>4. PICK m : m = call[t].module
  OBVIOUS
<1>5. \/ m \in known /\ UNCHANGED <<known, threshold>>
      \/ /\ m \notin known /\ MutexFree /\ known' = known \cup {m}
         /\ threshold' = [threshold EXCEPT ![m] = Computed(settings, m)]
  BY <1>4 DEF Resolve, moduleVars
<1>6. m \in Modules /\ settings \in AllSettings /\ threshold \in [Modules -> Published]
  BY <1>3, <1>4 DEF IInv, Types
<1>7. known \subseteq known' /\ m \in known' /\ known' \subseteq Modules
  BY <1>5, <1>6 DEF IInv, Types
<1>8. threshold' \in [Modules -> Published]
  BY <1>5, <1>6, ComputedIsFormed
<1>9. Types'
  <2>1. todo \subseteq known' /\ storing \in {NoStore} \cup [module : known' \ todo, store : Fields]
    BY <1>7 DEF IInv, Types
  <2>2. inForce' = inForce
    BY <1>1 DEF Goto
  <2> QED
    BY <1>1, <1>2, <1>3, <1>7, <1>8, <2>1, <2>2 DEF IInv, Types
<1>10. Current'
  <2> SUFFICES ASSUME NEW x \in known', NEW f \in Fields
               PROVE  threshold'[x][f]
                      = Computed(IF Waiting(x, f) THEN was ELSE settings, x)[f]
    BY <1>2 DEF Current, Waiting
  <2>1. CASE x \in known
    <3>1. threshold'[x] = threshold[x]
      BY <1>5, <1>6, <2>1 DEF IInv, Types
    <3> QED
      BY <2>1, <3>1 DEF IInv, Current
  <2>2. CASE x \notin known
    <3>1. x = m /\ MutexFree /\ threshold'[m] = Computed(settings, m)
      BY <1>5, <1>6, <2>2
    <3>2. ~Waiting(x, f)
      BY <3>1 DEF MutexFree, Waiting
    <3> QED
      BY <3>1, <3>2
  <2> QED
    BY <2>1, <2>2
<1>11. Justified(call'[t], written'[t], inForce'[t], known')
  BY <1>1, <1>3, <1>4, <1>7, CallIsOk DEF Justified, Past
<1>12. Quiet(t)' => Followed(call'[t], written'[t], settings)
  BY <1>3, CallIsOk DEF Followed, Past
<1>13. Calls'
  BY <1>1, <1>2, <1>3, <1>7, <1>11, <1>12, OthersKeep
<1> QED
  BY <1>3, <1>9, <1>10, <1>13

LEMMA ReadCollectKeeps ==
    ASSUME IInv, NEW t \in Threads, ReadCollect(t)
    PROVE  (Types /\ Current /\ Seen /\ Calls)'
<1> DEFINE to == IF Reaches(t, "collect") THEN "file" ELSE "done"
<1>1. Goto(t, "collect", to) /\ UNCHANGED <<known, threshold, written>>
  BY DEF ReadCollect, moduleVars
<1>2. UNCHANGED <<settings, was, disabled, todo, storing>>
  BY CallFrame DEF LogCall
<1>3. to \in {"file", "done"}
  OBVIOUS
<1> HIDE DEF to
<1>4. /\ call[t] # Idle /\ call[t].step = "collect" /\ call'[t].step = to
      /\ call[t].module \in Modules /\ call[t].level \in Int
      /\ call'[t].module = call[t].module /\ call'[t].level = call[t].level
      /\ \A u \in Threads : u # t => call'[u] = call[u] /\ inForce'[u] = inForce[u]
      /\ inForce'[t] = inForce[t]
      /\ call' \in [Threads -> {Idle} \cup Begun \cup Halfway]
      /\ Seen' /\ (Quiet(t)' => Quiet(t))
  BY <1>1, <1>3, GoesOn
<1>5. Types'
  BY <1>1, <1>2, <1>4 DEF IInv, Types, Goto
<1>6. Current'
  BY <1>1, <1>2 DEF IInv, Current, Waiting
<1>7. PICK m, l : m = call[t].module /\ l = call[t].level
  OBVIOUS
<1>8. /\ (\E s \in inForce[t] : ~s.disabled) /\ m \in known /\ written[t] = {}
      /\ Quiet(t) => ~settings.disabled
  BY <1>4, <1>7, CallIsOk DEF Justified, Followed, Past
<1>9. Reaches(t, "collect") <=> l <= threshold[m].collect
  BY <1>7 DEF Reaches
<1>10. \A s \in AllSettings : ~(l <= Computed(s, m).collect) =>
          ~FileTakes(s, call[t]) /\ ~StdoutTakes(s, call[t])
  <2> SUFFICES ASSUME NEW s \in AllSettings, ~(l <= Computed(s, m).collect)
               PROVE  ~FileTakes(s, call[t]) /\ ~StdoutTakes(s, call[t])
    OBVIOUS
  <2>1. /\ FileLevel(s, m) \in Int /\ StdoutLevel(s, m) \in Int
        /\ Computed(s, m).collect \in Int
        /\ FileLevel(s, m) <= Computed(s, m).collect
        /\ StdoutLevel(s, m) <= Computed(s, m).collect
    BY <1>4, <1>7, ComputedIsFormed DEF Published
  <2>2. ~(l <= FileLevel(s, m)) /\ ~(l <= StdoutLevel(s, m)) /\ l # StdoutLevel(s, m)
    BY <1>4, <1>7, <2>1
  <2> QED
    BY <1>7, <2>2 DEF FileTakes, StdoutTakes, Passes
<1>11. PICK s \in inForce[t] :
          s \in AllSettings /\ threshold[m]["collect"] = Computed(s, m)["collect"]
  BY <1>4, <1>8, ReadIsSeen DEF Fields
<1>12. Justified(call'[t], written'[t], inForce'[t], known')
  <2>1. CASE Reaches(t, "collect")
    BY <1>1, <1>4, <1>7, <1>8, <2>1 DEF Justified, Past, to
  <2>2. CASE ~Reaches(t, "collect")
    <3>1. ~FileTakes(s, call'[t])
      BY <1>4, <1>9, <1>10, <1>11, <2>2, SameLine
    <3> QED
      BY <1>1, <1>4, <1>8, <1>11, <2>2, <3>1 DEF Justified, Past, to
  <2> QED
    BY <2>1, <2>2
<1>13. ASSUME Quiet(t) PROVE Followed(call'[t], written'[t], settings)
  <2>1. CASE Reaches(t, "collect")
    BY <1>4, <1>8, <1>13, <2>1 DEF Followed, Past, to
  <2>2. CASE ~Reaches(t, "collect")
    <3>1. threshold[m]["collect"] = Computed(settings, m)["collect"]
      BY <1>4, <1>8, <1>13, ReadIsSeen DEF Fields
    <3>2. settings \in AllSettings
      BY DEF IInv, Types
    <3>3. ~FileTakes(settings, call'[t]) /\ ~StdoutTakes(settings, call'[t])
      BY <1>4, <1>9, <1>10, <2>2, <3>1, <3>2, SameLine
    <3> QED
      BY <1>1, <1>4, <1>8, <2>2, <3>3 DEF Followed, Past, to
  <2> QED
    BY <2>1, <2>2
<1>14. Calls'
  BY <1>1, <1>2, <1>4, <1>12, <1>13, OthersKeep
<1> QED
  BY <1>4, <1>5, <1>6, <1>14

LEMMA WriteFileKeeps ==
    ASSUME IInv, NEW t \in Threads, WriteFile(t)
    PROVE  (Types /\ Current /\ Seen /\ Calls)'
<1>1. /\ Goto(t, "file", "stdout") /\ UNCHANGED <<known, threshold>>
      /\ written' = IF Reaches(t, "file") THEN [written EXCEPT ![t] = @ \cup {"file"}]
                    ELSE written
  BY DEF WriteFile, moduleVars
<1>2. UNCHANGED <<settings, was, disabled, todo, storing>>
  BY CallFrame DEF LogCall
<1>3. /\ call[t] # Idle /\ call[t].step = "file" /\ call'[t].step = "stdout"
      /\ call[t].module \in Modules /\ call[t].level \in Int
      /\ call'[t].module = call[t].module /\ call'[t].level = call[t].level
      /\ \A u \in Threads : u # t => call'[u] = call[u] /\ inForce'[u] = inForce[u]
      /\ inForce'[t] = inForce[t]
      /\ call' \in [Threads -> {Idle} \cup Begun \cup Halfway]
      /\ Seen' /\ (Quiet(t)' => Quiet(t))
  BY <1>1, GoesOn
<1>4. written \in [Threads -> SUBSET {"file", "stdout"}] /\ inForce' = inForce
  BY <1>1 DEF IInv, Types, Goto
<1>5. PICK m, l : m = call[t].module /\ l = call[t].level
  OBVIOUS
<1>6. /\ (\E s \in inForce[t] : ~s.disabled) /\ m \in known /\ written[t] = {}
      /\ Quiet(t) => ~settings.disabled
  BY <1>3, <1>5, CallIsOk DEF Justified, Followed, Past
<1>7. /\ \A u \in Threads : u # t => written'[u] = written[u]
      /\ written'[t] = IF l <= threshold[m]["file"] THEN {"file"} ELSE {}
      /\ written' \in [Threads -> SUBSET {"file", "stdout"}]
  BY <1>1, <1>4, <1>5, <1>6 DEF Reaches
<1>8. Types'
  BY <1>1, <1>2, <1>3, <1>4, <1>7 DEF IInv, Types
<1>9. Current'
  BY <1>1, <1>2 DEF IInv, Current, Waiting
<1>10. \A s \in AllSettings : FileTakes(s, call'[t]) <=> l <= Computed(s, m)["file"]
  BY <1>3, <1>5, ComputedIsFormed DEF FileTakes
<1>11. PICK s \in inForce[t] : s \in AllSettings /\ threshold[m]["file"] = Computed(s, m)["file"]
  BY <1>3, <1>6, ReadIsSeen DEF Fields
<1>12. Justified(call'[t], written'[t], inForce'[t], known')
  <2>1. "file" \in written'[t] <=> FileTakes(s, call'[t])
    BY <1>7, <1>10, <1>11
  <2> QED
    BY <1>1, <1>3, <1>5, <1>6, <1>11, <2>1 DEF Justified, Past
<1>13. ASSUME Quiet(t) PROVE Followed(call'[t], written'[t], settings)
  <2>1. threshold[m]["file"] = Computed(settings, m)["file"]
    BY <1>3, <1>6, <1>13, ReadIsSeen DEF Fields
  <2>2. settings \in AllSettings
    BY DEF IInv, Types
  <2>3. "file" \in written'[t] <=> FileTakes(settings, call'[t])
    BY <1>7, <1>10, <2>1, <2>2
  <2>4. "stdout" \notin written'[t]
    BY <1>7
  <2> QED
    BY <1>3, <1>6, <1>13, <2>3, <2>4 DEF Followed, Past
<1>14. Calls'
  BY <1>1, <1>2, <1>3, <1>7, <1>12, <1>13, OthersKeep
<1> QED
  BY <1>3, <1>8, <1>9, <1>14

LEMMA ReadStdoutLevelKeeps ==
    ASSUME IInv, NEW t \in Threads, ReadStdoutLevel(t)
    PROVE  (Types /\ Current /\ Seen /\ Calls)'
<1>1. UNCHANGED <<settings, was, disabled, todo, storing, known, threshold, inForce, written>>
  BY CallFrame DEF LogCall, ReadStdoutLevel, moduleVars
<1>2. call \in [Threads -> {Idle} \cup Begun \cup Halfway] /\ call[t].step = "stdout"
  BY DEF IInv, Types, ReadStdoutLevel
<1>3. call[t] # Idle /\ call[t] \in Begun
  BY <1>2 DEF Idle, Halfway
<1>4. PICK m, l : m = call[t].module /\ l = call[t].level
  OBVIOUS
<1> DEFINE c == [step |-> "only", module |-> m, level |-> l, stdout |-> threshold[m].stdout]
<1>5. call' = [call EXCEPT ![t] = c]
  BY <1>4 DEF ReadStdoutLevel
<1>6. m \in Modules /\ l \in Int /\ threshold[m] \in Published
  BY <1>3, <1>4 DEF Begun, IInv, Types
<1>7. c \in Halfway /\ c # Idle
  BY <1>6 DEF Halfway, Published, Idle
<1>8. /\ c.step = "only" /\ c.module = call[t].module /\ c.level = call[t].level
      /\ c.stdout = threshold[m]["stdout"]
  BY <1>4
<1> HIDE DEF c
<1>9. /\ call' \in [Threads -> {Idle} \cup Begun \cup Halfway] /\ call'[t] = c
      /\ \A u \in Threads : u # t => call'[u] = call[u]
  BY <1>2, <1>5, <1>7
<1>10. Types'
  BY <1>1, <1>9 DEF IInv, Types
<1>11. Current'
  BY <1>1 DEF IInv, Current, Waiting
<1>12. Seen'
  BY <1>1, <1>3, <1>9 DEF IInv, Seen, MutexFree
<1>13. Quiet(t)' => Quiet(t)
  BY <1>1, <1>3 DEF Quiet
<1>14. /\ (\E s \in inForce[t] : ~s.disabled) /\ m \in known
       /\ IF "file" \in written[t] THEN \E s \in inForce[t] : FileTakes(s, call[t])
          ELSE \E s \in inForce[t] : ~FileTakes(s, call[t])
  BY <1>2, <1>4, CallIsOk DEF Justified, Past
<1>15. Justified(c, written[t], inForce[t], known)
  <2>1. \A s : FileTakes(s, c) <=> FileTakes(s, call[t])
    BY <1>8, SameLine
  <2> QED
    BY <1>4, <1>8, <1>14, <2>1 DEF Justified, Past
<1>16. ASSUME Quiet(t) PROVE Followed(c, written[t], settings)
  <2>1. threshold[m]["stdout"] = StdoutLevel(settings, m)
    <3>1. threshold[m]["stdout"] = Computed(settings, m)["stdout"]
      BY <1>3, <1>14, <1>16, ReadIsSeen DEF Fields
    <3>2. settings \in AllSettings
      BY DEF IInv, Types
    <3> QED
      BY <1>6, <3>1, <3>2, ComputedIsFormed
  <2>2. FileTakes(settings, c) <=> FileTakes(settings, call[t])
    BY <1>8, SameLine
  <2>3. /\ ~settings.disabled /\ "stdout" \notin written[t]
        /\ "file" \in written[t] <=> FileTakes(settings, call[t])
    BY <1>2, <1>16, CallIsOk DEF Followed, Past
  <2> QED
    BY <1>4, <1>8, <2>1, <2>2, <2>3 DEF Followed, Past
<1>17. Calls'
  BY <1>1, <1>9, <1>13, <1>15, <1>16, OthersKeep
<1> QED
  BY <1>10, <1>11, <1>12, <1>17

LEMMA WriteStdoutKeeps ==
    ASSUME IInv, NEW t \in Threads, WriteStdout(t)
    PROVE  (Types /\ Current /\ Seen /\ Calls)'
<1> DEFINE passes == Passes(call[t].level, call[t].stdout, threshold[call[t].module].only)
<1>1. /\ Goto(t, "only", "done") /\ UNCHANGED <<known, threshold>>
      /\ written' = IF passes THEN [written EXCEPT ![t] = @ \cup {"stdout"}] ELSE written
  BY DEF WriteStdout, moduleVars
<1>2. UNCHANGED <<settings, was, disabled, todo, storing>>
  BY CallFrame DEF LogCall
<1>3. /\ call[t] # Idle /\ call[t].step = "only" /\ call'[t].step = "done"
      /\ call[t].module \in Modules /\ call[t].level \in Int
      /\ call'[t].module = call[t].module /\ call'[t].level = call[t].level
      /\ \A u \in Threads : u # t => call'[u] = call[u] /\ inForce'[u] = inForce[u]
      /\ inForce'[t] = inForce[t]
      /\ call' \in [Threads -> {Idle} \cup Begun \cup Halfway]
      /\ Seen' /\ (Quiet(t)' => Quiet(t))
  BY <1>1, GoesOn
<1>4. written \in [Threads -> SUBSET {"file", "stdout"}] /\ inForce' = inForce
  BY <1>1 DEF IInv, Types, Goto
<1> HIDE DEF passes
<1>5. /\ \A u \in Threads : u # t => written'[u] = written[u]
      /\ written'[t] = IF passes THEN written[t] \cup {"stdout"} ELSE written[t]
      /\ written' \in [Threads -> SUBSET {"file", "stdout"}]
  BY <1>1, <1>4
<1>6. "file" \in written'[t] <=> "file" \in written[t]
  BY <1>5
<1>7. Types'
  BY <1>1, <1>2, <1>3, <1>4, <1>5 DEF IInv, Types
<1>8. Current'
  BY <1>1, <1>2 DEF IInv, Current, Waiting
<1>9. /\ \E s \in inForce[t] : ~s.disabled
      /\ call[t].module \in known
      /\ IF "file" \in written[t] THEN \E s \in inForce[t] : FileTakes(s, call[t])
         ELSE \E s \in inForce[t] : ~FileTakes(s, call[t])
  BY <1>3, CallIsOk DEF Justified, Past
<1>10. Justified(call'[t], written'[t], inForce'[t], known')
  <2>1. \A s : FileTakes(s, call'[t]) <=> FileTakes(s, call[t])
    BY <1>3, SameLine
  <2> QED
    BY <1>3, <1>6, <1>9, <2>1 DEF Justified, Past
<1>11. ASSUME Quiet(t) PROVE Followed(call'[t], written'[t], settings)
  <2>1. /\ ~settings.disabled /\ "stdout" \notin written[t]
        /\ "file" \in written[t] <=> FileTakes(settings, call[t])
        /\ call[t].stdout = StdoutLevel(settings, call[t].module)
    BY <1>3, <1>11, CallIsOk DEF Followed, Past
  <2>2. threshold[call[t].module]["only"] = settings.only
    <3>1. threshold[call[t].module]["only"] = Computed(settings, call[t].module)["only"]
      BY <1>3, <1>9, <1>11, ReadIsSeen DEF Fields
    <3>2. settings \in AllSettings
      BY DEF IInv, Types
    <3> QED
      BY <1>3, <3>1, <3>2, ComputedIsFormed
  <2>3. passes <=> StdoutTakes(settings, call[t])
    BY <2>1, <2>2 DEF passes, StdoutTakes
  <2>4. "stdout" \in written'[t] <=> StdoutTakes(settings, call'[t])
    BY <1>3, <1>5, <2>1, <2>3, SameLine
  <2>5. "file" \in written'[t] <=> FileTakes(settings, call'[t])
    BY <1>3, <1>6, <2>1, SameLine
  <2> QED
    BY <1>3, <2>1, <2>4, <2>5 DEF Followed, Past
<1>12. Calls'
  BY <1>1, <1>2, <1>3, <1>5, <1>10, <1>11, OthersKeep
<1> QED
  BY <1>3, <1>7, <1>8, <1>12

LEMMA InvHolds == Spec => []IInv
<1>1. IInv /\ [Next]_vars => IInv'
  <2> SUFFICES ASSUME IInv, [Next]_vars PROVE IInv'
    OBVIOUS
  <2>1. RegistryInv'
    BY StepsOfRegistry, RegistryGrows DEF IInv
  <2> SUFFICES (Types /\ Current /\ Seen /\ Calls)'
    BY <2>1 DEF IInv
  <2>2. CASE \E layers, reading, error : Change(layers, reading, error)
    BY <2>2, ChangeKeeps
  <2>3. CASE SetLevel \/ SetText \/ Configure \/ LoadFile \/ LoadEnv \/ Reset
    BY <2>2, <2>3 DEF SetLevel, SetText, SetApi, Configure, LoadFile, LoadEnv, Reset
  <2>4. CASE PickModule \/ Store
    BY <2>4, RebuildKeeps
  <2>5. CASE UNCHANGED <<settings, was, storeVars, moduleVars, call, inForce, written>>
    BY <2>5 DEF IInv, Types, Current, Seen, Calls, Waiting, MutexFree, Quiet, storeVars,
                moduleVars
  <2>6. CASE ClearError \/ NewLevel \/ UNCHANGED vars
    BY <2>5, <2>6 DEF ClearError, NewLevel, vars, configVars, callVars
  <2>7. ASSUME NEW t \in Threads, LogCall(t) PROVE (Types /\ Current /\ Seen /\ Calls)'
    BY <2>7, BeginKeeps, ReadDisabledKeeps, ResolveKeeps, ReadCollectKeeps, WriteFileKeeps,
       ReadStdoutLevelKeeps, WriteStdoutKeeps DEF LogCall
  <2> QED
    BY <2>3, <2>4, <2>6, <2>7 DEF Next
<1> QED
  BY <1>1, InitInv, PTL DEF Spec

\* Whenever no rebuild is under way, every module that has a state, also one that a log
\* call made between two changes, has the thresholds of the settings now in force, and
\* the global switch is theirs.
THEOREM ThresholdsAreComputed ==
    Spec => [](MutexFree => /\ disabled = settings.disabled
                            /\ \A m \in known : threshold[m] = Computed(settings, m))
<1>1. IInv => (MutexFree => /\ disabled = settings.disabled
                            /\ \A m \in known : threshold[m] = Computed(settings, m))
  <2> SUFFICES ASSUME IInv, MutexFree, NEW m \in known
               PROVE  threshold[m] = Computed(settings, m)
    BY DEF IInv, Types
  <2>1. threshold[m] \in Published /\ Computed(settings, m) \in Published
    BY ComputedIsFormed DEF IInv, Types
  <2>2. \A f \in Fields : threshold[m][f] = Computed(settings, m)[f]
    BY SettledIsCurrent DEF IInv
  <2> HIDE DEF IInv
  <2> QED
    BY <2>1, <2>2 DEF Published, Fields
<1> QED
  BY <1>1, InvHolds, PTL

\* A line is in the file only if some of the settings in force during its call were
\* enabled and some take it; it is missing only if some do not: whatever is reconfigured
\* while the call reads its module's thresholds one by one.
THEOREM FileLineCorrect == Spec => []FileLineJustified
<1>1. IInv => FileLineJustified
  BY DEF IInv, Calls, Justified, FileLineJustified
<1> QED
  BY <1>1, InvHolds, PTL

\* A call that no change overlaps writes to each output exactly what the settings ask,
\* whichever call or change made the thresholds it reads.
THEOREM QuietCallsCorrect == Spec => []QuietCallsFollowSettings
<1>1. IInv => QuietCallsFollowSettings
  <2> SUFFICES ASSUME IInv, NEW t \in Threads, call[t].step = "done", inForce[t] = {settings}
               PROVE  Followed(call[t], written[t], settings)
    BY DEF QuietCallsFollowSettings, Followed
  <2>1. call[t] # Idle
    BY DEF Idle
  <2> QED
    BY <2>1 DEF IInv, Calls, Quiet
<1> QED
  BY <1>1, InvHolds, PTL

----------------------------------------------------------------------------
(* Texts: the least and the greatest of a set of places, and trim.         *)

\* What holds of 0 and passes from a number to the next holds up to any bound.
LEMMA UpTo ==
    ASSUME NEW n \in Nat, NEW s, 0 \in s, \A k \in 0 .. n - 1 : k \in s => k + 1 \in s
    PROVE  \A k \in 0 .. n : k \in s
<1> DEFINE less == {p \in Nat \X Nat : p[1] < p[2]}
           bad  == {k \in 0 .. n : k \notin s}
<1>1. IsWellFoundedOn(less, Nat)
  BY NatLessThanWellFounded DEF OpToRel
<1>2. \A i, j \in Nat : <<j, i>> \in less <=> j < i
  OBVIOUS
<1>3. SUFFICES ASSUME bad # {} PROVE FALSE
  OBVIOUS
<1> HIDE DEF less
<1>4. bad \subseteq Nat
  OBVIOUS
<1>5. PICK k \in bad : \A j \in bad : <<j, k>> \notin less
  <2> HIDE DEF bad
  <2> QED
    BY <1>1, <1>3, <1>4, WFMin
<1>6. k # 0 /\ k - 1 \in 0 .. n - 1
  OBVIOUS
<1>7. k \in Nat /\ k - 1 \in Nat /\ <<k - 1, k>> \in less
  BY <1>2, <1>6
<1>8. k - 1 \notin bad
  BY <1>5, <1>7
<1> QED
  BY <1>6, <1>8

LEMMA GreatestIs ==
    ASSUME NEW n \in Nat, NEW s \in SUBSET (0 .. n), s # {}
    PROVE  Greatest(s) \in s /\ \A j \in s : j <= Greatest(s)
<1> DEFINE t == {n - i : i \in s}
<1>1. t \in SUBSET Nat /\ t # {}
  <2>1. \A i \in s : n - i \in t /\ n - i \in Nat
    OBVIOUS
  <2>2. PICK i \in s : TRUE
    OBVIOUS
  <2>3. t \subseteq Nat
    BY <2>1
  <2> HIDE DEF t
  <2> QED
    BY <2>1, <2>2, <2>3
<1>2. Least(t) \in t /\ \A j \in t : Least(t) <= j
  <2> HIDE DEF t
  <2> QED
    BY <1>1, LeastIs
<1>3. PICK g \in s : Least(t) = n - g
  BY <1>2
<1>4. ASSUME NEW j \in s PROVE g >= j
  <2>1. n - j \in t
    OBVIOUS
  <2>2. n - g <= n - j
    BY <1>2, <1>3, <2>1
  <2> QED
    BY <2>2
<1>5. \E i \in s : \A j \in s : i >= j
  BY <1>4
<1> QED
  BY <1>5 DEF Greatest

\* The one that no other of the set is below, or above.
LEMMA LeastOf ==
    ASSUME NEW s \in SUBSET Nat, NEW i \in s, \A j \in s : i <= j
    PROVE  Least(s) = i
<1>1. Least(s) \in s /\ \A j \in s : Least(s) <= j
  BY LeastIs
<1>2. Least(s) \in Nat /\ i \in Nat
  BY <1>1
<1>3. Least(s) <= i /\ i <= Least(s)
  BY <1>1
<1> QED
  BY <1>2, <1>3

LEMMA GreatestOf ==
    ASSUME NEW n \in Nat, NEW s \in SUBSET (0 .. n), NEW i \in s, \A j \in s : j <= i
    PROVE  Greatest(s) = i
<1>1. Greatest(s) \in s /\ \A j \in s : j <= Greatest(s)
  BY GreatestIs
<1>2. Greatest(s) \in Nat /\ i \in Nat
  <2>1. \A j \in 0 .. n : j \in Nat
    OBVIOUS
  <2> QED
    BY <1>1, <2>1
<1>3. Greatest(s) <= i /\ i <= Greatest(s)
  BY <1>1
<1> QED
  BY <1>2, <1>3

\* The part of a text from place a to place b.
LEMMA PartIs ==
    ASSUME NEW S, NEW text \in Seq(S), NEW a \in Nat, NEW b \in Nat,
           1 <= a, a <= b + 1, b <= Len(text)
    PROVE  /\ SubSeq(text, a, b) \in Seq(S)
           /\ Len(SubSeq(text, a, b)) = b - a + 1
           /\ DOMAIN SubSeq(text, a, b) = 1 .. b - a + 1
           /\ \A k \in 1 .. b - a + 1 : SubSeq(text, a, b)[k] = text[k + a - 1]
<1>1. \A k \in a .. b : text[k] \in S
  OBVIOUS
<1>2. SubSeq(text, a, b) \in Seq(S)
  BY <1>1
<1> QED
  BY <1>2

\* What trim leaves of a text: nothing, one symbol, or more.
LEMMA TrimIs ==
    ASSUME NEW S, NEW text \in Seq(S)
    PROVE  /\ Trim(text) \in Seq(S)
           /\ Trim(text) = <<>> <=> Kept(text) = {}
           /\ \A k : Kept(text) = {k} => Trim(text) = <<text[k]>>
           /\ \A i, j \in Kept(text) : i # j => Len(Trim(text)) > 1
<1> DEFINE n == Len(text)
           kept == Kept(text)
<1>0. n \in Nat /\ kept \subseteq 1 .. n
  BY DEF Kept
<1>1. CASE kept = {}
  BY <1>1 DEF Trim
<1>2. CASE kept # {}
  <2> DEFINE l == Least(kept)
             g == Greatest(kept)
  <2>1. l \in kept /\ \A j \in kept : l <= j
    BY <1>0, <1>2, LeastIs
  <2>2. g \in kept /\ \A j \in kept : j <= g
    <3>1. kept \in SUBSET (0 .. n)
      BY <1>0
    <3> HIDE DEF kept
    <3> QED
      BY <1>0, <1>2, <3>1, GreatestIs
  <2>3. Trim(text) = SubSeq(text, l, g)
    BY <1>2 DEF Trim
  <2>4. l \in 1 .. n /\ g \in 1 .. n /\ l <= g
    BY <1>0, <2>1, <2>2
  <2> HIDE DEF l, g
  <2>5. /\ SubSeq(text, l, g) \in Seq(S)
        /\ Len(SubSeq(text, l, g)) = g - l + 1
        /\ \A k \in 1 .. g - l + 1 : SubSeq(text, l, g)[k] = text[k + l - 1]
    BY <2>4, PartIs
  <2>6. ASSUME NEW k, kept = {k} PROVE Trim(text) = <<text[k]>>
    <3>1. l = k /\ g = k
      BY <2>1, <2>2, <2>6
    <3>2. Trim(text) \in Seq(S) /\ Len(Trim(text)) = 1 /\ Trim(text)[1] = text[k]
      <4>1. g - l + 1 = 1 /\ 1 \in 1 .. 1 /\ 1 + l - 1 = k
        BY <2>4, <3>1
      <4> QED
        BY <2>3, <2>5, <4>1
    <3>3. PICK u : u = Trim(text)
      OBVIOUS
    <3>4. u = <<u[1]>>
      BY <3>2, <3>3
    <3> QED
      BY <3>2, <3>3, <3>4
  <2>7. ASSUME NEW i \in kept, NEW j \in kept, i # j PROVE Len(Trim(text)) > 1
    <3>1. l < g
      BY <1>0, <2>1, <2>2, <2>4, <2>7
    <3> QED
      BY <2>3, <2>4, <2>5, <3>1
  <2>8. Trim(text) # <<>>
    BY <2>3, <2>4, <2>5
  <2> QED
    BY <1>2, <2>3, <2>5, <2>6, <2>7, <2>8
<1> QED
  BY <1>1, <1>2

\* The same of a part of a text, by the places in the text.
Said(text, a, b) == {k \in a .. b : text[k] \notin Blanks}

LEMMA TrimPart ==
    ASSUME NEW S, NEW text \in Seq(S), NEW a \in Nat, NEW b \in Nat,
           1 <= a, a <= b + 1, b <= Len(text)
    PROVE  /\ Trim(SubSeq(text, a, b)) \in Seq(S)
           /\ Trim(SubSeq(text, a, b)) = <<>> <=> Said(text, a, b) = {}
           /\ \A k : Said(text, a, b) = {k} => Trim(SubSeq(text, a, b)) = <<text[k]>>
           /\ \A i, j \in Said(text, a, b) : i # j => Len(Trim(SubSeq(text, a, b))) > 1
<1> DEFINE part == SubSeq(text, a, b)
           said == Said(text, a, b)
<1>1. /\ part \in Seq(S)
      /\ DOMAIN part = 1 .. b - a + 1
      /\ \A k \in 1 .. b - a + 1 : part[k] = text[k + a - 1]
  BY PartIs
<1> HIDE DEF part
<1>2. /\ Trim(part) \in Seq(S)
      /\ Trim(part) = <<>> <=> Kept(part) = {}
      /\ \A k : Kept(part) = {k} => Trim(part) = <<part[k]>>
      /\ \A i, j \in Kept(part) : i # j => Len(Trim(part)) > 1
  BY <1>1, TrimIs
<1>3. \A k \in a .. b : k \in said <=> k - a + 1 \in Kept(part)
  <2> SUFFICES ASSUME NEW k \in a .. b PROVE k \in said <=> k - a + 1 \in Kept(part)
    OBVIOUS
  <2>1. PICK h : h = k - a + 1
    OBVIOUS
  <2>2. h \in 1 .. b - a + 1 /\ h + a - 1 = k
    BY <2>1
  <2>3. part[h] = text[k]
    BY <1>1, <2>2
  <2> QED
    BY <1>1, <2>1, <2>2, <2>3 DEF Kept, Said
<1>4. ASSUME NEW h \in Kept(part) PROVE h \in Nat /\ h + a - 1 \in a .. b /\ h + a - 1 \in said
  <2>1. h \in 1 .. b - a + 1
    BY <1>1 DEF Kept
  <2>2. PICK k : k = h + a - 1
    OBVIOUS
  <2>3. k \in a .. b /\ k - a + 1 = h
    BY <2>1, <2>2
  <2>4. k \in said
    BY <1>3, <2>3
  <2> QED
    BY <2>1, <2>2, <2>3, <2>4
<1>5. said \subseteq a .. b
  BY DEF Said
<1> HIDE DEF said
<1>6. said = {} <=> Kept(part) = {}
  BY <1>3, <1>4, <1>5
<1>7. ASSUME NEW k, said = {k} PROVE Trim(part) = <<text[k]>>
  <2>1. PICK h : h = k - a + 1
    OBVIOUS
  <2>2. k \in a .. b /\ h \in 1 .. b - a + 1 /\ h + a - 1 = k
    BY <1>5, <1>7, <2>1
  <2>3. h \in Kept(part)
    BY <1>3, <1>7, <2>1, <2>2
  <2>4. \A i \in Kept(part) : i = h
    <3> SUFFICES ASSUME NEW i \in Kept(part) PROVE i = h
      OBVIOUS
    <3>1. i \in Nat /\ i + a - 1 = k
      BY <1>4, <1>7
    <3> QED
      BY <2>1, <2>2, <3>1
  <2>5. Kept(part) = {h}
    BY <2>3, <2>4
  <2>6. part[h] = text[k]
    BY <1>1, <2>2
  <2> QED
    BY <1>2, <2>5, <2>6
<1>8. ASSUME NEW i \in said, NEW j \in said, i # j PROVE Len(Trim(part)) > 1
  <2>1. i \in a .. b /\ j \in a .. b
    BY <1>5
  <2>2. PICK h, g : h = i - a + 1 /\ g = j - a + 1
    OBVIOUS
  <2>3. h \in Kept(part) /\ g \in Kept(part) /\ h # g
    BY <1>3, <1>8, <2>1, <2>2
  <2> QED
    BY <1>2, <2>3
<1> QED
  BY <1>2, <1>6, <1>7, <1>8 DEF part, said

----------------------------------------------------------------------------
(* A line: its comment, its name and its value.                            *)

LEMMA CommentsAreAt ==
    ASSUME NEW line, NEW i \in Nat, 1 <= i
    PROVE  StartsComment(line, i) <=> CommentAt(line, i)
<1>1. i > 1 <=> i # 1
  OBVIOUS
<1> QED
  BY <1>1 DEF StartsComment, CommentAt

LEMMA CommentIsStripped ==
    ASSUME NEW S, NEW line \in Seq(S)
    PROVE  StripComment(line) \in Seq(S) /\ Uncommented(line) = {StripComment(line)}
<1> DEFINE n == Len(line)
           starts == {i \in DOMAIN line : StartsComment(line, i)}
           stops(e) == (\A i \in 1 .. e - 1 : ~CommentAt(line, i)) /\ (e <= n => CommentAt(line, e))
           ends == {e \in 1 .. n + 1 : stops(e)}
<1>0. n \in Nat /\ DOMAIN line = 1 .. n /\ starts \in SUBSET Nat
  OBVIOUS
<1>1. \A i \in 1 .. n : i \in starts <=> CommentAt(line, i)
  BY <1>0, CommentsAreAt
<1>2. PICK c : c = IF starts = {} THEN n + 1 ELSE Least(starts)
  OBVIOUS
<1>3. StripComment(line) = SubSeq(line, 1, c - 1) /\ c \in 1 .. n + 1 /\ ends = {c}
  <2>1. CASE starts = {}
    <3>1. StripComment(line) = line /\ SubSeq(line, 1, n) = line
      BY <2>1 DEF StripComment
    <3>2. c = n + 1
      BY <1>2, <2>1
    <3>3. \A i \in 1 .. n : ~CommentAt(line, i)
      BY <1>1, <2>1
    <3>4. c \in ends
      BY <1>0, <3>2, <3>3
    <3>5. \A d \in ends : d = c
      BY <1>0, <3>2, <3>3
    <3> QED
      BY <1>0, <3>1, <3>2, <3>4, <3>5
  <2>2. CASE starts # {}
    <3>1. c \in starts /\ \A j \in starts : c <= j
      BY <1>0, <1>2, <2>2, LeastIs
    <3>2. StripComment(line) = SubSeq(line, 1, c - 1)
      BY <1>2, <2>2 DEF StripComment
    <3>3. c \in 1 .. n
      BY <1>0, <3>1
    <3> HIDE DEF starts
    <3>4. CommentAt(line, c)
      BY <1>1, <3>1, <3>3
    <3>5. \A i \in 1 .. c - 1 : ~CommentAt(line, i)
      <4> SUFFICES ASSUME NEW i \in 1 .. c - 1, CommentAt(line, i) PROVE FALSE
        OBVIOUS
      <4>1. i \in 1 .. n /\ i < c
        BY <1>0, <3>3
      <4>2. c <= i
        BY <1>1, <3>1, <4>1
      <4> QED
        BY <3>3, <4>1, <4>2
    <3>6. c \in ends
      BY <1>0, <3>3, <3>4, <3>5
    <3>7. \A d \in ends : d = c
      <4> SUFFICES ASSUME NEW d \in ends PROVE d = c
        OBVIOUS
      <4>1. d \in 1 .. n + 1 /\ stops(d)
        OBVIOUS
      <4>2. ~(c \in 1 .. d - 1)
        BY <3>4, <4>1
      <4>3. ~(d \in 1 .. c - 1)
        BY <1>0, <3>3, <3>5, <4>1
      <4> QED
        BY <1>0, <3>3, <4>1, <4>2, <4>3
    <3>8. c \in 1 .. n + 1
      BY <1>0, <3>3
    <3> HIDE DEF ends
    <3>9. ends = {c}
      BY <3>6, <3>7
    <3> QED
      BY <3>2, <3>8, <3>9
  <2> QED
    BY <2>1, <2>2
<1>4. StripComment(line) \in Seq(S)
  <2>1. c - 1 \in Nat /\ 1 <= c - 1 + 1 /\ c - 1 <= Len(line) /\ 1 \in Nat
    BY <1>0, <1>3
  <2> QED
    BY <1>3, <2>1, PartIs
<1>5. Uncommented(line) = {SubSeq(line, 1, d - 1) : d \in ends}
  BY DEF Uncommented
<1> HIDE DEF ends
<1> QED
  BY <1>3, <1>4, <1>5

\* The name a text gives a value is the one the reader cuts off, unless that is empty.
LEMMA NameIsCutOff ==
    ASSUME NEW S, NEW text \in Seq(S), EqualsIn(text) # {}, NEW key, key # Nameless
    PROVE  key \in NamesBefore(text, Least(EqualsIn(text))) <=> KeyOf(text) = key
<1> DEFINE n == Len(text)
           q == Least(EqualsIn(text))
           said == Said(text, 1, q - 1)
           cut == Trim(SubSeq(text, 1, q - 1))
<1>1. n \in Nat /\ q \in 1 .. n
  <2>1. EqualsIn(text) \in SUBSET Nat /\ EqualsIn(text) \subseteq 1 .. n
    BY DEF EqualsIn
  <2> QED
    BY <2>1, LeastIs
<1>2. /\ cut = <<>> <=> said = {}
      /\ \A k : said = {k} => cut = <<text[k]>>
      /\ \A i, j \in said : i # j => Len(cut) > 1
  <2>1. q - 1 \in Nat /\ 1 <= q - 1 + 1 /\ q - 1 <= Len(text) /\ 1 \in Nat
    BY <1>1
  <2> HIDE DEF q
  <2> QED
    BY <2>1, TrimPart
<1>3. KeyOf(text) = IF cut = <<>> THEN Nameless ELSE IF Len(cut) > 1 THEN Several ELSE cut[1][1]
  BY DEF KeyOf
<1>4. NamesBefore(text, q) = {text[k][1] : k \in {i \in said : said = {i}}}
                             \cup IF \E i, j \in said : i # j THEN {Several} ELSE {}
  BY DEF NamesBefore, Said
<1> HIDE DEF said, cut, q
<1>5. ASSUME said = {} PROVE key \in NamesBefore(text, q) <=> KeyOf(text) = key
  BY <1>2, <1>3, <1>4, <1>5
<1>6. ASSUME NEW k, said = {k} PROVE key \in NamesBefore(text, q) <=> KeyOf(text) = key
  <2>1. cut = <<text[k]>>
    BY <1>2, <1>6
  <2>2. cut # <<>> /\ ~(Len(cut) > 1) /\ cut[1][1] = text[k][1]
    BY <2>1
  <2>3. NamesBefore(text, q) = {text[k][1]}
    <3>1. {i \in said : said = {i}} = {k} /\ ~(\E i, j \in said : i # j)
      BY <1>6
    <3> QED
      BY <1>4, <3>1
  <2> QED
    BY <1>3, <2>2, <2>3
<1>7. ASSUME NEW i \in said, NEW j \in said, i # j
      PROVE  key \in NamesBefore(text, q) <=> KeyOf(text) = key
  <2>1. cut # <<>> /\ Len(cut) > 1
    BY <1>2, <1>7
  <2>2. NamesBefore(text, q) = {Several}
    <3>1. {k \in said : said = {k}} = {}
      BY <1>7
    <3> QED
      BY <1>4, <1>7, <3>1
  <2> QED
    BY <1>3, <2>1, <2>2
<1>8. key \in NamesBefore(text, q) <=> KeyOf(text) = key
  <2>1. (said = {}) \/ (\E k : said = {k}) \/ (\E i, j \in said : i # j)
    OBVIOUS
  <2> QED
    BY <1>5, <1>6, <1>7, <2>1
<1> QED
  BY <1>8 DEF q

LEMMA AssignmentIsRead ==
    ASSUME NEW S, NEW text \in Seq(S), NEW key, key # Nameless
    PROVE  AssignedIn(text, key) = IF EqualsIn(text) # {} /\ KeyOf(text) = key
                                   THEN {ValueOf(text)} ELSE {}
<1> DEFINE n == Len(text)
           q == Least(EqualsIn(text))
           from == {p \in DOMAIN text : /\ text[p] = Equals
                                        /\ \A j \in 1 .. p - 1 : text[j] # Equals
                                        /\ key \in NamesBefore(text, p)}
<1>1. AssignedIn(text, key) = {Trim(SubSeq(text, p + 1, n)) : p \in from}
  BY DEF AssignedIn
<1>2. n \in Nat /\ DOMAIN text = 1 .. n /\ EqualsIn(text) \in SUBSET Nat
      /\ \A p : p \in EqualsIn(text) <=> p \in 1 .. n /\ text[p] = Equals
  BY DEF EqualsIn
<1>3. CASE EqualsIn(text) = {}
  <2>1. from = {}
    BY <1>2, <1>3
  <2> QED
    BY <1>1, <1>3, <2>1
<1>4. CASE EqualsIn(text) # {}
  <2>1. q \in EqualsIn(text) /\ \A j \in EqualsIn(text) : q <= j
    BY <1>2, <1>4, LeastIs
  <2>2. ValueOf(text) = Trim(SubSeq(text, q + 1, n))
    BY DEF ValueOf
  <2>3. key \in NamesBefore(text, q) <=> KeyOf(text) = key
    BY <1>4, NameIsCutOff
  <2> HIDE DEF q
  <2>4. \A p \in from : p = q
    <3> SUFFICES ASSUME NEW p \in from PROVE p = q
      OBVIOUS
    <3>1. p \in EqualsIn(text) /\ p \in Nat /\ q \in Nat /\ 1 <= q
      BY <1>2, <2>1
    <3>2. q <= p
      BY <2>1, <3>1
    <3>3. ~(q \in 1 .. p - 1)
      BY <1>2, <2>1
    <3> QED
      BY <3>1, <3>2, <3>3
  <2>5. q \in from <=> key \in NamesBefore(text, q)
    <3>1. \A j \in 1 .. q - 1 : text[j] # Equals
      <4> SUFFICES ASSUME NEW j \in 1 .. q - 1, text[j] = Equals PROVE FALSE
        OBVIOUS
      <4>1. j \in EqualsIn(text)
        BY <1>2, <2>1
      <4> QED
        BY <1>2, <2>1, <4>1
    <3> QED
      BY <1>2, <2>1, <3>1
  <2> HIDE DEF from
  <2>6. CASE KeyOf(text) = key
    <3>1. from = {q}
      BY <2>3, <2>4, <2>5, <2>6
    <3> QED
      BY <1>1, <1>4, <2>2, <2>6, <3>1
  <2>7. CASE KeyOf(text) # key
    <3>1. from = {}
      BY <2>3, <2>4, <2>5, <2>7
    <3> QED
      BY <1>1, <2>7, <3>1
  <2> QED
    BY <2>6, <2>7
<1> QED
  BY <1>3, <1>4

----------------------------------------------------------------------------
(* Key/value pairs.                                                        *)

\* The text that pairs kv give a key, as a set.
Has(kv, key) == IF key \in DOMAIN kv THEN {kv[key]} ELSE {}

LEMMA NoPairsHave == \A key : Has(NoPairs, key) = {}
BY DEF NoPairs, Has

LEMMA AtopHas ==
    ASSUME NEW top, NEW base, NEW key
    PROVE  /\ Has(Atop(top, base), key) = IF Has(top, key) # {} THEN Has(top, key)
                                          ELSE Has(base, key)
           /\ key \in DOMAIN Atop(top, base) <=> key \in DOMAIN top \cup DOMAIN base
BY DEF Atop, Has

LEMMA PairHas ==
    ASSUME NEW k, NEW value, NEW key
    PROVE  Has(Pair(k, value), key) = IF key = k THEN {value} ELSE {}
BY DEF Pair, Has

LEMMA WithPairHas ==
    ASSUME NEW S, NEW text \in Seq(S), NEW kv, NEW key, key # Nameless
    PROVE  Has(WithPair(kv, text), key) = IF AssignedIn(text, key) # {} THEN AssignedIn(text, key)
                                          ELSE Has(kv, key)
<1>1. AssignedIn(text, key) = IF EqualsIn(text) # {} /\ KeyOf(text) = key
                              THEN {ValueOf(text)} ELSE {}
  BY AssignmentIsRead
<1>2. CASE EqualsIn(text) = {} \/ KeyOf(text) = Nameless
  BY <1>1, <1>2 DEF WithPair
<1>3. CASE ~(EqualsIn(text) = {} \/ KeyOf(text) = Nameless)
  <2>1. WithPair(kv, text) = Atop(Pair(KeyOf(text), ValueOf(text)), kv)
    BY <1>3 DEF WithPair
  <2>2. Has(Pair(KeyOf(text), ValueOf(text)), key)
           = IF key = KeyOf(text) THEN {ValueOf(text)} ELSE {}
    BY PairHas
  <2> QED
    BY <1>1, <1>3, <2>1, <2>2, AtopHas
<1> QED
  BY <1>2, <1>3

----------------------------------------------------------------------------
(* What the readers read is what the texts give.                           *)

\* Where each step takes over what it is given, the last decides.
LEMMA LastWins ==
    ASSUME NEW n \in Nat, NEW read, NEW values, DOMAIN values \subseteq 1 .. n, read[0] = {},
           \A i \in 1 .. n : read[i] = IF i \in DOMAIN values /\ values[i] # {} THEN values[i]
                                       ELSE read[i - 1]
    PROVE  read[n] = LastOf(values)
<1> DEFINE given(k) == {i \in DOMAIN values : values[i] # {} /\ i <= k}
           last(k)  == IF given(k) = {} THEN {} ELSE values[Greatest(given(k))]
           s        == {k \in 0 .. n : read[k] = last(k)}
<1>1. 0 \in s
  <2>1. given(0) = {}
    OBVIOUS
  <2> QED
    BY <2>1
<1>2. ASSUME NEW k \in 0 .. n - 1, k \in s
      PROVE  k + 1 \in s
  <2>1. PICK h : h = k + 1
    OBVIOUS
  <2>2. h \in 1 .. n /\ h \in 0 .. n /\ h - 1 = k
    BY <2>1
  <2>3. given(h) \in SUBSET (0 .. n)
    OBVIOUS
  <2>4. CASE h \in DOMAIN values /\ values[h] # {}
    <3>1. read[h] = values[h]
      BY <2>2, <2>4
    <3>2. h \in given(h) /\ \A j \in given(h) : j <= h
      BY <2>2, <2>4
    <3> HIDE DEF given
    <3>3. Greatest(given(h)) = h
      BY <2>3, <3>2, GreatestOf
    <3>4. last(h) = values[h]
      BY <3>2, <3>3
    <3> QED
      BY <2>1, <2>2, <3>1, <3>4
  <2>5. CASE ~(h \in DOMAIN values /\ values[h] # {})
    <3>1. read[h] = read[k]
      BY <2>2, <2>5
    <3>2. given(h) = given(k)
      BY <2>1, <2>2, <2>5
    <3>3. last(h) = last(k) /\ read[k] = last(k)
      BY <1>2, <3>2
    <3> HIDE DEF last
    <3> QED
      BY <2>1, <2>2, <3>1, <3>3
  <2> QED
    BY <2>4, <2>5
<1>3. \A k \in 0 .. n : k \in s
  <2> HIDE DEF s
  <2> QED
    BY <1>1, <1>2, UpTo
<1>4. given(n) = {i \in DOMAIN values : values[i] # {}}
  OBVIOUS
<1>5. read[n] = last(n)
  <2>1. n \in 0 .. n
    OBVIOUS
  <2>2. n \in s
    BY <1>3, <2>1
  <2> HIDE DEF last
  <2> QED
    BY <2>2
<1> HIDE DEF given
<1> QED
  BY <1>4, <1>5 DEF LastOf

LEMMA PairsGrow ==
    ASSUME NEW lines, NEW n \in Nat, n = Len(lines)
    PROVE  /\ PairsUpTo(lines)[0] = NoPairs
           /\ \A k \in 1 .. n : PairsUpTo(lines)[k] = WithPair(PairsUpTo(lines)[k - 1],
                                                               StripComment(lines[k]))
<1> DEFINE body(f, k)  == IF k = 0 THEN NoPairs
                          ELSE WithPair(f[k - 1], StripComment(lines[k]))
           is(f, m)    == f = [k \in 0 .. m |-> body(f, k)]
           s           == {m \in 0 .. n : \E f : is(f, m)}
<1>1. PairsUpTo(lines) = CHOOSE f : is(f, n)
  BY DEF PairsUpTo
<1>2. 0 \in s
  <2> DEFINE f == [k \in 0 .. 0 |-> NoPairs]
  <2>1. is(f, 0)
    OBVIOUS
  <2>2. \E g : is(g, 0)
    <3> HIDE DEF f, is
    <3> QED
      BY <2>1
  <2> HIDE DEF is
  <2> QED
    BY <2>2
<1>3. ASSUME NEW m \in 0 .. n - 1, m \in s
      PROVE  m + 1 \in s
  <2>1. PICK f : is(f, m)
    BY <1>3
  <2> DEFINE g == [k \in 0 .. m + 1 |-> IF k = m + 1 THEN body(f, m + 1) ELSE f[k]]
  <2>2. ASSUME NEW k \in 0 .. m + 1 PROVE g[k] = body(g, k)
    <3>1. CASE k = 0
      BY <2>1, <3>1
    <3>2. CASE k \in 1 .. m + 1
      <4>1. g[k - 1] = f[k - 1]
        BY <3>2
      <4>2. k - 1 \in 0 .. m /\ k # 0
        BY <3>2
      <4>3. CASE k = m + 1
        BY <4>2, <4>3
      <4>4. CASE k # m + 1
        <5>1. k \in 0 .. m /\ g[k] = f[k]
          BY <3>2, <4>4
        <5>2. f[k] = body(f, k)
          <6> HIDE DEF body
          <6> QED
            BY <2>1, <5>1
        <5> QED
          BY <4>1, <4>2, <5>1, <5>2
      <4> QED
        BY <4>3, <4>4
    <3> QED
      BY <3>1, <3>2
  <2>3. is(g, m + 1)
    <3> HIDE DEF body
    <3> QED
      BY <2>2
  <2>4. \E h : is(h, m + 1)
    <3> HIDE DEF g, is
    <3> QED
      BY <2>3
  <2> HIDE DEF is
  <2> QED
    BY <2>4
<1>4. n \in s
  <2> HIDE DEF s
  <2>1. \A k \in 0 .. n : k \in s
    BY <1>2, <1>3, UpTo
  <2> QED
    BY <2>1
<1>5. is(PairsUpTo(lines), n)
  <2>1. \E f : is(f, n)
    BY <1>4
  <2> HIDE DEF is
  <2> QED
    BY <1>1, <2>1
<1> HIDE DEF body
<1>6. \A k \in 0 .. n : PairsUpTo(lines)[k] = body(PairsUpTo(lines), k)
  BY <1>5
<1> QED
  BY <1>6 DEF body

LEMMA LevelsGrow ==
    ASSUME NEW text, NEW n \in Nat, n = Len(text) + 1
    PROVE  /\ LevelsUpTo(text)[0] = NoPairs
           /\ \A k \in 1 .. n :
                 LevelsUpTo(text)[k] = IF k \in Ends(text)
                                       THEN WithLevel(LevelsUpTo(text)[k - 1], PartAt(text, k))
                                       ELSE LevelsUpTo(text)[k - 1]
<1> DEFINE body(f, k)  == IF k = 0 THEN NoPairs
                          ELSE IF k \in Ends(text) THEN WithLevel(f[k - 1], PartAt(text, k))
                          ELSE f[k - 1]
           is(f, m)    == f = [k \in 0 .. m |-> body(f, k)]
           s           == {m \in 0 .. n : \E f : is(f, m)}
<1>1. LevelsUpTo(text) = CHOOSE f : is(f, n)
  BY DEF LevelsUpTo
<1>2. 0 \in s
  <2> DEFINE f == [k \in 0 .. 0 |-> NoPairs]
  <2>1. is(f, 0)
    OBVIOUS
  <2>2. \E g : is(g, 0)
    <3> HIDE DEF f, is
    <3> QED
      BY <2>1
  <2> HIDE DEF is
  <2> QED
    BY <2>2
<1>3. ASSUME NEW m \in 0 .. n - 1, m \in s
      PROVE  m + 1 \in s
  <2>1. PICK f : is(f, m)
    BY <1>3
  <2> DEFINE g == [k \in 0 .. m + 1 |-> IF k = m + 1 THEN body(f, m + 1) ELSE f[k]]
  <2>2. ASSUME NEW k \in 0 .. m + 1 PROVE g[k] = body(g, k)
    <3>1. CASE k = 0
      BY <2>1, <3>1
    <3>2. CASE k \in 1 .. m + 1
      <4>1. g[k - 1] = f[k - 1]
        BY <3>2
      <4>2. k - 1 \in 0 .. m /\ k # 0
        BY <3>2
      <4>3. CASE k = m + 1
        BY <4>2, <4>3
      <4>4. CASE k # m + 1
        <5>1. k \in 0 .. m /\ g[k] = f[k]
          BY <3>2, <4>4
        <5>2. f[k] = body(f, k)
          <6> HIDE DEF body
          <6> QED
            BY <2>1, <5>1
        <5> QED
          BY <4>1, <4>2, <5>1, <5>2
      <4> QED
        BY <4>3, <4>4
    <3> QED
      BY <3>1, <3>2
  <2>3. is(g, m + 1)
    <3> HIDE DEF body
    <3> QED
      BY <2>2
  <2>4. \E h : is(h, m + 1)
    <3> HIDE DEF g, is
    <3> QED
      BY <2>3
  <2> HIDE DEF is
  <2> QED
    BY <2>4
<1>4. n \in s
  <2> HIDE DEF s
  <2>1. \A k \in 0 .. n : k \in s
    BY <1>2, <1>3, UpTo
  <2> QED
    BY <2>1
<1>5. is(LevelsUpTo(text), n)
  <2>1. \E f : is(f, n)
    BY <1>4
  <2> HIDE DEF is
  <2> QED
    BY <1>1, <2>1
<1> HIDE DEF body
<1>6. \A k \in 0 .. n : LevelsUpTo(text)[k] = body(LevelsUpTo(text), k)
  BY <1>5
<1> QED
  BY <1>6 DEF body

LEMMA FileIsRead ==
    ASSUME NEW S, NEW f, f.lines \in Seq(Seq(S)), NEW key, key # Nameless
    PROVE  Has(ReadConfigFile(f), key) = FileText(f, key)
<1> DEFINE lines  == f.lines
           n      == Len(lines)
           values == [i \in DOMAIN lines |-> AssignedBy(lines[i], key)]
           read   == [k \in 0 .. n |-> Has(PairsUpTo(lines)[k], key)]
<1>0. n \in Nat /\ DOMAIN lines = 1 .. n
  OBVIOUS
<1>1. CASE ~f.opens
  BY <1>1, NoPairsHave DEF ReadConfigFile, FileText
<1>2. CASE f.opens
  <2>1. /\ PairsUpTo(lines)[0] = NoPairs
        /\ \A k \in 1 .. n : PairsUpTo(lines)[k] = WithPair(PairsUpTo(lines)[k - 1],
                                                            StripComment(lines[k]))
    BY <1>0, PairsGrow
  <2>2. read[0] = {}
    BY <1>0, <2>1, NoPairsHave
  <2>3. ASSUME NEW i \in 1 .. n
        PROVE  read[i] = IF i \in DOMAIN values /\ values[i] # {} THEN values[i] ELSE read[i - 1]
    <3>1. lines[i] \in Seq(S)
      BY <1>0
    <3>2. PICK body : body = StripComment(lines[i])
      OBVIOUS
    <3>3. body \in Seq(S) /\ Uncommented(lines[i]) = {body}
      BY <3>1, <3>2, CommentIsStripped
    <3>4. values[i] = AssignedIn(body, key)
      BY <1>0, <3>3 DEF AssignedBy
    <3>5. Has(WithPair(PairsUpTo(lines)[i - 1], body), key)
             = IF AssignedIn(body, key) # {} THEN AssignedIn(body, key)
               ELSE Has(PairsUpTo(lines)[i - 1], key)
      BY <3>3, WithPairHas
    <3>6. i \in 0 .. n /\ i - 1 \in 0 .. n /\ i \in DOMAIN values
      BY <1>0
    <3>7. /\ read[i] = Has(PairsUpTo(lines)[i], key)
          /\ read[i - 1] = Has(PairsUpTo(lines)[i - 1], key)
      BY <3>6
    <3> HIDE DEF read, values
    <3> QED
      BY <2>1, <3>2, <3>4, <3>5, <3>6, <3>7
  <2>4. DOMAIN values \subseteq 1 .. n
    BY <1>0
  <2>5. read[n] = LastOf(values)
    <3> HIDE DEF read, values
    <3> QED
      BY <1>0, <2>2, <2>3, <2>4, LastWins
  <2>6. read[n] = Has(ReadConfigFile(f), key)
    BY <1>0, <1>2 DEF ReadConfigFile
  <2> QED
    BY <1>2, <2>5, <2>6 DEF FileText
<1> QED
  BY <1>1, <1>2

\* The part before an end of a list starts after the end before it.
Before(text, i) == Greatest({0} \cup {j \in Ends(text) : j < i})

LEMMA BeforeIs ==
    ASSUME NEW S, NEW text \in Seq(S), NEW i \in Ends(text)
    PROVE  /\ i \in 1 .. Len(text) + 1
           /\ Before(text, i) \in 0 .. i - 1
           /\ Before(text, i) # 0 => Before(text, i) \in Ends(text)
           /\ \A j \in Ends(text) : j < i => j <= Before(text, i)
<1> DEFINE n == Len(text)
           s == {0} \cup {j \in Ends(text) : j < i}
<1>1. n \in Nat /\ Ends(text) \subseteq 1 .. n + 1
  BY DEF Ends
<1>2. i \in 1 .. n + 1 /\ i \in Nat
  BY <1>1
<1>3. s \in SUBSET (0 .. i) /\ s # {}
  BY <1>1, <1>2
<1>4. \A j : j \in s <=> j = 0 \/ (j \in Ends(text) /\ j < i)
  OBVIOUS
<1>5. Before(text, i) = Greatest(s)
  BY DEF Before
<1> HIDE DEF s
<1>6. Greatest(s) \in s /\ \A j \in s : j <= Greatest(s)
  BY <1>2, <1>3, GreatestIs
<1> QED
  BY <1>1, <1>2, <1>4, <1>5, <1>6

LEMMA PartOfList ==
    ASSUME NEW S, NEW text \in Seq(S), NEW i \in Ends(text)
    PROVE  /\ PartAt(text, i) \in Seq(S)
           /\ PartAt(text, i) = <<>> <=> Said(text, Before(text, i) + 1, i - 1) = {}
           /\ \A k : Said(text, Before(text, i) + 1, i - 1) = {k} => PartAt(text, i) = <<text[k]>>
           /\ \A k, j \in Said(text, Before(text, i) + 1, i - 1) :
                 k # j => Len(PartAt(text, i)) > 1
<1>1. PICK b : b = Before(text, i)
  OBVIOUS
<1>2. PartAt(text, i) = Trim(SubSeq(text, b + 1, i - 1))
  BY <1>1 DEF PartAt, Before
<1>3. i \in 1 .. Len(text) + 1 /\ b \in 0 .. i - 1
  BY <1>1, BeforeIs
<1>4. b + 1 \in Nat /\ i - 1 \in Nat /\ 1 <= b + 1 /\ b + 1 <= i - 1 + 1 /\ i - 1 <= Len(text)
  BY <1>3
<1> QED
  BY <1>1, <1>2, <1>4, TrimPart

LEMMA WithLevelHas ==
    ASSUME NEW S, NEW part \in Seq(S), NEW kv, NEW key, key # Nameless
    PROVE  Has(WithLevel(kv, part), key)
              = IF EqualsIn(part) # {}
                THEN IF AssignedIn(part, key) # {} THEN AssignedIn(part, key) ELSE Has(kv, key)
                ELSE IF Has(kv, key) # {} \/ part = <<>> \/ key # "verbosity"
                     THEN Has(kv, key) ELSE {part}
<1>1. AssignedIn(part, key) = IF EqualsIn(part) # {} /\ KeyOf(part) = key
                              THEN {ValueOf(part)} ELSE {}
  BY AssignmentIsRead
<1>2. CASE part = <<>>
  <2>1. EqualsIn(part) = {}
    BY <1>2 DEF EqualsIn
  <2>2. WithLevel(kv, part) = kv
    BY <1>2 DEF WithLevel
  <2> QED
    BY <1>2, <2>1, <2>2
<1>3. CASE part # <<>> /\ EqualsIn(part) = {}
  <2>1. WithLevel(kv, part) = Atop(kv, Pair("verbosity", part))
    BY <1>3 DEF WithLevel
  <2>2. Has(Pair("verbosity", part), key) = IF key = "verbosity" THEN {part} ELSE {}
    BY PairHas
  <2>3. Has(WithLevel(kv, part), key) = IF Has(kv, key) # {} THEN Has(kv, key)
                                        ELSE Has(Pair("verbosity", part), key)
    BY <2>1, AtopHas
  <2>4. CASE Has(kv, key) # {}
    BY <1>3, <2>3, <2>4
  <2>5. CASE Has(kv, key) = {}
    BY <1>3, <2>2, <2>3, <2>5
  <2> QED
    BY <2>4, <2>5
<1>4. CASE part # <<>> /\ EqualsIn(part) # {}
  <2>1. WithLevel(kv, part) = Atop(Pair(KeyOf(part), ValueOf(part)), kv)
    BY <1>4 DEF WithLevel
  <2>2. Has(Pair(KeyOf(part), ValueOf(part)), key)
           = IF key = KeyOf(part) THEN {ValueOf(part)} ELSE {}
    BY PairHas
  <2>3. Has(WithLevel(kv, part), key)
           = IF key = KeyOf(part) THEN {ValueOf(part)} ELSE Has(kv, key)
    <3>1. PICK own : own = Pair(KeyOf(part), ValueOf(part))
      OBVIOUS
    <3>2. Has(Atop(own, kv), key) = IF Has(own, key) # {} THEN Has(own, key) ELSE Has(kv, key)
      BY AtopHas
    <3>3. CASE key = KeyOf(part)
      BY <2>1, <2>2, <3>1, <3>2, <3>3
    <3>4. CASE key # KeyOf(part)
      BY <2>1, <2>2, <3>1, <3>2, <3>4
    <3> QED
      BY <3>3, <3>4
  <2>4. AssignedIn(part, key) = IF key = KeyOf(part) THEN {ValueOf(part)} ELSE {}
    BY <1>1, <1>4
  <2>5. CASE key = KeyOf(part)
    BY <1>4, <2>3, <2>4, <2>5
  <2>6. CASE key # KeyOf(part)
    BY <1>4, <2>3, <2>4, <2>6
  <2> QED
    BY <2>5, <2>6
<1> QED
  BY <1>2, <1>3, <1>4

\* What SLOG_VERBOSITY gives a key.
LevelsSay(text, key) ==
    IF key = "verbosity"
    THEN {PartAt(text, i) : i \in {j \in Bare(text) : \A k \in Bare(text) : j <= k}}
    ELSE LastOf([i \in Ends(text) |-> AssignedIn(PartAt(text, i), key)])

LEMMA LevelsAreRead ==
    ASSUME NEW S, NEW text \in Seq(S), NEW key, key # Nameless,
           \A i \in Ends(text) : EqualsIn(PartAt(text, i)) # {} => KeyOf(PartAt(text, i)) # "verbosity"
    PROVE  Has(ReadLevels(text), key) = LevelsSay(text, key)
<1> DEFINE n      == Len(text) + 1
           values == [i \in Ends(text) |-> AssignedIn(PartAt(text, i), key)]
           read   == [k \in 0 .. n |-> Has(LevelsUpTo(text)[k], key)]
<1>0. n \in Nat /\ Ends(text) \subseteq 1 .. n
  BY DEF Ends
<1>1. /\ LevelsUpTo(text)[0] = NoPairs
      /\ \A k \in 1 .. n :
            LevelsUpTo(text)[k] = IF k \in Ends(text)
                                  THEN WithLevel(LevelsUpTo(text)[k - 1], PartAt(text, k))
                                  ELSE LevelsUpTo(text)[k - 1]
  BY <1>0, LevelsGrow
<1>2. read[0] = {}
  BY <1>0, <1>1, NoPairsHave
<1>3. read[n] = Has(ReadLevels(text), key)
  BY <1>0 DEF ReadLevels
<1>4. ASSUME NEW k \in 1 .. n
      PROVE  /\ read[k] = IF k \in Ends(text)
                          THEN Has(WithLevel(LevelsUpTo(text)[k - 1], PartAt(text, k)), key)
                          ELSE read[k - 1]
             /\ read[k - 1] = Has(LevelsUpTo(text)[k - 1], key)
  <2>1. k \in 0 .. n /\ k - 1 \in 0 .. n
    BY <1>0
  <2> QED
    BY <1>1, <2>1
<1> HIDE DEF read
<1>5. CASE key # "verbosity"
  <2>1. ASSUME NEW i \in 1 .. n
        PROVE  read[i] = IF i \in DOMAIN values /\ values[i] # {} THEN values[i] ELSE read[i - 1]
    <3>1. CASE i \in Ends(text)
      <4>1. PartAt(text, i) \in Seq(S)
        BY <3>1, PartOfList
      <4>2. PICK kv, part : kv = LevelsUpTo(text)[i - 1] /\ part = PartAt(text, i)
        OBVIOUS
      <4>3. Has(WithLevel(kv, part), key) = IF AssignedIn(part, key) # {}
                                            THEN AssignedIn(part, key) ELSE Has(kv, key)
        <5>1. EqualsIn(part) = {} => AssignedIn(part, key) = {}
          BY <4>1, <4>2, AssignmentIsRead
        <5> QED
          BY <1>5, <4>1, <4>2, <5>1, WithLevelHas
      <4>4. values[i] = AssignedIn(part, key) /\ i \in DOMAIN values
        BY <3>1, <4>2
      <4> HIDE DEF values
      <4> QED
        BY <1>4, <3>1, <4>2, <4>3, <4>4
    <3>2. CASE i \notin Ends(text)
      BY <1>4, <3>2
    <3> QED
      BY <3>1, <3>2
  <2>2. DOMAIN values \subseteq 1 .. n
    BY <1>0
  <2>3. LevelsSay(text, key) = LastOf(values)
    BY <1>5 DEF LevelsSay
  <2> HIDE DEF values
  <2> QED
    BY <1>0, <1>2, <1>3, <2>1, <2>2, <2>3, LastWins
<1>6. CASE key = "verbosity"
  <2> DEFINE bare     == Bare(text)
             early(k) == {i \in bare : i <= k /\ \A j \in bare : i <= j}
             first(k) == {PartAt(text, i) : i \in early(k)}
             s        == {k \in 0 .. n : read[k] = first(k)}
  <2>0. bare \subseteq 1 .. n
    BY <1>0 DEF Bare
  <2>1. 0 \in s
    <3>1. early(0) = {}
      BY <2>0
    <3> QED
      BY <1>0, <1>2, <3>1
  <2>2. ASSUME NEW k \in 0 .. n - 1, k \in s
        PROVE  k + 1 \in s
    <3>1. PICK h : h = k + 1
      OBVIOUS
    <3>2. h \in 1 .. n /\ h \in 0 .. n /\ h - 1 = k
      BY <3>1
    <3>3. read[k] = first(k)
      BY <2>2
    <3>4. first(k) = {} <=> early(k) = {}
      OBVIOUS
    <3>5. read[h] = IF read[k] # {} THEN read[k] ELSE IF h \in bare THEN {PartAt(text, h)} ELSE {}
      <4>1. CASE h \in Ends(text)
        <5>1. PartAt(text, h) \in Seq(S)
          BY <4>1, PartOfList
        <5>2. PICK kv, part : kv = LevelsUpTo(text)[h - 1] /\ part = PartAt(text, h)
          OBVIOUS
        <5>3. EqualsIn(part) # {} => KeyOf(part) # key
          BY <1>6, <4>1, <5>2
        <5>4. Has(WithLevel(kv, part), key) = IF Has(kv, key) # {} THEN Has(kv, key)
                                              ELSE IF part # <<>> /\ EqualsIn(part) = {}
                                              THEN {part} ELSE {}
          <6>1. AssignedIn(part, key) = {}
            BY <5>1, <5>2, <5>3, AssignmentIsRead
          <6>2. Has(WithLevel(kv, part), key)
                   = IF EqualsIn(part) # {}
                     THEN IF AssignedIn(part, key) # {} THEN AssignedIn(part, key)
                          ELSE Has(kv, key)
                     ELSE IF Has(kv, key) # {} \/ part = <<>> \/ key # "verbosity"
                          THEN Has(kv, key) ELSE {part}
            <7>1. part \in Seq(S) /\ key # Nameless
              BY <5>1, <5>2
            <7> QED
              BY <7>1, WithLevelHas, Zenon
          <6>3. CASE Has(kv, key) = {}
            BY <1>6, <6>1, <6>2, <6>3
          <6>4. CASE Has(kv, key) # {}
            BY <6>1, <6>2, <6>4
          <6> QED
            BY <6>3, <6>4
        <5>5. h \in bare <=> part # <<>> /\ EqualsIn(part) = {}
          BY <4>1, <5>2 DEF Bare
        <5>6. read[h] = Has(WithLevel(kv, part), key) /\ read[k] = Has(kv, key)
          BY <1>4, <3>2, <4>1, <5>2
        <5> HIDE DEF bare
        <5> QED
          BY <5>2, <5>4, <5>5, <5>6
      <4>2. CASE h \notin Ends(text)
        <5>1. h \notin bare
          BY <4>2 DEF Bare
        <5>2. read[h] = read[k]
          BY <1>4, <3>2, <4>2
        <5> HIDE DEF bare
        <5> QED
          BY <5>1, <5>2
      <4> QED
        BY <4>1, <4>2
    <3>6. CASE early(k) # {}
      <4>1. PICK i \in early(k) : TRUE
        BY <3>6
      <4>2. \A j \in bare : i <= j
        BY <4>1
      <4>3. early(h) = early(k)
        <5>1. \A j \in early(h) : j = i
          BY <2>0, <3>2, <4>1
        <5>2. i \in early(h) /\ \A j \in early(k) : j = i
          BY <2>0, <3>2, <4>1
        <5> QED
          BY <4>1, <5>1, <5>2
      <4>4. first(h) = first(k) /\ first(k) # {}
        BY <3>6, <4>3
      <4>5. read[h] = first(h)
        <5> HIDE DEF first
        <5> QED
          BY <3>3, <3>5, <4>4
      <4> HIDE DEF first
      <4> QED
        BY <3>1, <3>2, <4>5
    <3>7. CASE early(k) = {}
      <4>1. \A i \in bare : ~(i <= k)
        <5> SUFFICES ASSUME NEW i \in bare, i <= k PROVE FALSE
          OBVIOUS
        <5>1. bare \in SUBSET Nat /\ bare # {}
          BY <2>0
        <5>2. Least(bare) \in bare /\ \A j \in bare : Least(bare) <= j
          <6> HIDE DEF bare
          <6> QED
            BY <5>1, LeastIs
        <5>3. Least(bare) <= k
          BY <2>0, <5>2
        <5> QED
          BY <3>7, <5>2, <5>3
      <4>2. CASE h \in bare
        <5>1. early(h) = {h}
          BY <2>0, <3>2, <4>1, <4>2
        <5>2. first(h) = {PartAt(text, h)}
          BY <5>1
        <5>3. read[h] = {PartAt(text, h)}
          BY <3>3, <3>4, <3>5, <3>7, <4>2
        <5> QED
          BY <3>1, <3>2, <5>2, <5>3
      <4>3. CASE h \notin bare
        <5>1. early(h) = {}
          BY <2>0, <3>2, <4>1, <4>3
        <5>2. first(h) = {}
          BY <5>1
        <5>3. read[h] = {}
          BY <3>3, <3>4, <3>5, <3>7, <4>3
        <5> QED
          BY <3>1, <3>2, <5>2, <5>3
      <4> QED
        BY <4>2, <4>3
    <3> QED
      BY <3>6, <3>7
  <2>3. \A k \in 0 .. n : k \in s
    <3> HIDE DEF s
    <3> QED
      BY <1>0, <2>1, <2>2, UpTo
  <2>4. read[n] = first(n)
    <3>1. n \in 0 .. n
      BY <1>0
    <3> QED
      BY <2>3, <3>1
  <2>5. early(n) = {i \in bare : \A j \in bare : i <= j}
    BY <2>0
  <2>6. LevelsSay(text, key) = {PartAt(text, i) : i \in {j \in Bare(text) : \A k \in Bare(text) : j <= k}}
    BY <1>6 DEF LevelsSay
  <2> HIDE DEF early
  <2>7. first(n) = LevelsSay(text, key)
    BY <2>5, <2>6
  <2> HIDE DEF first
  <2> QED
    BY <1>3, <2>4, <2>7
<1> QED
  BY <1>5, <1>6

Variables == {"SLOG_DISABLE", "SLOG_DIR", "SLOG_TAG", "SLOG_FILE", "SLOG_FILE_PER_MODULE",
              "SLOG_FILE_NAME", "SLOG_STDOUT", "SLOG_STDOUT_ONLY", "SLOG_STDOUT_MODULES",
              "SLOG_FORMAT", "SLOG_TIME", "SLOG_ELAPSED", "SLOG_COLOR", "SLOG_FLUSH",
              "SLOG_RETAIN_RUNS", "SLOG_RETAIN_DAYS"}

\* Each variable has a key of its own, and none is the level or that of a module.
LEMMA VariablesHaveKeys ==
    /\ DOMAIN KeyOfVariable = Variables
    /\ \A v \in Variables : KeyOfVariable[v] \in Keys /\ KeyOfVariable[v] # "verbosity"
                            /\ KeyOfVariable[v] \notin Modules
    /\ \A v, w \in Variables : KeyOfVariable[v] = KeyOfVariable[w] => v = w
<1>1. DOMAIN KeyOfVariable = Variables
  BY DEF KeyOfVariable, Variables
<1>2. ASSUME NEW v \in Variables
      PROVE  KeyOfVariable[v] \in SwitchKeys \cup OutputKeys \cup PlainKeys \cup {"flush"}
  BY DEF KeyOfVariable, Variables, SwitchKeys, OutputKeys, PlainKeys
<1>3. "verbosity" \notin SwitchKeys \cup OutputKeys \cup PlainKeys \cup {"flush"}
  BY DEF SwitchKeys, OutputKeys, PlainKeys
<1>4. SwitchKeys \cup OutputKeys \cup PlainKeys \cup {"flush"} \subseteq Keys \ Modules
  BY ModulesAssumption DEF Keys, LevelKeys
<1>5. ASSUME NEW v \in Variables, NEW w \in Variables, KeyOfVariable[v] = KeyOfVariable[w]
      PROVE  v = w
  BY <1>5 DEF KeyOfVariable, Variables
<1> QED
  BY <1>1, <1>2, <1>3, <1>4, <1>5

\* The environments of the assumption, and no environment.
Readable(e) ==
    /\ e \in [DOMAIN e -> Seq(Alphabet)]
    /\ "SLOG_VERBOSITY" \in DOMAIN e =>
          \A i \in Ends(e["SLOG_VERBOSITY"]) :
             EqualsIn(PartAt(e["SLOG_VERBOSITY"], i)) # {} =>
                KeyOf(PartAt(e["SLOG_VERBOSITY"], i)) \in Modules

LEMMA EnvsAreReadable == \A e \in Envs \cup {NoPairs} : Readable(e)
<1>1. \A e \in Envs : Readable(e)
  BY TextsAssumption DEF Readable
<1>2. Readable(NoPairs)
  BY DEF Readable, NoPairs
<1> QED
  BY <1>1, <1>2

Named(e, key) ==
    {e[v] : v \in {w \in DOMAIN e \cap DOMAIN KeyOfVariable : KeyOfVariable[w] = key}}

LEMMA EmptyTextSays == \A key : key # Nameless => LevelsSay(<<>>, key) = {}
<1> SUFFICES ASSUME NEW key, key # Nameless PROVE LevelsSay(<<>>, key) = {}
  OBVIOUS
<1> DEFINE none == <<>>
<1>0. PICK S : S = {0}
  OBVIOUS
<1>1. none \in Seq(S) /\ Len(none) = 0
  OBVIOUS
<1>2. ASSUME NEW i \in Ends(none) PROVE PartAt(none, i) = <<>>
  <2>1. i \in 1 .. 1 /\ Before(none, i) \in 0 .. i - 1
    <3> HIDE DEF none
    <3>1. i \in 1 .. Len(none) + 1 /\ Before(none, i) \in 0 .. i - 1
      BY <1>1, BeforeIs
    <3> QED
      BY <1>1, <3>1
  <2>2. Said(none, Before(none, i) + 1, i - 1) = {}
    BY <2>1 DEF Said
  <2>3. none \in Seq(S)
    BY <1>1
  <2> HIDE DEF none
  <2> QED
    BY <2>2, <2>3, PartOfList
<1>3. EqualsIn(none) = {}
  BY DEF EqualsIn
<1>4. AssignedIn(none, key) = {}
  <2> HIDE DEF none
  <2> QED
    BY <1>1, <1>3, AssignmentIsRead
<1>5. Bare(none) = {}
  BY <1>2 DEF Bare
<1> DEFINE values == [i \in Ends(none) |-> AssignedIn(PartAt(none, i), key)]
<1>6. {i \in DOMAIN values : values[i] # {}} = {}
  BY <1>2, <1>4
<1> HIDE DEF values
<1>7. LastOf(values) = {}
  BY <1>6 DEF LastOf
<1>8. LevelsSay(none, key) = {}
  <2> HIDE DEF none
  <2> QED
    BY <1>5, <1>7 DEF LevelsSay, values
<1> QED
  BY <1>8

LEMMA EnvIsRead ==
    ASSUME NEW e, Readable(e), NEW key, key # Nameless, key # "color"
    PROVE  Has(ReadEnv(e), key) = EnvText(e, key)
<1> DEFINE variables == DOMAIN e \cap DOMAIN KeyOfVariable
           named     == [k \in {KeyOfVariable[v] : v \in variables} |->
                            e[CHOOSE v \in variables : KeyOfVariable[v] = k]]
           noColor   == IF "NO_COLOR" \in DOMAIN e THEN Pair("color", <<Word("never")>>) ELSE NoPairs
           levels    == IF "SLOG_VERBOSITY" \in DOMAIN e
                        THEN ReadLevels(e["SLOG_VERBOSITY"]) ELSE NoPairs
           text      == Verbosity(e)
<1>1. ReadEnv(e) = Atop(named, Atop(noColor, levels))
  BY DEF ReadEnv
<1>2. Has(named, key) = Named(e, key)
  <2>1. CASE \E v \in variables : KeyOfVariable[v] = key
    <3>1. PICK v \in variables : KeyOfVariable[v] = key
      BY <2>1
    <3>2. \A w \in variables : KeyOfVariable[w] = key => w = v
      BY <3>1, VariablesHaveKeys
    <3>3. (CHOOSE w \in variables : KeyOfVariable[w] = key) = v
      BY <3>1, <3>2
    <3>4. key \in DOMAIN named /\ named[key] = e[v]
      BY <3>1, <3>3
    <3>5. {w \in variables : KeyOfVariable[w] = key} = {v}
      BY <3>1, <3>2
    <3> HIDE DEF variables, named
    <3> QED
      BY <3>4, <3>5 DEF Has, Named, variables
  <2>2. CASE ~\E v \in variables : KeyOfVariable[v] = key
    <3>1. key \notin DOMAIN named
      BY <2>2
    <3>2. {w \in variables : KeyOfVariable[w] = key} = {}
      BY <2>2
    <3> HIDE DEF named
    <3> QED
      BY <3>1, <3>2 DEF Has, Named
  <2> QED
    BY <2>1, <2>2
<1>3. Has(noColor, key) = {}
  BY PairHas, NoPairsHave
<1>4. Has(levels, key) = LevelsSay(text, key)
  <2>1. CASE "SLOG_VERBOSITY" \in DOMAIN e
    <3>1. text = e["SLOG_VERBOSITY"] /\ text \in Seq(Alphabet)
      BY <2>1 DEF Verbosity, Readable
    <3>2. ASSUME NEW i \in Ends(text), EqualsIn(PartAt(text, i)) # {}
          PROVE  KeyOf(PartAt(text, i)) # "verbosity"
      <4>1. KeyOf(PartAt(text, i)) \in Modules
        BY <2>1, <3>1, <3>2 DEF Readable
      <4>2. "verbosity" \notin Modules
        BY ModulesAssumption DEF LevelKeys
      <4> QED
        BY <4>1, <4>2
    <3>3. levels = ReadLevels(text)
      BY <2>1, <3>1
    <3> HIDE DEF text, levels
    <3> QED
      BY <3>1, <3>2, <3>3, LevelsAreRead
  <2>2. CASE "SLOG_VERBOSITY" \notin DOMAIN e
    <3>1. text = <<>>
      BY <2>2 DEF Verbosity
    <3> QED
      BY <2>2, <3>1, EmptyTextSays, NoPairsHave
  <2> QED
    BY <2>1, <2>2
<1>5. EnvText(e, key) = Named(e, key) \cup IF key \in {"verbosity"} \cup Modules
                                            THEN LevelsSay(text, key) ELSE {}
  <2>1. "verbosity" \notin Modules
    BY ModulesAssumption DEF LevelKeys
  <2>2. CASE key = "verbosity"
    BY <2>1, <2>2 DEF EnvText, Named, LevelsSay
  <2>3. CASE key # "verbosity"
    BY <2>3 DEF EnvText, Named, LevelsSay
  <2> QED
    BY <2>2, <2>3
<1>6. key \in {"verbosity"} \cup Modules => Named(e, key) = {}
  BY VariablesHaveKeys DEF Named
<1>7. key \notin {"verbosity"} \cup Modules => LevelsSay(text, key) = {}
  <2> SUFFICES ASSUME key \notin {"verbosity"} \cup Modules PROVE LevelsSay(text, key) = {}
    OBVIOUS
  <2>1. CASE "SLOG_VERBOSITY" \in DOMAIN e
    <3> DEFINE values == [i \in Ends(text) |-> AssignedIn(PartAt(text, i), key)]
    <3>1. text = e["SLOG_VERBOSITY"] /\ text \in Seq(Alphabet)
      BY <2>1 DEF Verbosity, Readable
    <3>2. ASSUME NEW i \in Ends(text) PROVE AssignedIn(PartAt(text, i), key) = {}
      <4>1. PartAt(text, i) \in Seq(Alphabet)
        <5> HIDE DEF text
        <5> QED
          BY <3>1, PartOfList
      <4>2. EqualsIn(PartAt(text, i)) # {} => KeyOf(PartAt(text, i)) # key
        BY <2>1, <3>1 DEF Readable
      <4> HIDE DEF text
      <4> QED
        BY <4>1, <4>2, AssignmentIsRead
    <3>3. {i \in DOMAIN values : values[i] # {}} = {}
      BY <3>2
    <3>4. LevelsSay(text, key) = LastOf(values)
      BY DEF LevelsSay
    <3> HIDE DEF values
    <3> QED
      BY <3>3, <3>4 DEF LastOf
  <2>2. CASE "SLOG_VERBOSITY" \notin DOMAIN e
    <3>1. text = <<>>
      BY <2>2 DEF Verbosity
    <3> QED
      BY <3>1, EmptyTextSays
  <2> QED
    BY <2>1, <2>2
<1> HIDE DEF named, noColor, levels, text
<1>8. Has(ReadEnv(e), key) = IF Named(e, key) # {} THEN Named(e, key) ELSE LevelsSay(text, key)
  <2>1. Has(Atop(noColor, levels), key) = LevelsSay(text, key)
    BY <1>3, <1>4, AtopHas
  <2> QED
    BY <1>1, <1>2, <2>1, AtopHas
<1> QED
  BY <1>5, <1>6, <1>7, <1>8

----------------------------------------------------------------------------
(* The rules of the documents, by source.                                  *)

LEMMA OneOfTexts ==
    ASSUME NEW s, NEW key, NEW texts, NEW g
    PROVE  g \in Texts(s, key, texts) <=> g = <<g[1], g[2], g[3]>> /\ g[1] = s /\ g[2] = key
                                         /\ g[3] \in texts
BY DEF Texts

LEMMA FileGivesIt ==
    ASSUME NEW f, NEW key \in Mentioned
    PROVE  Given(FileGives, f, key) = IF f \in Files THEN FileText(f, key) ELSE {}
<1>1. \A g : g \in FileGives <=> \E d \in Files, k \in Mentioned : g \in Texts(d, k, FileText(d, k))
  BY DEF FileGives
<1>2. ASSUME NEW text, f \in Files, text \in FileText(f, key)
      PROVE  text \in Given(FileGives, f, key)
  <2>1. PICK g : g = <<f, key, text>>
    OBVIOUS
  <2>2. g = <<g[1], g[2], g[3]>> /\ g[1] = f /\ g[2] = key /\ g[3] = text
    BY <2>1
  <2>3. g \in Texts(f, key, FileText(f, key))
    BY <1>2, <2>2, OneOfTexts
  <2>4. g \in FileGives
    BY <1>1, <1>2, <2>3
  <2> QED
    BY <2>2, <2>4 DEF Given
<1>3. ASSUME NEW text \in Given(FileGives, f, key)
      PROVE  f \in Files /\ text \in FileText(f, key)
  <2>1. PICK g \in FileGives : g[1] = f /\ g[2] = key /\ g[3] = text
    BY DEF Given
  <2>2. PICK d \in Files, k \in Mentioned : g \in Texts(d, k, FileText(d, k))
    BY <1>1
  <2>3. g[1] = d /\ g[2] = k /\ g[3] \in FileText(d, k)
    BY <2>2, OneOfTexts
  <2> QED
    BY <2>1, <2>3
<1> QED
  BY <1>2, <1>3

LEMMA EnvGivesIt ==
    ASSUME NEW e, NEW key \in Mentioned
    PROVE  Given(EnvGives, e, key) = IF e \in Envs THEN EnvText(e, key) ELSE {}
<1>1. \A g : g \in EnvGives <=> \E d \in Envs, k \in Mentioned : g \in Texts(d, k, EnvText(d, k))
  BY DEF EnvGives
<1>2. ASSUME NEW text, e \in Envs, text \in EnvText(e, key)
      PROVE  text \in Given(EnvGives, e, key)
  <2>1. PICK g : g = <<e, key, text>>
    OBVIOUS
  <2>2. g = <<g[1], g[2], g[3]>> /\ g[1] = e /\ g[2] = key /\ g[3] = text
    BY <2>1
  <2>3. g \in Texts(e, key, EnvText(e, key))
    BY <1>2, <2>2, OneOfTexts
  <2>4. g \in EnvGives
    BY <1>1, <1>2, <2>3
  <2> QED
    BY <2>2, <2>4 DEF Given
<1>3. ASSUME NEW text \in Given(EnvGives, e, key)
      PROVE  e \in Envs /\ text \in EnvText(e, key)
  <2>1. PICK g \in EnvGives : g[1] = e /\ g[2] = key /\ g[3] = text
    BY DEF Given
  <2>2. PICK d \in Envs, k \in Mentioned : g \in Texts(d, k, EnvText(d, k))
    BY <1>1
  <2>3. g[1] = d /\ g[2] = k /\ g[3] \in EnvText(d, k)
    BY <2>2, OneOfTexts
  <2> QED
    BY <2>1, <2>3
<1> QED
  BY <1>2, <1>3

\* The layers are what the sources of the moment are read as.
Sourced(s, l) ==
    /\ s = [file |-> s.file, env |-> s.env]
    /\ s.file \in Files \cup {NoText} /\ s.env \in Envs \cup {NoPairs}
    /\ l = [file |-> ReadConfigFile(s.file), env |-> ReadEnv(s.env), api |-> l.api]

LEMMA NothingIsRead ==
    /\ ReadConfigFile(NoText) = NoPairs
    /\ ReadEnv(NoPairs) = NoPairs
<1>1. ReadConfigFile(NoText) = NoPairs
  <2> DEFINE none == <<>>
  <2>1. Len(none) = 0 /\ 0 \in Nat
    OBVIOUS
  <2>2. NoText.opens /\ NoText.lines = none
    BY DEF NoText
  <2> HIDE DEF none
  <2>3. PairsUpTo(none)[0] = NoPairs
    BY <2>1, PairsGrow
  <2> QED
    BY <2>1, <2>2, <2>3 DEF ReadConfigFile
<1>2. ReadEnv(NoPairs) = NoPairs
  <2>1. DOMAIN NoPairs = {}
    BY DEF NoPairs
  <2>2. Atop(NoPairs, NoPairs) = NoPairs
    BY <2>1 DEF Atop, NoPairs
  <2> DEFINE vars1 == DOMAIN NoPairs \cap DOMAIN KeyOfVariable
             named == [key \in {KeyOfVariable[v] : v \in vars1} |->
                         NoPairs[CHOOSE v \in vars1 : KeyOfVariable[v] = key]]
  <2>3. DOMAIN named = {}
    BY <2>1
  <2>4. ReadEnv(NoPairs) = Atop(named, Atop(NoPairs, NoPairs))
    BY <2>1 DEF ReadEnv
  <2> HIDE DEF named
  <2> QED
    BY <2>1, <2>2, <2>3, <2>4 DEF Atop, NoPairs
<1> QED
  BY <1>1, <1>2

LEMMA FilesAreReadable ==
    \A f \in Files \cup {NoText} : f.lines \in Seq(Seq(Alphabet))
<1>1. \A f \in Files : f.lines \in Seq(Seq(Alphabet))
  BY TextsAssumption
<1>2. NoText.lines \in Seq(Seq(Alphabet))
  BY DEF NoText
<1> QED
  BY <1>1, <1>2

\* What the rules give a key is what the merged layers have.
LEMMA MergedIsGiven ==
    ASSUME Sourced(source, layer), NEW key \in Mentioned, key # "color"
    PROVE  TextOf(key) = Has(Merged(layer), key)
<1>0. key # Nameless
  BY DEF Mentioned
<1> DEFINE f == source.file
           e == source.env
<1>1. f \in Files \cup {NoText} /\ e \in Envs \cup {NoPairs}
  BY DEF Sourced
<1>2. layer.file = ReadConfigFile(f) /\ layer.env = ReadEnv(e)
  BY DEF Sourced
<1>3. Given(FileGives, f, key) = Has(layer.file, key)
  <2>1. CASE f \in Files
    <3>1. f.lines \in Seq(Seq(Alphabet))
      BY <2>1, FilesAreReadable
    <3> HIDE DEF f
    <3> QED
      BY <1>0, <1>2, <2>1, <3>1, FileGivesIt, FileIsRead
  <2>2. CASE f \notin Files
    <3>1. layer.file = NoPairs
      BY <1>1, <1>2, <2>2, NothingIsRead
    <3> HIDE DEF f
    <3> QED
      BY <2>2, <3>1, FileGivesIt, NoPairsHave
  <2> QED
    BY <2>1, <2>2
<1>4. Given(EnvGives, e, key) = Has(layer.env, key)
  <2>1. CASE e \in Envs
    <3>1. Readable(e)
      BY <2>1, EnvsAreReadable
    <3> HIDE DEF e
    <3> QED
      BY <1>0, <1>2, <2>1, <3>1, EnvGivesIt, EnvIsRead
  <2>2. CASE e \notin Envs
    <3>1. layer.env = NoPairs
      BY <1>1, <1>2, <2>2, NothingIsRead
    <3> HIDE DEF e
    <3> QED
      BY <2>2, <3>1, EnvGivesIt, NoPairsHave
  <2> QED
    BY <2>1, <2>2
<1>5. Has(Merged(layer), key) = IF Has(layer.api, key) # {} THEN Has(layer.api, key)
                                ELSE IF Has(layer.env, key) # {} THEN Has(layer.env, key)
                                ELSE Has(layer.file, key)
  BY AtopHas DEF Merged
<1>6. TextOf(key) = IF key \in DOMAIN layer.api THEN {layer.api[key]}
                    ELSE IF Given(EnvGives, e, key) # {} THEN Given(EnvGives, e, key)
                    ELSE Given(FileGives, f, key)
  BY DEF TextOf
<1>7. CASE key \in DOMAIN layer.api
  <2>1. Has(layer.api, key) = {layer.api[key]}
    BY <1>7 DEF Has
  <2> QED
    BY <1>5, <1>6, <1>7, <2>1
<1>8. CASE key \notin DOMAIN layer.api
  <2>1. Has(layer.api, key) = {}
    BY <1>8 DEF Has
  <2> HIDE DEF e, f
  <2> QED
    BY <1>3, <1>4, <1>5, <1>6, <1>8, <2>1
<1> QED
  BY <1>7, <1>8

\* Every key of the program is one the rules know.
LEMMA KeysAreMentioned == Keys \subseteq Mentioned
<1>1. Nameless \notin Modules
  BY TextsAssumption
<1>2. Nameless \notin SwitchKeys \cup LevelKeys \cup OutputKeys \cup PlainKeys
  BY DEF Nameless, SwitchKeys, LevelKeys, OutputKeys, PlainKeys
<1> QED
  BY <1>1, <1>2 DEF Mentioned, Keys

----------------------------------------------------------------------------
(* The texts of a list are sequences of symbols.                           *)

LEMMA ValueIsText ==
    ASSUME NEW S, NEW text \in Seq(S), EqualsIn(text) # {}
    PROVE  ValueOf(text) \in Seq(S)
<1> DEFINE n == Len(text)
           q == Least(EqualsIn(text))
<1>1. n \in Nat /\ q \in 1 .. n
  <2>1. EqualsIn(text) \in SUBSET Nat /\ EqualsIn(text) \subseteq 1 .. n
    BY DEF EqualsIn
  <2> QED
    BY <2>1, LeastIs
<1>2. q + 1 \in Nat /\ n \in Nat /\ 1 <= q + 1 /\ q + 1 <= n + 1 /\ n <= Len(text)
  BY <1>1
<1> HIDE DEF q
<1>3. Trim(SubSeq(text, q + 1, n)) \in Seq(S)
  BY <1>2, TrimPart
<1> QED
  BY <1>3 DEF ValueOf, q

LEMMA LastIsOne ==
    ASSUME NEW n \in Nat, NEW values, DOMAIN values \subseteq 1 .. n, NEW x \in LastOf(values)
    PROVE  \E i \in DOMAIN values : x \in values[i]
<1> DEFINE given == {i \in DOMAIN values : values[i] # {}}
<1>1. given \in SUBSET (0 .. n)
  OBVIOUS
<1>2. given # {} /\ x \in values[Greatest(given)]
  BY DEF LastOf
<1>3. Greatest(given) \in given
  <2> HIDE DEF given
  <2> QED
    BY <1>1, <1>2, GreatestIs
<1> QED
  BY <1>2, <1>3

\* A text that is a pair of that key and that value.
Assigns(body, key, text) ==
    body \in Seq(Alphabet) /\ EqualsIn(body) # {} /\ KeyOf(body) = key /\ text = ValueOf(body)

\* What a file says of a key, one of its lines says.
LEMMA FileHasALine ==
    ASSUME NEW f, f.lines \in Seq(Seq(Alphabet)), NEW key, key # Nameless,
           NEW text \in FileText(f, key)
    PROVE  \E i \in DOMAIN f.lines : Assigns(StripComment(f.lines[i]), key, text)
<1> DEFINE lines  == f.lines
           values == [i \in DOMAIN lines |-> AssignedBy(lines[i], key)]
<1>1. Len(lines) \in Nat /\ DOMAIN values \subseteq 1 .. Len(lines)
      /\ DOMAIN values = DOMAIN lines
  OBVIOUS
<1>2. text \in LastOf(values)
  BY DEF FileText
<1>3. PICK i \in DOMAIN lines : text \in values[i]
  <2> HIDE DEF values, lines
  <2> QED
    BY <1>1, <1>2, LastIsOne
<1>4. lines[i] \in Seq(Alphabet)
  OBVIOUS
<1>5. PICK body : body = StripComment(lines[i])
  OBVIOUS
<1>6. body \in Seq(Alphabet) /\ Uncommented(lines[i]) = {body}
  BY <1>4, <1>5, CommentIsStripped
<1>7. text \in AssignedIn(body, key)
  BY <1>3, <1>6 DEF AssignedBy
<1>8. AssignedIn(body, key) = IF EqualsIn(body) # {} /\ KeyOf(body) = key
                              THEN {ValueOf(body)} ELSE {}
  BY <1>6, AssignmentIsRead
<1>9. Assigns(body, key, text)
  BY <1>6, <1>7, <1>8 DEF Assigns
<1> QED
  BY <1>5, <1>9

----------------------------------------------------------------------------
(* The modules of a list.                                                  *)

\* Each symbol but a comma stands in one part of the list.
LEMMA PartWith ==
    ASSUME NEW S, NEW text \in Seq(S), NEW k \in 1 .. Len(text), text[k] # Comma
    PROVE  \E i \in Ends(text) : k \in Before(text, i) + 1 .. i - 1
<1> DEFINE n == Len(text)
           after == {i \in Ends(text) : k < i}
           i == Least(after)
<1>1. n \in Nat /\ Ends(text) \subseteq 1 .. n + 1 /\ n + 1 \in Ends(text)
      /\ \A j \in Ends(text) : j <= n => text[j] = Comma
  BY DEF Ends
<1>2. after \in SUBSET Nat /\ after # {}
  BY <1>1
<1>3. i \in after /\ \A j \in after : i <= j
  <2> HIDE DEF after
  <2> QED
    BY <1>2, LeastIs
<1>4. i \in Ends(text) /\ k < i /\ \A j \in Ends(text) : k < j => i <= j
  BY <1>3
<1> HIDE DEF i, after
<1>5. PICK b : b = Before(text, i)
  OBVIOUS
<1>6. i \in 1 .. n + 1 /\ b \in 0 .. i - 1 /\ (b # 0 => b \in Ends(text))
  BY <1>4, <1>5, BeforeIs
<1>7. b < k
  <2> SUFFICES ASSUME ~(b < k) PROVE FALSE
    OBVIOUS
  <2>1. b # 0 /\ b \in Ends(text) /\ b < i /\ k <= b
    BY <1>6
  <2>2. b # k
    BY <1>1, <2>1
  <2>3. k < b
    BY <1>6, <2>1, <2>2
  <2> QED
    BY <1>1, <1>4, <1>6, <2>1, <2>3
<1> QED
  BY <1>4, <1>5, <1>6, <1>7

\* No comma stands in a part.
LEMMA NoCommaInside ==
    ASSUME NEW S, NEW text \in Seq(S), NEW i \in Ends(text), NEW k \in Before(text, i) + 1 .. i - 1
    PROVE  k \in 1 .. Len(text) /\ text[k] # Comma
<1>1. PICK b : b = Before(text, i)
  OBVIOUS
<1>2. i \in 1 .. Len(text) + 1 /\ b \in 0 .. i - 1 /\ \A j \in Ends(text) : j < i => j <= b
  BY <1>1, BeforeIs
<1>3. k \in 1 .. Len(text) /\ k < i /\ b < k
  BY <1>1, <1>2
<1>4. text[k] = Comma => k \in Ends(text)
  BY <1>3 DEF Ends
<1> QED
  BY <1>2, <1>3, <1>4

LEMMA ListIsSplit ==
    ASSUME NEW S, NEW text \in Seq(S), NEW m
    PROVE  Listed(text, m) <=> Split(text) = {} \/ <<Word(m)>> \in Split(text)
<1> DEFINE n == Len(text)
           said == {i \in DOMAIN text : text[i] \notin Blanks \cup {Comma}}
           part(i) == Said(text, Before(text, i) + 1, i - 1)
<1>0. n \in Nat /\ DOMAIN text = 1 .. n
  OBVIOUS
<1>1. \A i \in Ends(text) : part(i) \subseteq said
  <2> SUFFICES ASSUME NEW i \in Ends(text), NEW k \in part(i) PROVE k \in said
    OBVIOUS
  <2>1. k \in Before(text, i) + 1 .. i - 1 /\ text[k] \notin Blanks
    BY DEF Said
  <2>2. k \in 1 .. n /\ text[k] # Comma
    BY <2>1, NoCommaInside
  <2> QED
    BY <1>0, <2>1, <2>2
<1>2. \A k \in said : \E i \in Ends(text) : k \in part(i)
  <2> SUFFICES ASSUME NEW k \in said PROVE \E i \in Ends(text) : k \in part(i)
    OBVIOUS
  <2>1. k \in 1 .. n /\ text[k] # Comma /\ text[k] \notin Blanks
    BY <1>0
  <2>2. PICK i \in Ends(text) : k \in Before(text, i) + 1 .. i - 1
    BY <2>1, PartWith
  <2>3. k \in part(i)
    BY <2>1, <2>2 DEF Said
  <2> QED
    BY <2>3
<1> HIDE DEF part
<1>3. \A i \in Ends(text) :
         /\ PartAt(text, i) = <<>> <=> part(i) = {}
         /\ \A k : part(i) = {k} => PartAt(text, i) = <<text[k]>>
         /\ \A k, j \in part(i) : k # j => Len(PartAt(text, i)) > 1
  BY PartOfList DEF part
<1>4. Split(text) = {} <=> said = {}
  <2>1. Split(text) = {} <=> \A i \in Ends(text) : PartAt(text, i) = <<>>
    BY DEF Split
  <2> HIDE DEF said
  <2> QED
    BY <1>1, <1>2, <1>3, <2>1
<1>5. Listed(text, m) <=>
         \/ said = {}
         \/ \E i \in said :
               /\ text[i] = Word(m)
               /\ \A j \in said \ {i} :
                     \E k \in DOMAIN text : text[k] = Comma /\ (k \in i .. j \/ k \in j .. i)
  BY DEF Listed
<1>6. ASSUME <<Word(m)>> \in Split(text), NEW x, x = Word(m)
      PROVE  \E i \in said :
                /\ text[i] = x
                /\ \A j \in said \ {i} :
                      \E k \in DOMAIN text : text[k] = Comma /\ (k \in i .. j \/ k \in j .. i)
  <2>1. PICK e \in Ends(text) : PartAt(text, e) = <<x>>
    BY <1>6 DEF Split
  <2>2. Len(PartAt(text, e)) = 1 /\ PartAt(text, e) # <<>> /\ PartAt(text, e)[1] = x
    BY <2>1
  <2>3. PICK i \in part(e) : TRUE
    BY <1>3, <2>2
  <2>4. ASSUME NEW j \in part(e) PROVE j = i
    <3>1. j # i => Len(PartAt(text, e)) > 1
      BY <1>3
    <3> QED
      BY <2>2, <3>1
  <2>5. part(e) = {i}
    BY <2>3, <2>4
  <2>6. text[i] = x
    <3>1. PartAt(text, e) = <<text[i]>>
      BY <1>3, <2>5
    <3> QED
      BY <2>2, <3>1
  <2>7. i \in said
    BY <1>1, <2>3
  <2>8. PICK b : b = Before(text, e)
    OBVIOUS
  <2>9. i \in b + 1 .. e - 1
    BY <2>3, <2>8 DEF part, Said
  <2>10. e \in 1 .. n + 1 /\ b \in 0 .. e - 1 /\ (b # 0 => b \in Ends(text))
    BY <2>8, BeforeIs
  <2>11. \A j \in Ends(text) : j <= n => text[j] = Comma
    BY DEF Ends
  <2>12. ASSUME NEW j \in said \ {i}
         PROVE  \E k \in DOMAIN text : text[k] = Comma /\ (k \in i .. j \/ k \in j .. i)
    <3>1. j \in 1 .. n /\ text[j] # Comma /\ text[j] \notin Blanks /\ j # i
      BY <1>0, <2>12
    <3>2. ~(j \in b + 1 .. e - 1)
      <4> SUFFICES ASSUME j \in b + 1 .. e - 1 PROVE FALSE
        OBVIOUS
      <4>1. j \in part(e)
        BY <2>8, <3>1 DEF part, Said
      <4> QED
        BY <2>4, <3>1, <4>1
    <3>3. CASE j <= b
      <4>1. b \in Ends(text) /\ b <= n /\ b \in 1 .. n
        BY <1>0, <2>10, <3>1, <3>3
      <4>2. text[b] = Comma /\ b \in j .. i
        BY <2>9, <2>10, <2>11, <3>1, <3>3, <4>1
      <4> QED
        BY <1>0, <4>1, <4>2
    <3>4. CASE j >= e
      <4>1. e <= n /\ e \in 1 .. n
        BY <1>0, <2>10, <3>1, <3>4
      <4>2. text[e] = Comma /\ e \in i .. j
        BY <2>9, <2>10, <2>11, <3>1, <3>4, <4>1
      <4> QED
        BY <1>0, <4>1, <4>2
    <3> QED
      BY <2>10, <3>1, <3>2, <3>3, <3>4
  <2> HIDE DEF said
  <2> QED
    BY <2>6, <2>7, <2>12
<1>7. ASSUME NEW x, x = Word(m), NEW i \in said, text[i] = x,
             \A j \in said \ {i} :
                \E k \in DOMAIN text : text[k] = Comma /\ (k \in i .. j \/ k \in j .. i)
      PROVE  <<x>> \in Split(text)
  <2>1. PICK e \in Ends(text) : i \in part(e)
    BY <1>2
  <2>2. PICK b : b = Before(text, e)
    OBVIOUS
  <2>3. e \in 1 .. n + 1 /\ b \in 0 .. e - 1
    BY <2>2, BeforeIs
  <2>4. \A k : k \in part(e) => k \in b + 1 .. e - 1
    BY <2>2 DEF part, Said
  <2>5. ASSUME NEW j \in part(e), j # i PROVE FALSE
    <3>1. j \in said \ {i}
      BY <1>1, <2>5
    <3>2. PICK k \in DOMAIN text : text[k] = Comma /\ (k \in i .. j \/ k \in j .. i)
      BY <1>7, <3>1
    <3>3. i \in b + 1 .. e - 1 /\ j \in b + 1 .. e - 1
      BY <2>1, <2>4
    <3>4. k \in b + 1 .. e - 1
      BY <1>0, <2>3, <3>2, <3>3
    <3> QED
      BY <2>2, <3>2, <3>4, NoCommaInside
  <2>6. part(e) = {i}
    BY <2>1, <2>5
  <2>7. PartAt(text, e) = <<x>> /\ PartAt(text, e) # <<>>
    BY <1>3, <1>7, <2>6
  <2> QED
    BY <2>7 DEF Split
<1>8. PICK x : x = Word(m)
  OBVIOUS
<1> HIDE DEF said
<1> QED
  BY <1>4, <1>5, <1>6, <1>7, <1>8

----------------------------------------------------------------------------
(* What a text means with the first levels of a registry.                  *)

\* The value a text has with the first n entries of registry r.
Value(r, n, text) ==
    LET named == {i \in 1 .. n : r[i][1] = text}
    IN IF text \in Reserved THEN {Inherit}
       ELSE IF named # {} THEN {r[Least(named)][2]}
       ELSE IF text[1] = "0" /\ text[2] \in Int THEN {ToInt(text[2])}
       ELSE {}
Meaning(r, n, text) == IF Len(Trim(text)) = 1 THEN Value(r, n, Trim(text)[1]) ELSE {}

LEMMA MeaningIs == \A n, text : LevelAmong(n, text) = Meaning(registry, n, text)
BY DEF LevelAmong, ParseAmong, FirstOf, Meaning, Value, Least

\* Levels that are added later do not change it.
LEMMA MeaningStays ==
    ASSUME NEW n \in Nat, NEW r, NEW q, \A i \in 1 .. n : r[i] = q[i], NEW text
    PROVE  Meaning(q, n, text) = Meaning(r, n, text)
<1>1. ASSUME NEW w PROVE Value(q, n, w) = Value(r, n, w)
  <2> DEFINE named(s) == {i \in 1 .. n : s[i][1] = w}
  <2>1. named(q) = named(r)
    OBVIOUS
  <2>2. named(r) # {} => q[Least(named(r))] = r[Least(named(r))]
    <3> SUFFICES ASSUME named(r) # {} PROVE q[Least(named(r))] = r[Least(named(r))]
      OBVIOUS
    <3>1. named(r) \in SUBSET Nat /\ named(r) \subseteq 1 .. n
      OBVIOUS
    <3> HIDE DEF named
    <3>2. Least(named(r)) \in named(r)
      BY <3>1, LeastIs
    <3> QED
      BY <3>1, <3>2
  <2>3. \A s : Value(s, n, w) = IF w \in Reserved THEN {Inherit}
                                ELSE IF named(s) # {} THEN {s[Least(named(s))][2]}
                                ELSE IF w[1] = "0" /\ w[2] \in Int THEN {ToInt(w[2])} ELSE {}
    BY DEF Value
  <2> HIDE DEF named
  <2> QED
    BY <2>1, <2>2, <2>3
<1> QED
  BY <1>1 DEF Meaning

----------------------------------------------------------------------------
(* The settings are made of the layers, and these of the sources.          *)

\* What pairs kv give a level, and an output, with the first n entries of registry r.
LevelsIn(r, n, kv, key) ==
    IF key \in DOMAIN kv THEN Meaning(r, n, kv[key]) \ {Inherit} ELSE {}
OutputIn(r, n, kv, key) ==
    IF key \in DOMAIN kv /\ Trim(kv[key]) \in OutputTexts THEN Inherit
    ELSE TheOne(LevelsIn(r, n, kv, key), Inherit)

\* Settings s are those that registry r made of pairs kv when it had n entries.
MadeOf(s, r, n, kv) ==
    /\ s.global = TheOne(LevelsIn(r, n, kv, "verbosity"), 20)
    /\ \A m \in Modules : s.module[m] = LevelsIn(r, n, kv, m)
    /\ s.fileOn <=> OutputOn(kv, "file")
    /\ s.file = OutputIn(r, n, kv, "file")
    /\ s.stdoutOn <=> OutputOn(kv, "stdout")
    /\ s.stdout = OutputIn(r, n, kv, "stdout")
    /\ s.only <=> IsOn(kv, "stdout.only")
    /\ s.selected = StdoutModules(kv)

\* A list that the program set is a text.
ListIsText(l) == "stdout.modules" \in DOMAIN l.api => l.api["stdout.modules"] \in Seq(Alphabet)

SourceInv ==
    /\ RegistryInv
    /\ Sourced(source, layer)
    /\ ListIsText(layer)
    /\ entries \in 0 .. Len(registry)
    /\ MadeOf(settings, registry, entries, Merged(layer))

LEMMA ApplyMakes == \A kv : MadeOf(ApplyKv(kv), registry, Len(registry), kv)
<1> SUFFICES ASSUME NEW kv PROVE MadeOf(ApplyKv(kv), registry, Len(registry), kv)
  OBVIOUS
<1>1. \A key : LevelAt(kv, key) = LevelsIn(registry, Len(registry), kv, key)
  BY MeaningIs DEF LevelAt, LevelOf, LevelsIn
<1>2. \A key : OutputLevel(kv, key) = OutputIn(registry, Len(registry), kv, key)
  BY <1>1 DEF OutputLevel, OutputIn
<1> QED
  BY <1>1, <1>2 DEF ApplyKv, MadeOf

LEMMA MadeStays ==
    ASSUME NEW n \in Nat, NEW r, NEW q, \A i \in 1 .. n : r[i] = q[i], NEW s, NEW kv,
           MadeOf(s, r, n, kv)
    PROVE  MadeOf(s, q, n, kv)
<1>1. \A text : Meaning(q, n, text) = Meaning(r, n, text)
  BY MeaningStays
<1>2. \A key : LevelsIn(q, n, kv, key) = LevelsIn(r, n, kv, key)
  BY <1>1 DEF LevelsIn
<1>3. \A key : OutputIn(q, n, kv, key) = OutputIn(r, n, kv, key)
  BY <1>2 DEF OutputIn
<1> QED
  BY <1>2, <1>3 DEF MadeOf

LEMMA ChangeIsMade ==
    ASSUME NEW layers, NEW reading, NEW error, Change(layers, reading, error), SourceInv,
           Sourced(source', layers), ListIsText(layers)
    PROVE  SourceInv'
<1>1. /\ registry' = registry /\ layer' = layers /\ settings' = ApplyKv(Merged(layers))
      /\ entries' = Len(registry)
  BY DEF Change
<1>2. RegistryInv'
  BY <1>1 DEF SourceInv, RegistryInv
<1>3. entries' \in 0 .. Len(registry')
  BY <1>1 DEF SourceInv, RegistryInv
<1>4. MadeOf(settings', registry', entries', Merged(layer'))
  BY <1>1, ApplyMakes
<1> QED
  BY <1>1, <1>2, <1>3, <1>4 DEF SourceInv

LEMMA SourceStarts == Init => SourceInv
<1> SUFFICES ASSUME Init PROVE SourceInv
  OBVIOUS
<1>1. RegistryInv
  BY RegistryStarts DEF Init
<1>2. source \in [file : Files, env : Envs]
      /\ layer = [Cleared EXCEPT !.file = ReadConfigFile(source.file), !.env = ReadEnv(source.env)]
  BY DEF Init
<1>3. layer = [file |-> ReadConfigFile(source.file), env |-> ReadEnv(source.env), api |-> NoPairs]
  BY <1>2 DEF Cleared
<1>4. Sourced(source, layer)
  BY <1>2, <1>3 DEF Sourced
<1>5. ListIsText(layer)
  BY <1>3 DEF ListIsText, NoPairs
<1>6. entries \in 0 .. Len(registry) /\ MadeOf(settings, registry, entries, Merged(layer))
  BY <1>1, ApplyMakes DEF Init, RegistryInv
<1> QED
  BY <1>1, <1>4, <1>5, <1>6 DEF SourceInv

\* A key that is set shows its text, and the other keys of the program stay.
LEMMA SetKeeps ==
    ASSUME Sourced(source, layer), ListIsText(layer), NEW kv,
           "stdout.modules" \in DOMAIN kv => kv["stdout.modules"] \in Seq(Alphabet)
    PROVE  LET layers == [layer EXCEPT !.api = Atop(kv, @)]
           IN Sourced(source, layers) /\ ListIsText(layers)
<1> DEFINE layers == [layer EXCEPT !.api = Atop(kv, @)]
<1>1. layers = [file |-> ReadConfigFile(source.file), env |-> ReadEnv(source.env),
                api |-> Atop(kv, layer.api)]
  BY DEF Sourced
<1>2. Sourced(source, layers)
  BY <1>1 DEF Sourced
<1>3. "stdout.modules" \in DOMAIN Atop(kv, layer.api) =>
         Atop(kv, layer.api)["stdout.modules"] \in Seq(Alphabet)
  BY DEF Atop, ListIsText
<1>4. ListIsText(layers)
  BY <1>1, <1>3 DEF ListIsText
<1> QED
  BY <1>2, <1>4

LEMMA SourceKept == SourceInv /\ [Next]_vars => SourceInv'
<1> SUFFICES ASSUME SourceInv, [Next]_vars PROVE SourceInv'
  OBVIOUS
<1>0. Sourced(source, layer) /\ ListIsText(layer)
  BY DEF SourceInv
<1>1. ASSUME NEW key, NEW text, SetApi(key, text),
             key = "stdout.modules" => text \in Seq(Alphabet)
      PROVE  SourceInv'
  <2> DEFINE layers == [layer EXCEPT !.api = Atop(Pair(key, text), @)]
  <2>1. Change(layers, {}, sticky) /\ source' = source
    BY <1>1 DEF SetApi
  <2>2. Sourced(source, layers) /\ ListIsText(layers)
    <3>1. "stdout.modules" \in DOMAIN Pair(key, text) =>
             Pair(key, text)["stdout.modules"] \in Seq(Alphabet)
      BY <1>1 DEF Pair
    <3> QED
      BY <1>0, <3>1, SetKeeps
  <2> HIDE DEF layers
  <2> QED
    BY <2>1, <2>2, ChangeIsMade
<1>2. CASE SetLevel
  <2>1. PICK c \in LevelCalls : SetApi(c[1], LevelText(c[1], c[2]))
    BY <1>2 DEF SetLevel
  <2>2. c[1] # "stdout.modules"
    <3>1. c[1] \in LevelKeys \cup OutputKeys \cup Modules
      BY TextsAssumption
    <3> QED
      BY <3>1, ModulesAssumption DEF LevelKeys, OutputKeys, PlainKeys
  <2> QED
    BY <1>1, <2>1, <2>2
<1>3. CASE SetText
  BY <1>1, <1>3, TextsAssumption DEF SetText
<1>4. CASE Configure
  <2>1. PICK c \in Configs : Change([layer EXCEPT !.api = Atop(ConfigKv(c), @)], {}, sticky)
    BY <1>4 DEF Configure
  <2>2. source' = source
    BY <1>4 DEF Configure
  <2>3. ConfigKv(c)["stdout.modules"] \in Seq(Alphabet)
    <3>1. ConfigKv(c)["stdout.modules"] = c.selected
      BY DEF ConfigKv
    <3> QED
      BY <3>1, TextsAssumption
  <2> DEFINE layers == [layer EXCEPT !.api = Atop(ConfigKv(c), @)]
  <2>4. Sourced(source, layers) /\ ListIsText(layers)
    BY <1>0, <2>3, SetKeeps
  <2>5. Change(layers, {}, sticky)
    BY <2>1
  <2> HIDE DEF layers
  <2> QED
    BY <2>2, <2>4, <2>5, ChangeIsMade
<1>5. CASE LoadFile
  <2>1. PICK f \in Files : /\ Change([layer EXCEPT !.file = ReadConfigFile(f)], ReadingErrors(f), sticky)
                           /\ source' = [source EXCEPT !.file = f]
    BY <1>5 DEF LoadFile
  <2> DEFINE layers == [layer EXCEPT !.file = ReadConfigFile(f)]
  <2>2. source' = [file |-> f, env |-> source.env]
    BY <1>0, <2>1 DEF Sourced
  <2>3. layers = [file |-> ReadConfigFile(f), env |-> ReadEnv(source.env), api |-> layer.api]
    BY <1>0 DEF Sourced
  <2>4. Sourced(source', layers) /\ ListIsText(layers)
    BY <1>0, <2>2, <2>3 DEF Sourced, ListIsText
  <2>5. Change(layers, ReadingErrors(f), sticky)
    BY <2>1
  <2> HIDE DEF layers
  <2> QED
    BY <2>4, <2>5, ChangeIsMade
<1>6. CASE LoadEnv
  <2>1. PICK e \in Envs : /\ Change([layer EXCEPT !.env = ReadEnv(e)], {}, sticky)
                          /\ source' = [source EXCEPT !.env = e]
    BY <1>6 DEF LoadEnv
  <2> DEFINE layers == [layer EXCEPT !.env = ReadEnv(e)]
  <2>2. source' = [file |-> source.file, env |-> e]
    BY <1>0, <2>1 DEF Sourced
  <2>3. layers = [file |-> ReadConfigFile(source.file), env |-> ReadEnv(e), api |-> layer.api]
    BY <1>0 DEF Sourced
  <2>4. Sourced(source', layers) /\ ListIsText(layers)
    BY <1>0, <2>2, <2>3 DEF Sourced, ListIsText
  <2>5. Change(layers, {}, sticky)
    BY <2>1
  <2> HIDE DEF layers
  <2> QED
    BY <2>4, <2>5, ChangeIsMade
<1>7. CASE Reset
  <2>1. Change(Cleared, {}, "ok") /\ source' = [file |-> NoText, env |-> NoPairs]
    BY <1>7 DEF Reset
  <2>2. Sourced(source', Cleared) /\ ListIsText(Cleared)
    <3>1. "stdout.modules" \notin DOMAIN NoPairs
      BY DEF NoPairs
    <3> QED
      BY <2>1, <3>1, NothingIsRead DEF Sourced, ListIsText, Cleared
  <2> QED
    BY <2>1, <2>2, ChangeIsMade
<1>8. ASSUME UNCHANGED <<registry, source, layer, settings, entries>> PROVE SourceInv'
  BY <1>8 DEF SourceInv, RegistryInv
<1>9. CASE NewLevel
  <2>1. PICK name, value : registry' = Append(registry, <<name, value>>)
    BY <1>9 DEF NewLevel, AddLevel
  <2>2. UNCHANGED <<source, layer, settings, entries>>
    BY <1>9 DEF NewLevel, configVars
  <2>3. RegistryInv'
    BY StepsOfRegistry, RegistryGrows DEF SourceInv
  <2>4. entries \in Nat /\ entries \in 0 .. Len(registry') /\ \A i \in 1 .. entries : registry[i] = registry'[i]
    BY <2>1 DEF SourceInv, RegistryInv
  <2>5. MadeOf(settings, registry', entries, Merged(layer))
    BY <2>4, MadeStays DEF SourceInv
  <2> QED
    BY <1>0, <2>2, <2>3, <2>4, <2>5 DEF SourceInv
<1>10. CASE ClearError \/ PickModule \/ Store
  BY <1>8, <1>10 DEF ClearError, PickModule, Store, configVars
<1>11. ASSUME NEW t \in Threads, LogCall(t) PROVE SourceInv'
  BY <1>8, <1>11 DEF LogCall, BeginCall, ReadDisabled, Resolve, ReadCollect, WriteFile,
                     ReadStdoutLevel, WriteStdout, EndCall, Goto, configVars
<1>12. CASE UNCHANGED vars
  BY <1>8, <1>12 DEF vars, configVars
<1> QED
  BY <1>2, <1>3, <1>4, <1>5, <1>6, <1>7, <1>9, <1>10, <1>11, <1>12 DEF Next

LEMMA SourceHolds == Spec => []SourceInv
  BY SourceStarts, SourceKept, PTL DEF Spec

----------------------------------------------------------------------------
(* The thresholds are those that the rules of the documents give.          *)

\* The list of the modules that go to stdout, whoever gave it, is a text.
LEMMA ListGivenIsText ==
    ASSUME SourceInv, NEW text \in TextOf("stdout.modules")
    PROVE  text \in Seq(Alphabet)
<1> DEFINE key == "stdout.modules"
           f   == source.file
           e   == source.env
<1>0. key \in Mentioned /\ key # Nameless /\ key # "color" /\ key # "verbosity" /\ key \notin Modules
  <2>1. key \in PlainKeys /\ key # "color" /\ key # "verbosity"
    BY DEF PlainKeys
  <2>2. key \in Keys /\ key \notin Modules
    BY <2>1, ModulesAssumption DEF Keys
  <2>3. key \in Mentioned
    BY <2>2, KeysAreMentioned
  <2> QED
    BY <2>1, <2>2, <2>3 DEF Mentioned
<1>1. /\ Sourced(source, layer)
      /\ key \in DOMAIN layer.api => layer.api[key] \in Seq(Alphabet)
  BY DEF SourceInv, ListIsText
<1>2. text \in IF key \in DOMAIN layer.api THEN {layer.api[key]}
               ELSE IF Given(EnvGives, e, key) # {} THEN Given(EnvGives, e, key)
               ELSE Given(FileGives, f, key)
  BY DEF TextOf
<1>3. f \in Files \cup {NoText} /\ e \in Envs \cup {NoPairs}
  BY <1>1 DEF Sourced
<1> HIDE DEF key, f, e
<1>4. CASE key \in DOMAIN layer.api
  BY <1>1, <1>2, <1>4
<1>5. CASE text \in Given(EnvGives, e, key)
  <2>1. e \in Envs /\ text \in EnvText(e, key)
    BY <1>0, <1>5, EnvGivesIt
  <2>2. Readable(e)
    BY <2>1, EnvsAreReadable
  <2>3. \A v \in DOMAIN e : e[v] \in Seq(Alphabet)
    BY <2>2 DEF Readable
  <2>4. \E v \in DOMAIN e : text = e[v]
    BY <1>0, <2>1 DEF EnvText
  <2> QED
    BY <2>3, <2>4
<1>6. CASE text \in Given(FileGives, f, key)
  <2>1. f \in Files /\ text \in FileText(f, key)
    BY <1>0, <1>6, FileGivesIt
  <2>2. f.lines \in Seq(Seq(Alphabet))
    BY <2>1, FilesAreReadable
  <2>3. PICK i \in DOMAIN f.lines : Assigns(StripComment(f.lines[i]), key, text)
    BY <1>0, <2>1, <2>2, FileHasALine
  <2> QED
    BY <2>3, ValueIsText DEF Assigns
<1> QED
  BY <1>2, <1>4, <1>5, <1>6

\* The level and the text of a key, from the rules and from the merged layers.
LEMMA OwnLevelIs ==
    ASSUME SourceInv, NEW key \in Keys, key # "color"
    PROVE  /\ TextOf(key) = Has(Merged(layer), key)
           /\ OwnLevel(key) = LevelsIn(registry, entries, Merged(layer), key)
<1> DEFINE kv == Merged(layer)
<1>1. TextOf(key) = Has(kv, key)
  BY KeysAreMentioned, MergedIsGiven DEF SourceInv
<1> HIDE DEF kv
<1> DEFINE all == UNION {Meaning(registry, entries, text) : text \in Has(kv, key)}
<1>2. OwnLevel(key) = all \ {Inherit}
  <2>1. \A text : LevelAmong(entries, text) = Meaning(registry, entries, text)
    BY MeaningIs
  <2>2. Meant(key) = all
    BY <1>1, <2>1 DEF Meant
  <2> HIDE DEF all
  <2> QED
    BY <2>2 DEF OwnLevel
<1>3. all = IF key \in DOMAIN kv THEN Meaning(registry, entries, kv[key]) ELSE {}
  BY DEF Has
<1> HIDE DEF all
<1>4. OwnLevel(key) = LevelsIn(registry, entries, kv, key)
  <2>1. CASE key \in DOMAIN kv
    BY <1>2, <1>3, <2>1 DEF LevelsIn
  <2>2. CASE key \notin DOMAIN kv
    <3>1. all = {}
      BY <1>3, <2>2
    <3> QED
      BY <1>2, <2>2, <3>1 DEF LevelsIn
  <2> QED
    BY <2>1, <2>2
<1> QED
  BY <1>1, <1>4 DEF kv

\* An output has its own level, or the base level of the module.
LEMMA OutputFollows ==
    ASSUME SourceInv, NEW output \in OutputKeys, NEW m \in Modules, NEW s,
           s = OutputIn(registry, entries, Merged(layer), output)
    PROVE  MostSpecific(output, m) = IF s = Inherit THEN Base(settings, m) ELSE s
<1> DEFINE kv == Merged(layer)
           own == LevelsIn(registry, entries, kv, output)
<1>1. output \in Keys /\ m \in Keys /\ "verbosity" \in Keys
      /\ output # "color" /\ m # "color" /\ "verbosity" # "color"
  BY ModulesAssumption DEF Keys, OutputKeys, LevelKeys, PlainKeys
<1>2. /\ OwnLevel(m) = LevelsIn(registry, entries, kv, m)
      /\ OwnLevel("verbosity") = LevelsIn(registry, entries, kv, "verbosity")
      /\ OwnLevel(output) = own
      /\ TextOf(output) = Has(kv, output)
  BY <1>1, OwnLevelIs
<1>3. Base(settings, m) = TheOne(OwnLevel(m), TheOne(OwnLevel("verbosity"), 20))
  BY <1>2 DEF SourceInv, MadeOf, Base
<1>4. Inherit \notin own
  BY DEF LevelsIn
<1>5. s = IF output \in DOMAIN kv /\ Trim(kv[output]) \in OutputTexts THEN Inherit
          ELSE TheOne(own, Inherit)
  BY DEF OutputIn
<1>6. OwnOutput(output) = IF output \in DOMAIN kv /\ Trim(kv[output]) \in OutputTexts THEN {} ELSE own
  BY <1>2 DEF OwnOutput, Has
<1>7. MostSpecific(output, m) = TheOne(OwnOutput(output), Base(settings, m))
  BY <1>3 DEF MostSpecific
<1> HIDE DEF kv, own
<1>8. CASE OwnOutput(output) = {}
  <2>1. s = Inherit
    BY <1>5, <1>6, <1>8 DEF TheOne
  <2> QED
    BY <1>7, <1>8, <2>1 DEF TheOne
<1>9. CASE OwnOutput(output) # {}
  <2>1. OwnOutput(output) = own /\ s = TheOne(own, Inherit)
    BY <1>5, <1>6, <1>9
  <2>2. s = (CHOOSE v \in own : TRUE) /\ s \in own
    BY <1>9, <2>1 DEF TheOne
  <2>3. MostSpecific(output, m) = (CHOOSE v \in own : TRUE)
    BY <1>7, <1>9, <2>1 DEF TheOne
  <2> QED
    BY <1>4, <2>2, <2>3
<1> QED
  BY <1>8, <1>9

\* Whenever no rebuild is under way, every module that has a state has the thresholds that
\* the file, the environment and the calls of the program give it by the rules of the
\* documents, read from their texts: comments and blanks, the first equals sign, the last
\* line of a key, the first bare level of SLOG_VERBOSITY, the layer that overrides the
\* others, and a text that does not parse, whatever levels were added since.
THEOREM ThresholdsCorrect == Spec => []ThresholdsFollowLayers
<1>1. SourceInv /\ IInv => ThresholdsFollowLayers
  <2> SUFFICES ASSUME SourceInv, IInv, MutexFree, NEW m \in known
               PROVE  /\ threshold[m].file = IF IsOff("file") THEN Off ELSE MostSpecific("file", m)
                      /\ threshold[m].stdout =
                            IF IsOff("stdout") \/ \E text \in TextOf("stdout.modules") : ~Listed(text, m)
                            THEN Off ELSE MostSpecific("stdout", m)
                      /\ threshold[m].only <=>
                            \E text \in TextOf("stdout.only") : Trim(text) \in TrueTexts
    BY DEF ThresholdsFollowLayers
  <2> DEFINE kv == Merged(layer)
             list == "stdout.modules"
  <2>1. m \in Modules /\ settings \in AllSettings
    BY DEF IInv, Types
  <2>2. /\ threshold[m]["file"] = FileLevel(settings, m)
        /\ threshold[m]["stdout"] = StdoutLevel(settings, m)
        /\ threshold[m]["only"] = settings.only
    <3>1. \A f \in Fields : threshold[m][f] = Computed(settings, m)[f]
      BY SettledIsCurrent DEF IInv
    <3>2. /\ Computed(settings, m)["file"] = FileLevel(settings, m)
          /\ Computed(settings, m)["stdout"] = StdoutLevel(settings, m)
          /\ Computed(settings, m)["only"] = settings.only
      BY <2>1, ComputedIsFormed
    <3> QED
      BY <3>1, <3>2 DEF Fields
  <2>3. MadeOf(settings, registry, entries, kv)
    BY DEF SourceInv
  <2>4. /\ "file" \in Keys /\ "stdout" \in Keys /\ list \in Keys /\ "stdout.only" \in Keys
        /\ "file" # "color" /\ "stdout" # "color" /\ list # "color" /\ "stdout.only" # "color"
        /\ "file" \in OutputKeys /\ "stdout" \in OutputKeys
    BY DEF Keys, OutputKeys, PlainKeys, SwitchKeys
  <2>5. /\ TextOf("file") = Has(kv, "file") /\ TextOf("stdout") = Has(kv, "stdout")
        /\ TextOf(list) = Has(kv, list) /\ TextOf("stdout.only") = Has(kv, "stdout.only")
    BY <2>4, OwnLevelIs
  <2>6. ASSUME NEW key, TextOf(key) = Has(kv, key) PROVE IsOff(key) <=> ~OutputOn(kv, key)
    BY <2>6 DEF IsOff, OutputOn, Has
  <2>7. /\ MostSpecific("file", m)
              = IF settings.file = Inherit THEN Base(settings, m) ELSE settings.file
        /\ MostSpecific("stdout", m)
              = IF settings.stdout = Inherit THEN Base(settings, m) ELSE settings.stdout
    <3>1. /\ settings.file = OutputIn(registry, entries, Merged(layer), "file")
          /\ settings.stdout = OutputIn(registry, entries, Merged(layer), "stdout")
      BY <2>3 DEF MadeOf
    <3> QED
      BY <2>1, <2>4, <3>1, OutputFollows
  <2>8. m \in settings.selected <=> \A text \in TextOf(list) : Listed(text, m)
    <3>1. \A text \in TextOf(list) :
             Listed(text, m) <=> Split(text) = {} \/ <<Word(m)>> \in Split(text)
      BY ListGivenIsText, ListIsSplit
    <3>2. m \in settings.selected <=>
             (list \in DOMAIN kv => Split(kv[list]) = {} \/ <<Word(m)>> \in Split(kv[list]))
      BY <2>1, <2>3 DEF MadeOf, StdoutModules
    <3> HIDE DEF list, kv
    <3> QED
      BY <2>5, <3>1, <3>2 DEF Has
  <2>9. /\ settings.fileOn <=> OutputOn(kv, "file")
        /\ settings.stdoutOn <=> OutputOn(kv, "stdout")
        /\ settings.only <=> IsOn(kv, "stdout.only")
    BY <2>3 DEF MadeOf
  <2> HIDE DEF kv, list
  <2>10. threshold[m].file = IF IsOff("file") THEN Off ELSE MostSpecific("file", m)
    BY <2>2, <2>5, <2>6, <2>7, <2>9 DEF FileLevel
  <2>11. threshold[m].stdout = IF IsOff("stdout") \/ \E text \in TextOf(list) : ~Listed(text, m)
                               THEN Off ELSE MostSpecific("stdout", m)
    <3>1. IsOff("stdout") <=> ~settings.stdoutOn
      BY <2>5, <2>6, <2>9
    <3>2. (\E text \in TextOf(list) : ~Listed(text, m)) <=> m \notin settings.selected
      BY <2>8
    <3> QED
      BY <2>2, <2>7, <3>1, <3>2 DEF StdoutLevel
  <2>12. threshold[m].only <=> \E text \in TextOf("stdout.only") : Trim(text) \in TrueTexts
    BY <2>2, <2>5, <2>9 DEF IsOn, Has
  <2> QED
    BY <2>10, <2>11, <2>12 DEF list
<1> QED
  BY <1>1, SourceHolds, InvHolds, PTL

----------------------------------------------------------------------------
(* The keys of the layers.                                                 *)

\* The key of a pair is a word that stands in it.
LEMMA KeyIsASymbol ==
    ASSUME NEW S, NEW text \in Seq(S), EqualsIn(text) # {}
    PROVE  KeyOf(text) \in {Nameless, Several} \cup {s[1] : s \in S}
<1> DEFINE q   == Least(EqualsIn(text))
           cut == Trim(SubSeq(text, 1, q - 1))
<1>1. Len(text) \in Nat /\ q \in 1 .. Len(text)
  <2>1. EqualsIn(text) \in SUBSET Nat /\ EqualsIn(text) \subseteq 1 .. Len(text)
    BY DEF EqualsIn
  <2> QED
    BY <2>1, LeastIs
<1>2. cut \in Seq(S)
  <2>1. q - 1 \in Nat /\ 1 <= q - 1 + 1 /\ q - 1 <= Len(text) /\ 1 \in Nat
    BY <1>1
  <2> HIDE DEF q
  <2> QED
    BY <2>1, TrimPart
<1>3. KeyOf(text) = IF cut = <<>> THEN Nameless ELSE IF Len(cut) > 1 THEN Several ELSE cut[1][1]
  BY DEF KeyOf
<1> HIDE DEF cut
<1>4. cut # <<>> /\ ~(Len(cut) > 1) => cut[1] \in S
  BY <1>2
<1> QED
  BY <1>3, <1>4

\* A pair that names none is left out.
LEMMA FileKeysHaveNames ==
    ASSUME NEW f, f.lines \in Seq(Seq(Alphabet))
    PROVE  Nameless \notin DOMAIN ReadConfigFile(f)
<1> DEFINE lines == f.lines
           n     == Len(lines)
           s     == {k \in 0 .. n : Nameless \notin DOMAIN PairsUpTo(lines)[k]}
<1>0. n \in Nat
  OBVIOUS
<1>1. /\ PairsUpTo(lines)[0] = NoPairs
      /\ \A k \in 1 .. n : PairsUpTo(lines)[k] = WithPair(PairsUpTo(lines)[k - 1],
                                                          StripComment(lines[k]))
  BY <1>0, PairsGrow
<1>2. 0 \in s
  BY <1>0, <1>1 DEF NoPairs
<1>3. ASSUME NEW kv, NEW text, Nameless \notin DOMAIN kv
      PROVE  Nameless \notin DOMAIN WithPair(kv, text)
  BY <1>3 DEF WithPair, Atop, Pair
<1>4. ASSUME NEW k \in 0 .. n - 1, k \in s PROVE k + 1 \in s
  <2>1. PICK h : h = k + 1
    OBVIOUS
  <2>2. h \in 1 .. n /\ h \in 0 .. n /\ h - 1 = k
    BY <1>0, <2>1
  <2>3. Nameless \notin DOMAIN PairsUpTo(lines)[k]
    BY <1>4
  <2>4. Nameless \notin DOMAIN PairsUpTo(lines)[h]
    <3> HIDE DEF lines, n
    <3> QED
      BY <1>1, <1>3, <2>2, <2>3
  <2> QED
    BY <2>1, <2>2, <2>4
<1>5. n \in s
  <2>1. \A k \in 0 .. n : k \in s
    <3> HIDE DEF s
    <3> QED
      BY <1>0, <1>2, <1>4, UpTo
  <2> QED
    BY <1>0, <2>1
<1> QED
  BY <1>5 DEF ReadConfigFile, NoPairs

LEMMA FileKeysAreMentioned ==
    ASSUME NEW f \in Files, NEW key \in DOMAIN ReadConfigFile(f)
    PROVE  key \in Mentioned
<1>1. f.lines \in Seq(Seq(Alphabet))
  BY FilesAreReadable
<1>2. key # Nameless
  BY <1>1, FileKeysHaveNames
<1>3. PICK text : text \in FileText(f, key)
  <2>1. Has(ReadConfigFile(f), key) = FileText(f, key)
    BY <1>1, <1>2, FileIsRead
  <2> QED
    BY <2>1 DEF Has
<1>4. PICK i \in DOMAIN f.lines : Assigns(StripComment(f.lines[i]), key, text)
  BY <1>1, <1>2, <1>3, FileHasALine
<1>5. PICK line : line = f.lines[i]
  OBVIOUS
<1>6. line \in Seq(ToSet(line)) /\ line \in ToSet(f.lines)
  <2>1. line \in Seq(Alphabet)
    BY <1>1, <1>4, <1>5
  <2>2. ToSet(line) = {line[k] : k \in DOMAIN line}
    BY DEF ToSet
  <2>3. ToSet(f.lines) = {f.lines[k] : k \in DOMAIN f.lines}
    BY DEF ToSet
  <2>4. line \in Seq(ToSet(line))
    BY <2>1, <2>2
  <2> QED
    BY <1>4, <1>5, <2>3, <2>4
<1>7. StripComment(line) \in Seq(ToSet(line))
  BY <1>6, CommentIsStripped
<1>8. key \in {Nameless, Several} \cup {s[1] : s \in ToSet(line)}
  BY <1>4, <1>5, <1>7, KeyIsASymbol DEF Assigns
<1>9. ToSet(line) \subseteq Symbols
  BY <1>6 DEF Symbols
<1> QED
  BY <1>2, <1>8, <1>9 DEF Mentioned

LEMMA LevelKeysAreKeys ==
    ASSUME NEW text \in Seq(Alphabet),
           \A i \in Ends(text) : EqualsIn(PartAt(text, i)) # {} => KeyOf(PartAt(text, i)) \in Modules
    PROVE  DOMAIN ReadLevels(text) \subseteq Keys
<1> DEFINE n == Len(text) + 1
           s == {k \in 0 .. n : DOMAIN LevelsUpTo(text)[k] \subseteq Keys}
<1>0. n \in Nat
  OBVIOUS
<1>1. /\ LevelsUpTo(text)[0] = NoPairs
      /\ \A k \in 1 .. n :
            LevelsUpTo(text)[k] = IF k \in Ends(text)
                                  THEN WithLevel(LevelsUpTo(text)[k - 1], PartAt(text, k))
                                  ELSE LevelsUpTo(text)[k - 1]
  BY <1>0, LevelsGrow
<1>2. 0 \in s
  BY <1>0, <1>1 DEF NoPairs
<1>3. ASSUME NEW kv, NEW part, DOMAIN kv \subseteq Keys, EqualsIn(part) # {} => KeyOf(part) \in Modules
      PROVE  DOMAIN WithLevel(kv, part) \subseteq Keys
  <2>1. "verbosity" \in Keys /\ Modules \subseteq Keys
    BY DEF Keys, LevelKeys
  <2>2. DOMAIN Atop(kv, Pair("verbosity", part)) = DOMAIN kv \cup {"verbosity"}
    BY DEF Atop, Pair
  <2>3. DOMAIN Atop(Pair(KeyOf(part), ValueOf(part)), kv) = DOMAIN kv \cup {KeyOf(part)}
    BY DEF Atop, Pair
  <2>4. CASE part = <<>>
    BY <1>3, <2>4 DEF WithLevel
  <2>5. CASE part # <<>> /\ EqualsIn(part) = {}
    BY <1>3, <2>1, <2>2, <2>5 DEF WithLevel
  <2>6. CASE part # <<>> /\ EqualsIn(part) # {}
    BY <1>3, <2>1, <2>3, <2>6 DEF WithLevel
  <2> QED
    BY <2>4, <2>5, <2>6
<1>4. ASSUME NEW k \in 0 .. n - 1, k \in s PROVE k + 1 \in s
  <2>1. PICK h : h = k + 1
    OBVIOUS
  <2>2. h \in 1 .. n /\ h \in 0 .. n /\ h - 1 = k
    BY <1>0, <2>1
  <2>3. DOMAIN LevelsUpTo(text)[k] \subseteq Keys
    BY <1>4
  <2>4. DOMAIN LevelsUpTo(text)[h] \subseteq Keys
    <3> HIDE DEF n
    <3> QED
      BY <1>1, <1>3, <2>2, <2>3
  <2> QED
    BY <2>1, <2>2, <2>4
<1>5. n \in s
  <2>1. \A k \in 0 .. n : k \in s
    <3> HIDE DEF s
    <3> QED
      BY <1>0, <1>2, <1>4, UpTo
  <2> QED
    BY <1>0, <2>1
<1> QED
  BY <1>5 DEF ReadLevels

LEMMA EnvKeysAreKeys ==
    ASSUME NEW e, Readable(e)
    PROVE  DOMAIN ReadEnv(e) \subseteq Keys
<1> DEFINE variables == DOMAIN e \cap DOMAIN KeyOfVariable
           named     == [k \in {KeyOfVariable[v] : v \in variables} |->
                            e[CHOOSE v \in variables : KeyOfVariable[v] = k]]
           noColor   == IF "NO_COLOR" \in DOMAIN e THEN Pair("color", <<Word("never")>>) ELSE NoPairs
           levels    == IF "SLOG_VERBOSITY" \in DOMAIN e
                        THEN ReadLevels(e["SLOG_VERBOSITY"]) ELSE NoPairs
<1>1. ReadEnv(e) = Atop(named, Atop(noColor, levels))
  BY DEF ReadEnv
<1>2. DOMAIN named \subseteq Keys
  BY VariablesHaveKeys
<1>3. DOMAIN noColor \subseteq Keys
  BY DEF Pair, NoPairs, Keys, PlainKeys
<1>4. DOMAIN levels \subseteq Keys
  <2>1. CASE "SLOG_VERBOSITY" \in DOMAIN e
    <3>1. PICK text : text = e["SLOG_VERBOSITY"]
      OBVIOUS
    <3>2. text \in Seq(Alphabet)
          /\ \A i \in Ends(text) : EqualsIn(PartAt(text, i)) # {} => KeyOf(PartAt(text, i)) \in Modules
      BY <2>1, <3>1 DEF Readable
    <3>3. levels = ReadLevels(text)
      BY <2>1, <3>1
    <3> HIDE DEF levels
    <3> QED
      BY <3>2, <3>3, LevelKeysAreKeys
  <2>2. CASE "SLOG_VERBOSITY" \notin DOMAIN e
    BY <2>2 DEF NoPairs
  <2> QED
    BY <2>1, <2>2
<1> HIDE DEF named, noColor, levels
<1>5. DOMAIN Atop(named, Atop(noColor, levels)) = DOMAIN named \cup (DOMAIN noColor \cup DOMAIN levels)
  BY DEF Atop
<1> QED
  BY <1>1, <1>2, <1>3, <1>4, <1>5

----------------------------------------------------------------------------
(* What a rebuild skips and reports.                                       *)

\* Skips and Recorded, with the levels of registry r.
SkipsIn(r, key, text) ==
    \/ key \notin Keys
    \/ key \in Modules /\ Meaning(r, Len(r), text) = {}
    \/ key \in LevelKeys /\ Meaning(r, Len(r), text) \subseteq {Inherit}
    \/ key \in OutputKeys /\ Trim(text) \notin OutputTexts /\ Meaning(r, Len(r), text) = {}
    \/ key \in SwitchKeys /\ Trim(text) \notin TrueTexts \cup FalseTexts
RecordedIn(r, kv) == {CodeFor(key) : key \in {k \in DOMAIN kv : SkipsIn(r, k, kv[k])}}

LEMMA SkipsAreIn == \A key, text : Skips(key, text) <=> SkipsIn(registry, key, text)
<1>1. \A text : LevelOf(text) = Meaning(registry, Len(registry), text)
  BY MeaningIs DEF LevelOf
<1> QED
  BY <1>1 DEF Skips, SkipsIn

LEMMA RecordedIsIn == \A kv : Recorded(kv) = RecordedIn(registry, kv)
  BY SkipsAreIn DEF Recorded, RecordedIn

\* Colors are never skipped.
LEMMA ColorIsTaken == \A text : ~Skips("color", text)
  BY ModulesAssumption DEF Skips, Keys, PlainKeys, LevelKeys, OutputKeys, SwitchKeys

\* What is assigned by the sources has a key that they mention.
LEMMA GivesAreAssigned ==
    /\ AssignedKeys \subseteq Mentioned
    /\ \A s, key : Given(FileGives, s, key) \cup Given(EnvGives, s, key) # {} => key \in AssignedKeys
<1>1. \A g \in FileGives : g[2] \in Mentioned
  BY OneOfTexts DEF FileGives
<1>2. \A g \in EnvGives : g[2] \in Mentioned
  BY OneOfTexts DEF EnvGives
<1>3. \A key : key \in AssignedKeys <=> \E g : g \in FileGives \cup EnvGives /\ g[2] = key
  BY DEF AssignedKeys
<1>4. ASSUME NEW s, NEW key, NEW text \in Given(FileGives, s, key) PROVE key \in AssignedKeys
  BY <1>3 DEF Given
<1>5. ASSUME NEW s, NEW key, NEW text \in Given(EnvGives, s, key) PROVE key \in AssignedKeys
  BY <1>3 DEF Given
<1>6. \A key \in AssignedKeys : key \in Mentioned
  BY <1>1, <1>2, <1>3
<1> QED
  BY <1>4, <1>5, <1>6

\* The keys in force whose texts are skipped are those that the rules say.
LEMMA SkippedAreRecorded ==
    ASSUME SourceInv
    PROVE  Skipped = {key \in DOMAIN Merged(layer) : Skips(key, Merged(layer)[key])}
<1> DEFINE kv == Merged(layer)
<1>1. Sourced(source, layer)
  BY DEF SourceInv
<1>2. \A key \in Mentioned : key # "color" => TextOf(key) = Has(kv, key)
  BY <1>1, MergedIsGiven
<1>3. DOMAIN kv = DOMAIN layer.api \cup (DOMAIN layer.env \cup DOMAIN layer.file)
  BY DEF Merged, Atop
<1>4. \A key \in DOMAIN layer.api : kv[key] = layer.api[key] /\ TextOf(key) = {layer.api[key]}
  BY DEF Merged, Atop, TextOf
<1>5. ASSUME NEW key \in DOMAIN kv, key \notin DOMAIN layer.api
      PROVE  key \in Mentioned
  <2>1. key \in DOMAIN layer.env \cup DOMAIN layer.file
    BY <1>3, <1>5
  <2>2. layer.file = ReadConfigFile(source.file) /\ layer.env = ReadEnv(source.env)
        /\ source.file \in Files \cup {NoText} /\ source.env \in Envs \cup {NoPairs}
    BY <1>1 DEF Sourced
  <2>3. CASE key \in DOMAIN layer.env
    <3>1. Readable(source.env)
      BY <2>2, EnvsAreReadable
    <3> QED
      BY <2>2, <2>3, <3>1, EnvKeysAreKeys, KeysAreMentioned
  <2>4. CASE key \in DOMAIN layer.file
    <3>1. source.file # NoText
      BY <2>2, <2>4, NothingIsRead DEF NoPairs
    <3> QED
      BY <2>2, <2>4, <3>1, FileKeysAreMentioned
  <2> QED
    BY <2>1, <2>3, <2>4
<1> HIDE DEF kv
<1>6. ASSUME NEW key \in DOMAIN kv, Skips(key, kv[key])
      PROVE  key \in Skipped
  <2>1. CASE key \in DOMAIN layer.api
    BY <1>4, <1>6, <2>1 DEF Skipped
  <2>2. CASE key \notin DOMAIN layer.api
    <3>1. key \in Mentioned /\ key # "color"
      BY <1>5, <1>6, <2>2, ColorIsTaken
    <3>2. TextOf(key) = {kv[key]}
      BY <1>2, <1>6, <3>1 DEF Has
    <3>3. key \in AssignedKeys
      <4>1. TextOf(key) \subseteq Given(FileGives, source.file, key) \cup Given(EnvGives, source.env, key)
        BY <2>2 DEF TextOf
      <4>2. Given(FileGives, source.file, key) # {} \/ Given(EnvGives, source.env, key) # {}
        BY <3>2, <4>1
      <4> QED
        BY <4>2, GivesAreAssigned
    <3> QED
      BY <1>6, <3>2, <3>3 DEF Skipped
  <2> QED
    BY <2>1, <2>2
<1>7. ASSUME NEW key \in Skipped
      PROVE  key \in DOMAIN kv /\ Skips(key, kv[key])
  <2>1. PICK text \in TextOf(key) : Skips(key, text)
    BY <1>7 DEF Skipped
  <2>2. CASE key \in DOMAIN layer.api
    BY <1>3, <1>4, <2>1, <2>2
  <2>3. CASE key \notin DOMAIN layer.api
    <3>1. key \in Mentioned /\ key # "color"
      BY <1>7, <2>1, <2>3, GivesAreAssigned, ColorIsTaken DEF Skipped
    <3>2. TextOf(key) = Has(kv, key)
      BY <1>2, <3>1
    <3> QED
      BY <2>1, <3>2 DEF Has
  <2> QED
    BY <2>2, <2>3
<1> QED
  BY <1>6, <1>7 DEF kv

\* The record of the merged layers is what the rules say is skipped.
SkippedInv == RecordedIn(registry, Merged(layer)) = {CodeFor(key) : key \in Skipped}

LEMMA SkippedHolds == Spec => []SkippedInv
<1>1. SourceInv => SkippedInv
  BY SkippedAreRecorded, RecordedIsIn DEF SkippedInv, Recorded
<1> QED
  BY <1>1, SourceHolds, PTL

LEMMA ChangeReports ==
    ASSUME SkippedInv', NEW layers, NEW reading, NEW error, Change(layers, reading, error)
    PROVE  /\ Skipped' # {} => sticky' \in {CodeFor(key) : key \in Skipped'}
           /\ Skipped' = {} => sticky' \in IF reading # {} THEN reading ELSE {error}
           /\ \A code \in {CodeFor(key) : key \in Skipped'} : code # "ok"
           /\ layer' = layers
<1>1. registry' = registry /\ layer' = layers
      /\ sticky' \in IF Reported(layers) # {} THEN Reported(layers)
                     ELSE IF reading # {} THEN reading ELSE {error}
  BY DEF Change
<1>2. Reported(layers) = {CodeFor(key) : key \in Skipped'}
  <2>1. Reported(layers) = RecordedIn(registry, Merged(layers))
    BY RecordedIsIn DEF Reported
  <2>2. RecordedIn(registry', Merged(layer')) = {CodeFor(key) : key \in Skipped'}
    BY DEF SkippedInv
  <2> QED
    BY <1>1, <2>1, <2>2
<1>3. \A key : CodeFor(key) # "ok"
  BY DEF CodeFor
<1> QED
  BY <1>1, <1>2, <1>3

\* Every rebuild reports a text in force that it skips, whether the file, the environment or
\* the program gave it; a setter that leaves no such text in force keeps the last error, also
\* when it overrides one that was skipped; a file that cannot be read is reported.
THEOREM ReportsCorrect == Spec => ReloadReportsWhatItSkips
<1>1. ASSUME SourceInv, SkippedInv', Next, changes' # changes
      PROVE  /\ Skipped' # {} => sticky' \in {CodeFor(key) : key \in Skipped'}
             /\ Skipped' = {} /\ layer'.api \notin {layer.api, NoPairs} => sticky' = sticky
             /\ source'.file # source.file /\ ~source'.file.opens => sticky' # "ok"
  <2> DEFINE Goal == /\ Skipped' # {} => sticky' \in {CodeFor(key) : key \in Skipped'}
                     /\ Skipped' = {} /\ layer'.api \notin {layer.api, NoPairs} => sticky' = sticky
                     /\ source'.file # source.file /\ ~source'.file.opens => sticky' # "ok"
  <2>0. /\ layer = [file |-> layer.file, env |-> layer.env, api |-> layer.api]
        /\ source = [file |-> source.file, env |-> source.env]
    BY <1>1 DEF SourceInv, Sourced
  <2>1. ASSUME NEW layers, Change(layers, {}, sticky), source' = source PROVE Goal
    BY <1>1, <2>1, ChangeReports
  <2>2. CASE SetLevel \/ SetText \/ Configure
    BY <2>1, <2>2 DEF SetLevel, SetText, SetApi, Configure
  <2>3. CASE LoadFile
    <3>1. PICK f \in Files : /\ Change([layer EXCEPT !.file = ReadConfigFile(f)], ReadingErrors(f), sticky)
                             /\ source' = [source EXCEPT !.file = f]
      BY <2>3 DEF LoadFile
    <3>2. [layer EXCEPT !.file = ReadConfigFile(f)].api = layer.api
      BY <2>0
    <3>3. source'.file = f
      BY <2>0, <3>1
    <3>4. ~f.opens => ReadingErrors(f) = {"config_file_read"}
      BY DEF ReadingErrors
    <3> QED
      BY <1>1, <3>1, <3>2, <3>3, <3>4, ChangeReports
  <2>4. CASE LoadEnv
    <3>1. PICK e \in Envs : /\ Change([layer EXCEPT !.env = ReadEnv(e)], {}, sticky)
                            /\ source' = [source EXCEPT !.env = e]
      BY <2>4 DEF LoadEnv
    <3>2. source'.file = source.file
      BY <2>0, <3>1
    <3> QED
      BY <1>1, <3>1, <3>2, ChangeReports
  <2>5. CASE Reset
    <3>1. Change(Cleared, {}, "ok") /\ source' = [file |-> NoText, env |-> NoPairs]
      BY <2>5 DEF Reset
    <3>2. Cleared.api = NoPairs /\ source'.file.opens
      BY <3>1 DEF Cleared, NoText
    <3> QED
      BY <1>1, <3>1, <3>2, ChangeReports
  <2>6. changes' = changes => FALSE
    BY <1>1
  <2>7. CASE ClearError \/ PickModule \/ Store \/ NewLevel
    BY <2>6, <2>7 DEF ClearError, PickModule, Store, NewLevel, configVars
  <2>8. ASSUME NEW t \in Threads, LogCall(t) PROVE Goal
    BY <2>6, <2>8 DEF LogCall, BeginCall, ReadDisabled, Resolve, ReadCollect, WriteFile,
                      ReadStdoutLevel, WriteStdout, EndCall, Goto, configVars
  <2> QED
    BY <1>1, <2>2, <2>3, <2>4, <2>5, <2>7, <2>8 DEF Next
<1>2. /\ SourceInv /\ SkippedInv' /\ [Next]_vars
      => [changes' # changes =>
            LET skipped == Skipped'
            IN /\ skipped # {} => sticky' \in {CodeFor(key) : key \in skipped}
               /\ skipped = {} /\ layer'.api \notin {layer.api, NoPairs} => sticky' = sticky
               /\ source'.file # source.file /\ ~source'.file.opens => sticky' # "ok"]_vars
  BY <1>1
<1> QED
  BY <1>2, SourceHolds, SkippedHolds, PTL DEF Spec, ReloadReportsWhatItSkips

=============================================================================
