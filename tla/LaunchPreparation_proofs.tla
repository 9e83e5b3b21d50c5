------------------------ MODULE LaunchPreparation_proofs ------------------------
(***************************************************************************)
(* Proofs about LaunchPreparation and ConfigFile: any number of loaders,   *)
(* edits and contents, any commands, hosts and stored labels.              *)
(***************************************************************************)
EXTENDS LaunchPreparation, TLAPS, WellFoundedInduction

-----------------------------------------------------------------------------
(* The inductive invariants. *)

AtRename(p) == loading[p].at \in {"check", "rename"}

\* The taken backup names come without a gap: an edit pays for each of them
\* and for the file at the path.
NamesTaken(n) ==
    /\ n + (IF configFile = NoFile THEN 0 ELSE 1) <= edits + 1
    /\ \A s \in BackupSuffixes : backups[s] # NoFile <=> s < n

\* A loader has passed over taken names only, and the name it is about to use
\* is free as long as there is a file to move.
ConfigInv ==
    /\ ConfigTypeOK
    /\ \E n \in Nat : NamesTaken(n)
    /\ \A p \in Loaders : AtRename(p) =>
          \A s \in BackupSuffixes : s < loading[p].suffix => backups[s] # NoFile
    /\ ~editedMeanwhile =>
          \A p \in Loaders : loading[p].at = "rename" /\ configFile # NoFile =>
              backups[loading[p].suffix] = NoFile
    /\ ConfigSurvives

\* The steps before the token, and those of a specification that exists.
EarlySteps == {"workspace", "config", "preflight", "existing", "devEnv", "client", "image"}
BuiltSteps == {"git", "knownHosts", "labels", "stop", "run"}
PastExisting == {"devEnv", "client", "image", "token", "spec"} \cup BuiltSteps
PastLimits == PastExisting \cup {"preflight", "existing"}

\* A container is none, or carries what the properties read of it: a managed
\* one got the very arguments its labels say.
Shaped(c) ==
    /\ c.mode \in RunModes \cup {"none"}
    /\ c.mode = "none" => c = NoContainer
    /\ c.mode = "managed" =>
          /\ DOMAIN c.stored = Dimensions
          /\ c.args = LimitArgs(c.stored)

\* Every limit was recorded.
Recorded(c) == \A d \in Dimensions : c.stored[d] # NoLimit

\* The limits a restart decides on.
KeepsLimits ==
    \A d \in Dimensions :
        command.overrides[d] = NoLimit /\ before.container.stored[d] # NoLimit =>
            limits[d] = before.container.stored[d]

\* Types, and what the steps so far have settled.
ControlInv ==
    /\ host.env \in [Variables -> EnvValues]
    /\ host.dirs \in [StatePaths -> DirStates]
    /\ Len(host.files) \in Nat /\ host.gitRootLevel \in 0 .. Len(host.files)
    /\ command \in Commands
    /\ turn \in {"first", "second"}
    /\ pc \in Steps \cup {"done", "failed"}
    /\ limits \in ResourceLimits
    /\ devEnv.level \in 0 .. host.gitRootLevel
    /\ tokenFile \in Tokens
    /\ tempFile \in BOOLEAN
    /\ failedAt \in Steps \cup {"none"}
    /\ pc # "failed" => failedAt = "none"
    /\ pc \in {"workspace", "stop"} => command.kind = "restart"

\* The containers and the tokens.
TokenInv ==
    /\ Shaped(container) /\ Shaped(before.container)
    /\ before.container.mode = "managed" /\ before.container.runtime = "codex" =>
          before.token = before.container.token
    /\ command.kind = "restart" => before.container.mode = "managed"
    /\ command.kind = "restart" /\ turn = "second" => Recorded(before.container)
    /\ pc \notin {"run", "done", "failed"} => container = before.container
    /\ pc = "run" => container = IF command.kind = "restart" THEN NoContainer
                                                             ELSE before.container
    /\ pc \in PastExisting /\ command.kind # "restart" => container.mode # "managed"
    /\ pc \in EarlySteps \cup {"token"} => tokenFile = before.token
    /\ pc \in BuiltSteps \cup {"spec"} /\ command.runtime = "codex" /\ Mode(command) = "managed" =>
          tokenFile = turn
    /\ PreparationFailsCleanly

SpecFields ==
    {"runtime", "mode", "workdir", "labels", "mounts", "command", "env", "ports", "limits"}

\* The specification carries the mode, the runtime, the limits and, in the
\* labels of a managed session, the arguments and the limits.
SpecInv ==
    /\ command.kind = "restart" /\ pc \in PastLimits => KeepsLimits
    /\ pc \in BuiltSteps =>
          /\ DOMAIN spec = SpecFields
          /\ spec.mode = Mode(command) /\ spec.runtime = command.runtime /\ spec.limits = limits
          /\ command.kind = "restart" =>
                (IF "serverArgs" \in DOMAIN spec.labels THEN spec.labels["serverArgs"] ELSE <<>>)
                    = before.container.serverArgs
    /\ pc \in {"stop", "run"} /\ Mode(command) = "managed" =>
          "limits" \in DOMAIN spec.labels /\ spec.labels["limits"] = StoredOrZero(limits)
    /\ pc = "done" /\ container.mode = "managed" => Recorded(container)
    /\ RestartKeepsSession

LaunchInv == ConfigInv /\ ControlInv /\ TokenInv /\ SpecInv

-----------------------------------------------------------------------------
(* The configuration file. *)

\* The states of a loader.
LoaderState ==
    [at : {"idle", "check", "rename", "loaded"}, suffix : BackupSuffixes, config : AgentboxConfig]

\* The empty configuration is one.
LEMMA DefaultIsConfig == DefaultConfig \in AgentboxConfig
  BY DEF DefaultConfig, AgentboxConfig, NoLimits, ResourceLimits

\* What parse_config makes of a content it accepts is a configuration.
LEMMA ParsedIsConfig ==
  ASSUME NEW raw \in Contents, Compatible(raw)
  PROVE  ParseConfig(raw) \in AgentboxConfig
  <1>1. raw \in RawConfig
    BY ContentsAssumption
  <1>2. raw.knownHosts \in SUBSET {"line", "blank", "multiline"}
    BY <1>1 DEF RawConfig
  <1>3. raw.knownHosts \in SUBSET {"line"}
    BY <1>2 DEF Compatible
  <1>4. (IF raw.cpus = NoLimit THEN NoLimit ELSE raw.cpus.text) \in CpuLimits \cup {NoLimit}
    BY DEF Compatible, ParseResourceLimits, ParseCpuValue
  <1>5. raw.memory \in MemoryLimits \cup {NoLimit}
    BY DEF Compatible, ParseResourceLimits
  <1>6. QED
    BY <1>3, <1>4, <1>5 DEF ParseConfig, AgentboxConfig, ResourceLimits

\* The names of backups are numbers, the first one 0.
LEMMA SuffixesAreNumbers ==
  /\ BackupSuffixes \subseteq Nat
  /\ 0 \in BackupSuffixes
  /\ \A s \in Nat : s \in BackupSuffixes <=> s <= MaxEdits + 1
  BY EditsAssumption DEF BackupSuffixes

\* A loader that does not load is in a state of a loader.
LEMMA NotLoadingIsState == NotLoading \in LoaderState /\ NotLoading.at = "idle"
  BY DefaultIsConfig, SuffixesAreNumbers DEF NotLoading, LoaderState

\* The types, with their names.
LEMMA ConfigTypes ==
  ConfigTypeOK <=>
    /\ configFile \in Contents \cup {NoFile}
    /\ backups \in [BackupSuffixes -> Contents \cup {NoFile}]
    /\ loading \in [Loaders -> LoaderState]
    /\ edits \in 0 .. MaxEdits
    /\ wrote \subseteq Contents
    /\ editedMeanwhile \in BOOLEAN
  BY Zenon DEF ConfigTypeOK, LoaderState

\* Before anything is loaded there is the file and no backup.
LEMMA ConfigInvInit ==
  ASSUME NEW file \in Contents \cup {NoFile}, ConfigInit({file})
  PROVE  ConfigInv
  <1>1. ConfigTypeOK
    <2>1. loading \in [Loaders -> LoaderState]
      BY NotLoadingIsState DEF ConfigInit
    <2>3. backups \in [BackupSuffixes -> Contents \cup {NoFile}] /\ wrote \subseteq Contents
      BY DEF ConfigInit
    <2>4. edits \in 0 .. MaxEdits
      BY EditsAssumption DEF ConfigInit
    <2>5. configFile \in Contents \cup {NoFile} /\ editedMeanwhile \in BOOLEAN
      BY DEF ConfigInit
    <2>6. QED
      BY <2>1, <2>3, <2>4, <2>5 DEF ConfigTypeOK, LoaderState
  <1>2. NamesTaken(0)
    BY SuffixesAreNumbers DEF ConfigInit, NamesTaken
  <1>3. \A p \in Loaders : loading[p].at = "idle"
    BY DEF ConfigInit, NotLoading
  <1>4. ConfigSurvives
    BY DEF ConfigInit, ConfigSurvives
  <1>5. QED
    BY <1>1, <1>2, <1>3, <1>4 DEF ConfigInv, AtRename

\* A step that gives one loader a new state without a name, or leaves it one
\* it had passed to, and touches no file.
LEMMA LoaderMoves ==
  ASSUME ConfigInv, NEW p \in Loaders, NEW new \in LoaderState,
         loading' = [loading EXCEPT ![p] = new],
         new.at \in {"check", "rename"} =>
            \A s \in BackupSuffixes : s < new.suffix => backups[s] # NoFile,
         new.at = "rename" => backups[new.suffix] = NoFile,
         UNCHANGED <<configFile, backups, edits, wrote, editedMeanwhile>>
  PROVE  ConfigInv'
  <1>1. ConfigTypeOK'
    BY ConfigTypes DEF ConfigInv, ConfigTypeOK, LoaderState
  <1>2. (\E n \in Nat : NamesTaken(n))'
    BY DEF ConfigInv, NamesTaken
  <1>3. loading \in [Loaders -> LoaderState]
    BY ConfigTypes DEF ConfigInv
  <1>4. \A q \in Loaders : loading'[q] = IF q = p THEN new ELSE loading[q]
    BY <1>3
  <1>5. (\A q \in Loaders : AtRename(q) =>
            \A s \in BackupSuffixes : s < loading[q].suffix => backups[s] # NoFile)'
    BY <1>4 DEF ConfigInv, AtRename
  <1>6. (~editedMeanwhile =>
            \A q \in Loaders : loading[q].at = "rename" /\ configFile # NoFile =>
                backups[loading[q].suffix] = NoFile)'
    BY <1>4 DEF ConfigInv
  <1>7. ConfigSurvives'
    BY DEF ConfigInv, ConfigSurvives
  <1>8. QED
    BY <1>1, <1>2, <1>5, <1>6, <1>7 DEF ConfigInv

\* A loader that has its result holds no name.
LEMMA LoadedKeeps ==
  ASSUME ConfigInv, NEW p \in Loaders, NEW g \in AgentboxConfig, Loaded(p, g),
         UNCHANGED <<configFile, backups, edits, wrote, editedMeanwhile>>
  PROVE  ConfigInv'
  <1> DEFINE new == [NotLoading EXCEPT !.at = "loaded", !.config = g]
  <1>1. loading' = [loading EXCEPT ![p] = new]
    BY DEF Loaded
  <1>2. new \in LoaderState /\ new.at = "loaded"
    BY NotLoadingIsState DEF LoaderState
  <1> HIDE DEF new
  <1>3. QED
    BY <1>1, <1>2, LoaderMoves

\* load_config_with up to the parse.
LEMMA LoadConfigKeeps ==
  ASSUME ConfigInv, NEW p \in Loaders, NEW path \in BOOLEAN, LoadConfig(p, path)
  PROVE  ConfigInv'
  <1>1. configFile \in Contents \cup {NoFile}
    BY DEF ConfigInv, ConfigTypeOK
  <1>2. CASE loading' = [loading EXCEPT ![p].at = "check", ![p].suffix = 0]
    <2> DEFINE new == [loading[p] EXCEPT !.at = "check", !.suffix = 0]
    <2>1. loading \in [Loaders -> LoaderState]
      BY ConfigTypes DEF ConfigInv
    <2>2. loading' = [loading EXCEPT ![p] = new]
      BY <1>2, <2>1, Zenon
    <2>3. loading[p] \in LoaderState
      BY <2>1
    <2>4. new \in LoaderState /\ new.at = "check" /\ new.suffix = 0
      BY <2>3, SuffixesAreNumbers DEF LoaderState
    <2>5. \A s \in BackupSuffixes : ~(s < 0)
      BY SuffixesAreNumbers
    <2> HIDE DEF new
    <2>6. UNCHANGED <<configFile, backups, edits, wrote, editedMeanwhile>>
      BY DEF LoadConfig
    <2>7. QED
      BY <2>2, <2>4, <2>5, <2>6, LoaderMoves
  <1>3. CASE Loaded(p, DefaultConfig)
    BY <1>3, DefaultIsConfig, LoadedKeeps DEF LoadConfig
  <1>4. CASE configFile # NoFile /\ Compatible(configFile) /\ Loaded(p, ParseConfig(configFile))
    BY <1>1, <1>4, ParsedIsConfig, LoadedKeeps DEF LoadConfig
  <1>5. QED
    BY <1>2, <1>3, <1>4 DEF LoadConfig

\* The exists test of one name.
LEMMA CheckBackupKeeps ==
  ASSUME ConfigInv, NEW p \in Loaders, CheckBackup(p)
  PROVE  ConfigInv'
  <1>1. loading \in [Loaders -> LoaderState] /\ edits \in 0 .. MaxEdits
    BY ConfigTypes DEF ConfigInv
  <1>2. loading[p] \in LoaderState
    BY <1>1
  <1> DEFINE k == loading[p].suffix
  <1>3. k \in BackupSuffixes /\ k \in Nat
    BY <1>2, SuffixesAreNumbers DEF LoaderState
  <1>4. UNCHANGED <<configFile, backups, edits, wrote, editedMeanwhile>>
    BY DEF CheckBackup
  <1>5. \A s \in BackupSuffixes : s < k => backups[s] # NoFile
    BY DEF ConfigInv, CheckBackup, AtRename
  <1>6. CASE backups[k] # NoFile
    <2> DEFINE new == [loading[p] EXCEPT !.suffix = k + 1]
    <2>1. k + 1 \in BackupSuffixes
      <3>1. PICK n \in Nat : NamesTaken(n)
        BY DEF ConfigInv
      <3>2. k < n /\ n <= edits + 1
        BY <1>1, <1>3, <1>6, <3>1 DEF NamesTaken
      <3>3. k + 1 <= MaxEdits + 1
        BY <1>1, <1>3, <3>1, <3>2, EditsAssumption
      <3>4. QED
        BY <1>3, <3>3, SuffixesAreNumbers
    <2>2. loading' = [loading EXCEPT ![p] = new]
      BY <1>1, <1>6, Zenon DEF CheckBackup
    <2>3. new \in LoaderState /\ new.at = "check" /\ new.suffix = k + 1
      BY <1>2, <2>1 DEF LoaderState, CheckBackup
    <2>4. \A s \in BackupSuffixes : s < k + 1 => backups[s] # NoFile
      BY <1>3, <1>5, <1>6, SuffixesAreNumbers
    <2> HIDE DEF new, k
    <2>5. QED
      BY <1>4, <2>2, <2>3, <2>4, LoaderMoves
  <1>7. CASE backups[k] = NoFile
    <2> DEFINE new == [loading[p] EXCEPT !.at = "rename"]
    <2>1. loading' = [loading EXCEPT ![p] = new]
      BY <1>1, <1>7, Zenon DEF CheckBackup
    <2>2. new \in LoaderState /\ new.at = "rename" /\ new.suffix = k
      BY <1>2 DEF LoaderState
    <2> HIDE DEF new, k
    <2>3. QED
      BY <1>4, <1>5, <1>7, <2>1, <2>2, LoaderMoves
  <1>8. QED
    BY <1>6, <1>7

\* The command takes its configuration.
LEMMA TakeConfigKeeps ==
  ASSUME ConfigInv, NEW p \in Loaders, TakeConfig(p),
         UNCHANGED <<configFile, backups, edits, wrote, editedMeanwhile>>
  PROVE  ConfigInv'
  BY NotLoadingIsState, LoaderMoves DEF TakeConfig

\* The rename: the name it uses is free or there is nothing to move, unless
\* the user has edited the file since it was read.
LEMMA RenameAsideKeeps ==
  ASSUME ConfigInv, NEW p \in Loaders, RenameAside(p)
  PROVE  ConfigInv'
  <1>1. CASE configFile = NoFile
    BY <1>1, DefaultIsConfig, LoadedKeeps DEF RenameAside
  <1>2. CASE configFile # NoFile
    <2> DEFINE k == loading[p].suffix
               new == [NotLoading EXCEPT !.at = "loaded", !.config = DefaultConfig]
    <2>1. /\ configFile \in Contents
          /\ backups \in [BackupSuffixes -> Contents \cup {NoFile}]
          /\ loading \in [Loaders -> LoaderState]
          /\ edits \in 0 .. MaxEdits
          /\ wrote \subseteq Contents
          /\ editedMeanwhile \in BOOLEAN
      BY <1>2, ConfigTypes DEF ConfigInv
    <2>2. k \in BackupSuffixes /\ k \in Nat
      <3>1. loading[p] \in LoaderState
        BY <2>1
      <3>2. QED
        BY <3>1, SuffixesAreNumbers DEF LoaderState
    <2>3. new \in LoaderState /\ new.at = "loaded"
      BY NotLoadingIsState, DefaultIsConfig DEF LoaderState
    <2>4. loading' = [loading EXCEPT ![p] = new]
      BY DEF RenameAside, Loaded
    <2>5. \A q \in Loaders : loading'[q] = IF q = p THEN new ELSE loading[q]
      BY <2>1, <2>4
    <2>6. /\ configFile' = NoFile
          /\ backups' = [backups EXCEPT ![k] = configFile]
          /\ UNCHANGED <<edits, wrote, editedMeanwhile>>
      BY <1>2 DEF RenameAside
    <2>7. \A s \in BackupSuffixes : backups'[s] = IF s = k THEN configFile ELSE backups[s]
      BY <2>1, <2>6
    <2>8. \A s \in BackupSuffixes : s < k => backups[s] # NoFile
      BY DEF ConfigInv, RenameAside, AtRename
    <2>9. loading' \in [Loaders -> LoaderState]
      <3> HIDE DEF new
      <3>1. QED
        BY <2>1, <2>3, <2>4
    <2> HIDE DEF new, k
    <2>10. ConfigTypeOK'
      <3>1. backups' \in [BackupSuffixes -> Contents \cup {NoFile}]
        BY <2>1, <2>2, <2>6
      <3>2. QED
        BY <2>1, <2>6, <2>9, <3>1 DEF ConfigTypeOK, LoaderState
    <2>11. (\E n \in Nat : NamesTaken(n))'
      <3>1. PICK n \in Nat : NamesTaken(n)
        BY DEF ConfigInv
      <3>2. n + 1 <= edits + 1
        BY <1>2, <3>1 DEF NamesTaken
      <3>3. k <= n
        <4>1. SUFFICES ASSUME n < k PROVE FALSE
          BY <2>2, <3>1
        <4>2. n \in BackupSuffixes
          BY <2>2, <3>1, <4>1, SuffixesAreNumbers, EditsAssumption
        <4>3. QED
          BY <2>8, <3>1, <4>1, <4>2 DEF NamesTaken
      <3> DEFINE m == IF k = n THEN n + 1 ELSE n
      <3>4. m \in Nat /\ m <= edits + 1 /\ edits \in Nat
        BY <2>1, <3>1, <3>2, EditsAssumption
      <3>5. \A s \in BackupSuffixes : backups'[s] # NoFile <=> s < m
        BY <1>2, <2>2, <2>7, <3>1, <3>3, SuffixesAreNumbers DEF NamesTaken
      <3>6. PICK t \in Nat : t = m
        BY <3>4
      <3> HIDE DEF m
      <3>7. NamesTaken(t)'
        BY <2>6, <3>4, <3>5, <3>6 DEF NamesTaken
      <3>8. QED
        BY <3>7
    <2>12. (\A q \in Loaders : AtRename(q) =>
              \A s \in BackupSuffixes : s < loading[q].suffix => backups[s] # NoFile)'
      BY <1>2, <2>3, <2>5, <2>7 DEF ConfigInv, AtRename
    <2>13. ConfigSurvives'
      <3>1. SUFFICES ASSUME ~editedMeanwhile, NEW c \in wrote
                     PROVE  \E s \in BackupSuffixes : backups'[s] = c
        BY <2>6 DEF ConfigSurvives
      <3>2. CASE c = configFile
        BY <2>2, <2>7, <3>2
      <3>3. CASE c # configFile
        <4>1. PICK s \in BackupSuffixes : backups[s] = c
          BY <3>1, <3>3 DEF ConfigInv, ConfigSurvives
        <4>2. backups[k] = NoFile
          BY <1>2, <3>1 DEF ConfigInv, RenameAside, k
        <4>3. c # NoFile
          BY <2>1, ContentsAssumption
        <4>4. QED
          BY <2>7, <4>1, <4>2, <4>3
      <3>4. QED
        BY <3>2, <3>3
    <2>14. QED
      BY <2>6, <2>10, <2>11, <2>12, <2>13 DEF ConfigInv
  <1>3. QED
    BY <1>1, <1>2

\* The user writes a content.
LEMMA EditKeeps ==
  ASSUME ConfigInv, NEW content \in Contents, Edit(content)
  PROVE  ConfigInv'
  <1>1. /\ edits \in 0 .. MaxEdits /\ edits < MaxEdits
        /\ wrote \subseteq Contents
        /\ content # NoFile
    BY ContentsAssumption, ConfigTypes DEF ConfigInv, Edit
  <1>2. ConfigTypeOK'
    <2>1. edits' \in 0 .. MaxEdits
      BY <1>1, EditsAssumption DEF Edit
    <2>2. wrote' \subseteq Contents
      BY <1>1 DEF Edit
    <2>3. editedMeanwhile' \in BOOLEAN
      BY DEF Edit
    <2>4. configFile' \in Contents \cup {NoFile} /\ UNCHANGED <<backups, loading>>
      BY DEF Edit
    <2>5. QED
      BY <2>1, <2>2, <2>3, <2>4 DEF ConfigInv, ConfigTypeOK
  <1>3. (\E n \in Nat : NamesTaken(n))'
    <2>1. PICK n \in Nat : NamesTaken(n)
      BY DEF ConfigInv
    <2>2. n <= edits + 1
      BY <1>1, <2>1 DEF NamesTaken
    <2>3. NamesTaken(n)'
      BY <1>1, <2>1, <2>2 DEF NamesTaken, Edit
    <2>4. QED
      BY <2>3
  <1>4. (\A q \in Loaders : AtRename(q) =>
            \A s \in BackupSuffixes : s < loading[q].suffix => backups[s] # NoFile)'
    BY DEF ConfigInv, AtRename, Edit
  <1>5. ~editedMeanwhile' => ~editedMeanwhile /\ \A q \in Loaders : ~AtRename(q)
    BY Zenon DEF Edit, AtRename
  <1>6. (~editedMeanwhile =>
            \A q \in Loaders : loading[q].at = "rename" /\ configFile # NoFile =>
                backups[loading[q].suffix] = NoFile)'
    BY <1>5 DEF AtRename, Edit
  <1>7. ConfigSurvives'
    BY <1>5 DEF ConfigInv, ConfigSurvives, Edit
  <1>8. QED
    BY <1>2, <1>3, <1>4, <1>6, <1>7 DEF ConfigInv

\* A step that touches no configuration.
LEMMA ConfigUnchanged ==
  ASSUME ConfigInv, UNCHANGED configVars
  PROVE  ConfigInv'
  BY DEF ConfigInv, ConfigTypeOK, NamesTaken, AtRename, ConfigSurvives, configVars

-----------------------------------------------------------------------------
(* The operators of a launch. *)

\* The naturals are well-founded.
LEMMA NaturalOrder ==
  \E L : IsWellFoundedOn(L, Nat) /\ \A x, y \in Nat : <<x, y>> \in L <=> x < y
  <1>1. ASSUME NEW x \in Nat, NEW y \in Nat
        PROVE  <<x, y>> \in OpToRel(<, Nat) <=> x < y
    BY Zenon DEF OpToRel
  <1>2. QED
    BY <1>1, NatLessThanWellFounded, Zenon

\* The least element of a set of naturals that is not empty is in the set.
LEMMA LeastIsIn ==
  ASSUME NEW S, S \subseteq Nat, S # {}
  PROVE  (CHOOSE i \in S : \A j \in S : i <= j) \in S
  <1>1. PICK Less : /\ IsWellFoundedOn(Less, Nat)
                    /\ \A x, y \in Nat : <<x, y>> \in Less <=> x < y
    BY NaturalOrder
  <1>2. PICK x \in S : \A y \in S : ~(<<y, x>> \in Less)
    <2>1. IsWellFoundedOn(Less, Nat)
      BY <1>1
    <2>2. QED
      BY <2>1, WFMin, Zenon
  <1>3. \A y \in S : x <= y
    <2>1. ASSUME NEW y \in S PROVE ~(y < x)
      BY <1>1, <1>2, Zenon
    <2>2. QED
      BY <2>1
  <1>4. QED
    BY <1>3

\* The steps of the preparation follow one another.
LEMMA OrderIs ==
  /\ PreparationOrder[1] = "preflight"
  /\ After("preflight") = "existing"
  /\ After("existing") = "devEnv"
  /\ After("devEnv") = "client"
  /\ After("client") = "image"
  /\ After("image") = "token"
  /\ After("token") = "spec"
  BY DEF After, PreparationOrder

\* The steps, by name.
LEMMA StepsAre ==
  Steps = {"workspace", "config", "git", "knownHosts", "labels", "stop", "run",
           "preflight", "existing", "devEnv", "client", "image", "token", "spec"}
  BY DEF Steps, PreparationOrder

\* The label of an absent limit says what podman is told: nothing.
LEMMA StoredKeepsArgs ==
  ASSUME NEW l \in ResourceLimits
  PROVE  /\ LimitArgs(StoredOrZero(l)) = LimitArgs(l)
         /\ DOMAIN StoredOrZero(l) = Dimensions
         /\ \A d \in Dimensions : StoredOrZero(l)[d] # NoLimit
  BY ContentsAssumption DEF LimitArgs, StoredOrZero, Or, Dimensions, CpuLimits, MemoryLimits

\* The arguments of one dimension.
LEMMA ArgsOfDimension ==
  ASSUME NEW k, NEW l, NEW d \in Dimensions, k[d] = l[d]
  PROVE  {a \in LimitArgs(k) : a[1] = d} = {a \in LimitArgs(l) : a[1] = d}
  BY DEF LimitArgs, Dimensions

\* What a passthrough adds leaves the rest of the specification.
LEMMA PassthroughAdds ==
  ASSUME NEW s, DOMAIN s = SpecFields, NEW ms, NEW e
  PROVE  LET t == ExtendEnv(AddMounts(s, ms), e)
         IN  /\ DOMAIN t = SpecFields /\ t.mode = s.mode /\ t.runtime = s.runtime
             /\ t.limits = s.limits /\ t.labels = s.labels
  BY DEF ExtendEnv, AddMounts, SpecFields

\* The labels recorded last join those there are.
LEMMA LabelsJoin ==
  ASSUME NEW s, DOMAIN s = SpecFields, NEW l, NEW version \in BOOLEAN
  PROVE  LET t == InsertLabels(s, Over(IF version THEN [version |-> "recorded"] ELSE << >>,
                                       [limits |-> l]))
         IN  /\ DOMAIN t = SpecFields /\ t.mode = s.mode /\ t.runtime = s.runtime
             /\ t.limits = s.limits
             /\ "limits" \in DOMAIN t.labels /\ t.labels["limits"] = l
             /\ "serverArgs" \in DOMAIN t.labels <=> "serverArgs" \in DOMAIN s.labels
             /\ "serverArgs" \in DOMAIN s.labels =>
                   t.labels["serverArgs"] = s.labels["serverArgs"]
  <1> DEFINE k == IF version THEN [version |-> "recorded"] ELSE << >>
             both == Over(k, [limits |-> l])
             t == InsertLabels(s, both)
  <1>1. "limits" \notin DOMAIN k /\ "serverArgs" \notin DOMAIN k
    OBVIOUS
  <1> HIDE DEF k
  <1>2. /\ "limits" \in DOMAIN both /\ both["limits"] = l
        /\ "serverArgs" \notin DOMAIN both
    BY <1>1 DEF Over
  <1> HIDE DEF both
  <1>3. t.labels = Over(both, s.labels)
    BY DEF InsertLabels, SpecFields
  <1>4. /\ DOMAIN t = SpecFields /\ t.mode = s.mode /\ t.runtime = s.runtime
        /\ t.limits = s.limits
    BY DEF InsertLabels, SpecFields
  <1> HIDE DEF t
  <1>5. /\ "limits" \in DOMAIN t.labels /\ t.labels["limits"] = l
        /\ "serverArgs" \in DOMAIN t.labels <=> "serverArgs" \in DOMAIN s.labels
        /\ "serverArgs" \in DOMAIN s.labels =>
              t.labels["serverArgs"] = s.labels["serverArgs"]
    BY <1>2, <1>3 DEF Over
  <1>6. QED
    BY <1>4, <1>5 DEF t, both, k

\* The labels of a managed session hold its server arguments.
LEMMA LabelsHoldArgs ==
  ASSUME NEW r, NEW target, NEW args
  PROVE  LET ls == Labels(r, "managed", target, args)
         IN  (IF "serverArgs" \in DOMAIN ls THEN ls["serverArgs"] ELSE <<>>) = args
  <1>1. CASE args = <<>>
    BY <1>1 DEF Labels, Over
  <1>2. CASE args # <<>>
    BY <1>2 DEF Labels, Over
  <1>3. QED
    BY <1>1, <1>2

\* The nearest file is at a level of the repository, or nowhere.
LEMMA NearestIsInside ==
  ASSUME NEW h, NEW top \in Nat, h.gitRootLevel = top, NEW file
  PROVE  NearestFile(h, file) \in 0 .. top
  <1> DEFINE levels == {l \in AncestorDirectories(h) : file \in h.files[l]}
  <1>1. levels \subseteq Nat /\ \A l \in levels : l \in 0 .. top
    BY DEF AncestorDirectories
  <1>2. CASE levels = {}
    BY <1>2 DEF NearestFile, NoLevel
  <1>3. CASE levels # {}
    <2>1. (CHOOSE l \in levels : \A k \in levels : l <= k) \in levels
      <3> HIDE DEF levels
      <3>1. QED
        BY <1>1, <1>3, LeastIsIn
    <2>2. NearestFile(h, file) \in levels
      BY <1>3, <2>1 DEF NearestFile
    <2>3. QED
      BY <1>1, <2>2
  <1>4. QED
    BY <1>2, <1>3

\* So is the development environment.
LEMMA DevEnvIsInRepository ==
  ASSUME NEW h, NEW top \in Nat, h.gitRootLevel = top, NEW mode, NEW e \in ResolveDevEnv(h, mode)
  PROVE  e.level \in 0 .. top
  <1> DEFINE envrc == NearestFile(h, ".envrc")
             devenv == NearestFile(h, "devenv.nix")
             flake == NearestFile(h, "flake.nix")
             attrs == CandidateAttrs(h, flake)
  <1>1. envrc \in 0 .. top /\ devenv \in 0 .. top /\ flake \in 0 .. top
    BY NearestIsInside
  <1>2. NoDevEnv.level \in 0 .. top
    BY DEF NoDevEnv, NoLevel
  <1> HIDE DEF envrc, devenv, flake, attrs
  <1>3. CASE e = NoDevEnv
    BY <1>2, <1>3
  <1>4. CASE e # NoDevEnv
    <2>1. e \in DevEnvOutcomes(h)
      BY <1>4 DEF ResolveDevEnv
    <2>2. \/ e.level = envrc
          \/ e.level = devenv
          \/ e.level = flake
      BY <1>4, <2>1 DEF DevEnvOutcomes, envrc, devenv, flake, attrs
    <2>3. QED
      BY <1>1, <2>2
  <1>5. QED
    BY <1>3, <1>4

-----------------------------------------------------------------------------
(* The steps. *)

\* A command is one of four kinds, and starts a container of a mode.
LEMMA ModeIs ==
  ASSUME NEW c \in Commands
  PROVE  /\ c.kind \in {"start", "restart", "run", "exec"}
         /\ c.runtime \in RuntimeKinds
         /\ c.overrides \in ResourceLimits
         /\ Mode(c) \in RunModes
         /\ c.kind = "restart" => Mode(c) = "managed"
         /\ Mode(c) = "managed" <=> c.kind \in {"start", "restart"}
  BY LaunchAssumption DEF Mode, RunModes

\* What a command starts from.
LEMMA LaunchInvInit ==
  ASSUME Init
  PROVE  LaunchInv
  <1>1. PICK s \in Scenarios : host = s.host /\ command = s.command /\ ConfigInit({s.file})
    BY DEF Init
  <1>2. ConfigInv
    BY <1>1, LaunchAssumption, ConfigInvInit
  <1>3. ControlInv
    <2>1. NoLimits \in ResourceLimits
      BY DEF NoLimits, ResourceLimits
    <2>2. devEnv.level = 0
      BY DEF Init, NoDevEnv, NoLevel
    <2>3. tokenFile \in Tokens
      BY DEF Init, Tokens
    <2>4. /\ host.env \in [Variables -> EnvValues]
          /\ host.dirs \in [StatePaths -> DirStates]
          /\ Len(host.files) \in Nat /\ host.gitRootLevel \in 0 .. Len(host.files)
          /\ command \in Commands
      BY <1>1, LaunchAssumption
    <2>5. pc \in Steps /\ (pc \in {"workspace", "stop"} => command.kind = "restart")
      BY StepsAre DEF Init, FirstStep
    <2>6. 0 \in 0 .. host.gitRootLevel
      BY <2>4
    <2>7. tempFile \in BOOLEAN /\ failedAt = "none" /\ turn = "first"
      BY DEF Init
    <2>8. limits \in ResourceLimits
      BY <2>1 DEF Init
    <2>9. QED
      BY <2>2, <2>3, <2>4, <2>5, <2>6, <2>7, <2>8 DEF ControlInv
  <1>4. Shaped(container) /\ (container.mode = "managed" => container.token = "earlier")
    <2>1. CASE container = NoContainer
      BY <2>1 DEF Shaped, NoContainer
    <2>2. CASE container = Earlier("transient", NoLimits)
      BY <2>2 DEF Shaped, Earlier, RunModes
    <2>3. CASE \E l \in StoredLabels : container = Earlier("managed", l)
      <3>1. PICK l \in StoredLabels : container = Earlier("managed", l)
        BY <2>3
      <3>2. DOMAIN l = Dimensions
        BY LaunchAssumption
      <3>3. QED
        BY <3>1, <3>2 DEF Shaped, Earlier, RunModes
    <2>4. QED
      BY <2>1, <2>2, <2>3 DEF Init
  <1>5. TokenInv
    BY <1>4 DEF Init, TokenInv, FirstStep, PastExisting, BuiltSteps, PreparationFailsCleanly
  <1>6. SpecInv
    BY DEF Init, SpecInv, FirstStep, PastLimits, PastExisting, BuiltSteps, RestartKeepsSession
  <1>7. QED
    BY <1>2, <1>3, <1>5, <1>6 DEF LaunchInv

\* A step of a loader or of the user leaves the launch alone.
LEMMA LaunchUnchanged ==
  ASSUME LaunchInv, ConfigInv', UNCHANGED launchVars
  PROVE  LaunchInv'
  <1>1. ControlInv'
    BY DEF LaunchInv, ControlInv, launchVars
  <1>2. TokenInv'
    BY DEF LaunchInv, TokenInv, PreparationFailsCleanly, launchVars, Shaped, Recorded
  <1>3. SpecInv'
    BY DEF LaunchInv, SpecInv, RestartKeepsSession, KeepsLimits, Recorded, launchVars
  <1>4. QED
    BY <1>1, <1>2, <1>3 DEF LaunchInv

\* A step before the token goes on or ends the preparation.
LEMMA EarlyToken ==
  ASSUME LaunchInv, pc \in EarlySteps,
         UNCHANGED <<command, turn, tokenFile, container, before>>,
         \/ pc' = "failed" /\ failedAt' = pc
         \/ /\ pc' \in EarlySteps \cup {"token"} /\ UNCHANGED failedAt
            /\ pc' \in PastExisting /\ command.kind # "restart" => container.mode # "managed"
  PROVE  TokenInv'
  <1>1. /\ Shaped(container)' /\ Shaped(before.container)'
        /\ (command.kind = "restart" /\ turn = "second" => Recorded(before.container))'
    BY DEF LaunchInv, TokenInv, Shaped, Recorded
  <1>2. container = before.container /\ tokenFile = before.token
    BY DEF LaunchInv, TokenInv, EarlySteps
  <1>3. failedAt' \notin {"run"} /\ pc' \notin {"run", "done"} /\ pc' \notin BuiltSteps \cup {"spec"}
    BY DEF LaunchInv, ControlInv, EarlySteps, BuiltSteps
  <1>4. PreparationFailsCleanly'
    BY <1>2, <1>3 DEF PreparationFailsCleanly, LaunchInv, TokenInv
  <1>5. (pc \in PastExisting /\ command.kind # "restart" => container.mode # "managed")'
    BY DEF PastExisting, BuiltSteps
  <1>6. QED
    BY <1>1, <1>2, <1>3, <1>4, <1>5 DEF LaunchInv, TokenInv

\* A step before the specification is built leaves it alone.
LEMMA EarlySpec ==
  ASSUME LaunchInv, pc' \notin BuiltSteps \cup {"done"},
         command'.kind = "restart" /\ pc' \in PastLimits => KeepsLimits'
  PROVE  SpecInv'
  BY DEF SpecInv, RestartKeepsSession, BuiltSteps

\* The limits decided on stay.
LEMMA LimitsStay ==
  ASSUME LaunchInv, pc \in PastLimits, UNCHANGED <<command, limits, before>>
  PROVE  command'.kind = "restart" => KeepsLimits'
  BY DEF LaunchInv, SpecInv, KeepsLimits

\* A step that only reads, with what it finds about the environment.
LEMMA CheckKeeps ==
  ASSUME LaunchInv, NEW ok \in BOOLEAN,
         NEW step \in {"preflight", "existing", "devEnv", "client", "image"}, Check(step, ok),
         devEnv'.level \in 0 .. host.gitRootLevel,
         step = "existing" /\ ok /\ command.kind # "restart" => container.mode # "managed"
  PROVE  LaunchInv'
  <1>1. /\ pc = step
        /\ UNCHANGED <<host, command, turn, limits, spec, tokenFile, container, before, configVars>>
        /\ \/ pc' = After(step) /\ UNCHANGED <<tempFile, failedAt>> /\ ok
           \/ pc' = "failed" /\ failedAt' = pc /\ tempFile' = FALSE
    BY DEF Check, Goto, Fail
  <1>2. After(step) \in {"existing", "devEnv", "client", "image", "token"}
        /\ (After(step) # "existing" => step # "preflight")
        /\ (After(step) = "existing" => step = "preflight")
    BY OrderIs
  <1>3. ConfigInv'
    BY <1>1, ConfigUnchanged DEF LaunchInv
  <1>4. ControlInv'
    BY <1>1, <1>2, StepsAre DEF LaunchInv, ControlInv
  <1>5. pc \in EarlySteps /\ pc \in PastLimits
    BY <1>1 DEF EarlySteps, PastLimits, PastExisting
  <1>6. TokenInv'
    <2>1. pc' = After(step) => pc' \in EarlySteps \cup {"token"}
      BY <1>2 DEF EarlySteps
    <2>2. pc' = After(step) /\ ok /\ pc' \in PastExisting /\ command.kind # "restart" =>
             container.mode # "managed"
      <3>1. CASE step = "existing"
        BY <3>1
      <3>2. CASE step = "preflight"
        BY <3>2, <1>2, OrderIs DEF PastExisting, BuiltSteps
      <3>3. CASE step \in {"devEnv", "client", "image"}
        BY <3>3, <1>1 DEF LaunchInv, TokenInv, PastExisting
      <3>4. QED
        BY <3>1, <3>2, <3>3
    <2>3. QED
      BY <1>1, <1>5, <2>1, <2>2, EarlyToken
  <1>7. SpecInv'
    <2>1. pc' \notin BuiltSteps \cup {"done"}
      BY <1>1, <1>2 DEF BuiltSteps
    <2>2. QED
      BY <1>1, <1>5, <2>1, EarlySpec, LimitsStay
  <1>8. QED
    BY <1>3, <1>4, <1>6, <1>7 DEF LaunchInv

\* restart_launch_workspace
LEMMA WorkspaceKeeps ==
  ASSUME LaunchInv, RestartLaunchWorkspace
  PROVE  LaunchInv'
  <1>1. /\ pc = "workspace"
        /\ UNCHANGED <<host, command, turn, limits, devEnv, spec, tokenFile, container, before,
                       configVars>>
        /\ \/ pc' = "config" /\ UNCHANGED <<tempFile, failedAt>>
           \/ pc' = "failed" /\ failedAt' = pc /\ tempFile' = FALSE
    BY DEF RestartLaunchWorkspace, Goto, Fail
  <1>2. ConfigInv'
    BY <1>1, ConfigUnchanged DEF LaunchInv
  <1>3. ControlInv'
    BY <1>1, StepsAre DEF LaunchInv, ControlInv
  <1>4. TokenInv'
    BY <1>1, EarlyToken DEF EarlySteps, PastExisting, BuiltSteps
  <1>5. SpecInv'
    BY <1>1, EarlySpec DEF BuiltSteps, PastExisting, PastLimits
  <1>6. QED
    BY <1>2, <1>3, <1>4, <1>5 DEF LaunchInv

\* A command that has its limits goes on to the preflight.
LEMMA LimitsDecided ==
  ASSUME LaunchInv, pc = "config", limits' \in ResourceLimits, ConfigInv',
         UNCHANGED <<host, command, turn, devEnv, spec, tokenFile, container, before>>,
         \/ /\ Goto(PreparationOrder[1])
            /\ command.kind = "restart" =>
                  \A d \in Dimensions :
                      command.overrides[d] = NoLimit /\ container.stored[d] # NoLimit =>
                          limits'[d] = container.stored[d]
         \/ Fail
  PROVE  LaunchInv'
  <1>1. \/ pc' = "preflight" /\ UNCHANGED <<tempFile, failedAt>>
        \/ pc' = "failed" /\ failedAt' = pc /\ tempFile' = FALSE
    BY OrderIs DEF Goto, Fail
  <1>2. ControlInv'
    BY <1>1, StepsAre DEF LaunchInv, ControlInv
  <1>3. TokenInv'
    BY <1>1, EarlyToken DEF EarlySteps, PastExisting, BuiltSteps
  <1>4. SpecInv'
    <2>1. container = before.container
      BY DEF LaunchInv, TokenInv
    <2>2. command'.kind = "restart" /\ pc' \in PastLimits => KeepsLimits'
      BY <2>1 DEF KeepsLimits, PastLimits, PastExisting, BuiltSteps, Fail
    <2>3. QED
      BY <1>1, <2>2, EarlySpec DEF BuiltSteps
  <1>5. QED
    BY <1>2, <1>3, <1>4 DEF LaunchInv

\* An override or the value, per dimension.
LEMMA LimitsAreTyped ==
  ASSUME NEW f \in [Dimensions -> (CpuLimits \cup MemoryLimits) \cup {NoLimit}],
         f["cpus"] \in CpuLimits \cup {NoLimit}, f["memory"] \in MemoryLimits \cup {NoLimit}
  PROVE  f \in ResourceLimits
  BY DEF ResourceLimits, Dimensions

\* restart_resource_limits and overlay give limits.
LEMMA OverlayIsTyped ==
  ASSUME NEW l \in ResourceLimits, NEW o \in ResourceLimits
  PROVE  Overlay(l, o) \in ResourceLimits
  <1>1. /\ l["cpus"] \in CpuLimits \cup {NoLimit} /\ l["memory"] \in MemoryLimits \cup {NoLimit}
        /\ o["cpus"] \in CpuLimits \cup {NoLimit} /\ o["memory"] \in MemoryLimits \cup {NoLimit}
    BY DEF ResourceLimits
  <1>2. /\ Overlay(l, o)["cpus"] \in CpuLimits \cup {NoLimit}
        /\ Overlay(l, o)["memory"] \in MemoryLimits \cup {NoLimit}
    BY <1>1 DEF Overlay, Or, Dimensions
  <1>3. Overlay(l, o) \in [Dimensions -> (CpuLimits \cup MemoryLimits) \cup {NoLimit}]
    BY <1>1 DEF Overlay, Or, Dimensions
  <1>4. QED
    BY <1>2, <1>3, LimitsAreTyped

\* The same with stored labels that parse.
LEMMA RestartLimitsAreTyped ==
  ASSUME NEW labels, LabelsParse(labels), NEW o \in ResourceLimits, NEW g \in AgentboxConfig
  PROVE  RestartLimits(labels, o, g) \in ResourceLimits
  <1>1. g.limits \in ResourceLimits
    BY DEF AgentboxConfig
  <1> DEFINE m == g.limits
  <1>2. m \in ResourceLimits
    BY <1>1
  <1>3. RestartLimits(labels, o, g) = [d \in Dimensions |-> Or(o[d], Or(labels[d], m[d]))]
    BY DEF RestartLimits
  <1> HIDE DEF m
  <1>4. /\ m["cpus"] \in CpuLimits \cup {NoLimit} /\ m["memory"] \in MemoryLimits \cup {NoLimit}
        /\ o["cpus"] \in CpuLimits \cup {NoLimit} /\ o["memory"] \in MemoryLimits \cup {NoLimit}
    BY <1>2 DEF ResourceLimits
  <1>5. /\ labels["cpus"] \in CpuLimits \cup {NoLimit}
        /\ labels["memory"] \in MemoryLimits \cup {NoLimit}
    BY DEF LabelsParse
  <1> DEFINE f == [d \in Dimensions |-> Or(o[d], Or(labels[d], m[d]))]
  <1>6. /\ f["cpus"] \in CpuLimits \cup {NoLimit} /\ f["memory"] \in MemoryLimits \cup {NoLimit}
    BY <1>4, <1>5 DEF Or, Dimensions
  <1>7. f \in [Dimensions -> (CpuLimits \cup MemoryLimits) \cup {NoLimit}]
    BY <1>4, <1>5 DEF Or, Dimensions
  <1>8. QED
    BY <1>3, <1>6, <1>7, LimitsAreTyped

\* The configuration a loader holds is one.
LEMMA LoadedIsConfig ==
  ASSUME LaunchInv
  PROVE  /\ loading["launch"].config \in AgentboxConfig
         /\ loading["launch"].config.limits \in ResourceLimits
  <1>1. "launch" \in Loaders
    BY LaunchAssumption
  <1>2. loading["launch"] \in LoaderState
    BY <1>1, ConfigTypes DEF LaunchInv, ConfigInv
  <1>3. loading["launch"].config \in AgentboxConfig
    BY <1>2 DEF LoaderState
  <1>4. QED
    BY <1>3 DEF AgentboxConfig

\* The limits of a start or a run, of a restart, and of an exec.
LEMMA TakeLimitsKeeps ==
  ASSUME LaunchInv, TakeLimits
  PROVE  LaunchInv'
  <1>1. ConfigInv'
    BY LaunchAssumption, TakeConfigKeeps DEF LaunchInv, TakeLimits
  <1>2. /\ pc = "config" /\ command \in Commands /\ limits \in ResourceLimits
        /\ UNCHANGED <<host, command, turn, devEnv, spec, tokenFile, container, before>>
    BY DEF TakeLimits, LaunchInv, ControlInv
  <1>3. command.overrides \in ResourceLimits
    BY <1>2, ModeIs
  <1>4. CASE command.kind # "restart"
    <2>1. limits' \in ResourceLimits
      BY <1>3, <1>4, LoadedIsConfig, OverlayIsTyped DEF TakeLimits
    <2>2. Goto(PreparationOrder[1])
      BY <1>4 DEF TakeLimits
    <2>3. QED
      BY <1>1, <1>2, <1>4, <2>1, <2>2, LimitsDecided
  <1>5. CASE command.kind = "restart" /\ LabelsParse(container.stored)
    <2>1. limits' = RestartLimits(container.stored, command.overrides, loading["launch"].config)
      BY <1>5 DEF TakeLimits
    <2>2. limits' \in ResourceLimits
      BY <1>3, <1>5, <2>1, LoadedIsConfig, RestartLimitsAreTyped
    <2>3. \A d \in Dimensions :
             command.overrides[d] = NoLimit /\ container.stored[d] # NoLimit =>
                 limits'[d] = container.stored[d]
      BY <2>1 DEF RestartLimits, Or
    <2>4. Goto(PreparationOrder[1])
      BY <1>5 DEF TakeLimits
    <2>5. QED
      BY <1>1, <1>2, <2>2, <2>3, <2>4, LimitsDecided
  <1>6. CASE command.kind = "restart" /\ ~LabelsParse(container.stored)
    <2>1. Fail /\ limits' = limits
      BY <1>6 DEF TakeLimits
    <2>2. QED
      BY <1>1, <1>2, <2>1, LimitsDecided
  <1>7. QED
    BY <1>4, <1>5, <1>6

\* foreground_launch_request
LEMMA ExecLimitsKeeps ==
  ASSUME LaunchInv, ExecLimits
  PROVE  LaunchInv'
  <1>1. ConfigInv'
    BY ConfigUnchanged DEF LaunchInv, ExecLimits
  <1>2. limits' \in ResourceLimits
    BY DEF ExecLimits, NoLimits, ResourceLimits
  <1>3. QED
    BY <1>1, <1>2, LimitsDecided DEF ExecLimits

\* The steps that only read.
LEMMA ReadingKeeps ==
  ASSUME LaunchInv,
         \/ CheckPreflight \/ CheckExisting \/ ResolveEnvironment \/ CheckClient \/ EnsureImage
  PROVE  LaunchInv'
  <1>1. devEnv.level \in 0 .. host.gitRootLevel /\ command \in Commands
    BY DEF LaunchInv, ControlInv
  <1>2. CASE CheckPreflight
    <2> DEFINE ok == Passes(host, command.runtime, Mode(command))
    <2>1. ok \in BOOLEAN
      BY Zenon DEF Passes
    <2>2. Check("preflight", ok) /\ devEnv' = devEnv
      BY <1>2 DEF CheckPreflight
    <2>3. QED
      BY <1>1, <2>1, <2>2, CheckKeeps
  <1>3. CASE CheckExisting
    <2> DEFINE ok == ~Blocks(command)
    <2>1. ok \in BOOLEAN
      OBVIOUS
    <2>2. Check("existing", ok) /\ devEnv' = devEnv
      BY <1>3 DEF CheckExisting
    <2>3. ok /\ command.kind # "restart" => container.mode # "managed"
      BY <1>1, ModeIs DEF Blocks
    <2>4. QED
      BY <1>1, <2>1, <2>2, <2>3, CheckKeeps
  <1>4. CASE ResolveEnvironment
    <2> DEFINE outcomes == ResolveDevEnv(host, command.devEnv)
               ok == outcomes # {}
    <2>1. ok \in BOOLEAN
      OBVIOUS
    <2>2. Check("devEnv", ok) /\ (devEnv' = devEnv \/ devEnv' \in outcomes)
      BY <1>4 DEF ResolveEnvironment
    <2>3. host.gitRootLevel \in Nat
      BY DEF LaunchInv, ControlInv
    <2>4. devEnv'.level \in 0 .. host.gitRootLevel
      BY <1>1, <2>2, <2>3, DevEnvIsInRepository
    <2>5. QED
      BY <2>1, <2>2, <2>4, CheckKeeps
  <1>5. CASE CheckClient
    <2> DEFINE ok == ClientRequired(command) => HostClient(command.runtime) \in host.commands
    <2>1. ok \in BOOLEAN
      OBVIOUS
    <2>2. Check("client", ok) /\ devEnv' = devEnv
      BY <1>5 DEF CheckClient
    <2>3. QED
      BY <1>1, <2>1, <2>2, CheckKeeps
  <1>6. CASE EnsureImage
    BY <1>1, <1>6, CheckKeeps DEF EnsureImage
  <1>7. QED
    BY <1>2, <1>3, <1>4, <1>5, <1>6

\* prepare_codex_attach_token
LEMMA PrepareTokenKeeps ==
  ASSUME LaunchInv, PrepareToken
  PROVE  LaunchInv'
  <1>1. /\ pc = "token" /\ command \in Commands /\ turn \in {"first", "second"}
        /\ UNCHANGED <<host, command, turn, limits, devEnv, spec, container, before, configVars>>
    BY DEF PrepareToken, LaunchInv, ControlInv
  <1>2. \/ pc' = "spec" /\ UNCHANGED <<tempFile, failedAt>>
        \/ pc' = "failed" /\ failedAt' = pc /\ tempFile' = FALSE
    BY OrderIs DEF PrepareToken, Goto, Fail
  <1>3. pc' = "spec" =>
           tokenFile' = IF command.runtime = "codex" /\ Mode(command) = "managed"
                        THEN turn ELSE tokenFile
    BY DEF PrepareToken, Goto, Fail
  <1>4. tokenFile' \in Tokens
    BY <1>1 DEF PrepareToken, LaunchInv, ControlInv, Tokens
  <1>5. ConfigInv'
    BY <1>1, ConfigUnchanged DEF LaunchInv
  <1>6. ControlInv'
    BY <1>1, <1>2, <1>4, StepsAre DEF LaunchInv, ControlInv
  <1>7. TokenInv'
    <2>1. /\ Shaped(container)' /\ Shaped(before.container)'
          /\ (command.kind = "restart" /\ turn = "second" => Recorded(before.container))'
      BY <1>1 DEF LaunchInv, TokenInv, Shaped, Recorded
    <2>2. container = before.container /\ failedAt = "none"
      BY <1>1 DEF LaunchInv, TokenInv, ControlInv
    <2>3. PreparationFailsCleanly'
      BY <1>1, <1>2, <2>2 DEF PreparationFailsCleanly
    <2>4. (pc \in PastExisting /\ command.kind # "restart" => container.mode # "managed")'
      BY <1>1 DEF LaunchInv, TokenInv, PastExisting
    <2>5. (pc \in EarlySteps \cup {"token"} => tokenFile = before.token)'
      BY <1>2 DEF EarlySteps
    <2>6. (pc \in BuiltSteps \cup {"spec"} /\ command.runtime = "codex"
             /\ Mode(command) = "managed" => tokenFile = turn)'
      BY <1>1, <1>2, <1>3 DEF BuiltSteps
    <2>7. QED
      BY <1>1, <1>2, <2>1, <2>2, <2>3, <2>4, <2>5, <2>6 DEF LaunchInv, TokenInv
  <1>8. SpecInv'
    BY <1>1, <1>2, EarlySpec, LimitsStay DEF PastLimits, PastExisting, BuiltSteps
  <1>9. QED
    BY <1>5, <1>6, <1>7, <1>8 DEF LaunchInv

\* The steps that write the specification leave the rest alone.
LEMMA WritingSpec ==
  ASSUME LaunchInv, pc \in {"spec", "git", "knownHosts", "labels"},
         pc' \in BuiltSteps, pc' = "stop" => command.kind = "restart",
         pc' = "run" => command.kind # "restart",
         tempFile' \in BOOLEAN, ConfigInv',
         UNCHANGED <<host, command, turn, limits, devEnv, tokenFile, container, before, failedAt>>
  PROVE  /\ ControlInv' /\ TokenInv'
         /\ SpecInv' <=>
               /\ DOMAIN spec' = SpecFields
               /\ spec'.mode = Mode(command) /\ spec'.runtime = command.runtime
               /\ spec'.limits = limits
               /\ command.kind = "restart" =>
                     (IF "serverArgs" \in DOMAIN spec'.labels THEN spec'.labels["serverArgs"]
                                                              ELSE <<>>)
                         = before.container.serverArgs
               /\ pc' \in {"stop", "run"} /\ Mode(command) = "managed" =>
                     "limits" \in DOMAIN spec'.labels
                       /\ spec'.labels["limits"] = StoredOrZero(limits)
  <1>1. ControlInv'
    BY StepsAre DEF LaunchInv, ControlInv, BuiltSteps
  <1>2. TokenInv'
    <2>1. /\ Shaped(container)' /\ Shaped(before.container)'
          /\ (command.kind = "restart" /\ turn = "second" => Recorded(before.container))'
      BY DEF LaunchInv, TokenInv, Shaped, Recorded
    <2>2. container = before.container
      BY DEF LaunchInv, TokenInv
    <2>3. PreparationFailsCleanly'
      BY DEF PreparationFailsCleanly, BuiltSteps
    <2>4. (pc \in PastExisting /\ command.kind # "restart" => container.mode # "managed")'
      BY DEF LaunchInv, TokenInv, PastExisting, BuiltSteps
    <2>5. pc' \notin EarlySteps \cup {"token", "done", "failed"}
      BY DEF EarlySteps, BuiltSteps
    <2>6. (pc \in BuiltSteps \cup {"spec"} /\ command.runtime = "codex"
             /\ Mode(command) = "managed" => tokenFile = turn)'
      BY DEF LaunchInv, TokenInv, BuiltSteps
    <2>7. QED
      BY <2>1, <2>2, <2>3, <2>4, <2>5, <2>6 DEF LaunchInv, TokenInv
  <1>3. command.kind = "restart" => KeepsLimits'
    BY LimitsStay DEF PastLimits, PastExisting, BuiltSteps
  <1>4. pc' # "done"
    BY DEF BuiltSteps
  <1>5. QED
    BY <1>1, <1>2, <1>3, <1>4 DEF SpecInv, RestartKeepsSession

\* run_spec and the Wayland socket
LEMMA BuildSpecKeeps ==
  ASSUME LaunchInv, BuildSpec
  PROVE  LaunchInv'
  <1> DEFINE report == PreflightReport(host, command.runtime, Mode(command))
             created == RunSpec(command.runtime, Mode(command), GitRoot(host), 1, report.nixMounts,
                                report.stateMounts, Invocation, ServerArgs, limits)
             wayland == Wayland(host)
             extended == ExtendEnv(created, report.environment)
  <1>1. /\ pc = "spec" /\ pc' = "git" /\ UNCHANGED <<tempFile, failedAt>>
        /\ spec' = ExtendEnv(AddMounts(extended, wayland.mounts), wayland.env)
        /\ UNCHANGED <<host, command, turn, limits, devEnv, tokenFile, container, before, configVars>>
    BY DEF BuildSpec, Goto
  <1> HIDE DEF report, wayland
  <1>2. ConfigInv' /\ tempFile' \in BOOLEAN
    BY <1>1, ConfigUnchanged DEF LaunchInv, ControlInv
  <1>3. /\ DOMAIN created = SpecFields
        /\ created.mode = Mode(command) /\ created.runtime = command.runtime
        /\ created.limits = limits
        /\ created.labels = Labels(command.runtime, Mode(command), 1, ServerArgs)
    BY DEF RunSpec, SpecFields
  <1> HIDE DEF created
  <1>4. /\ DOMAIN extended = SpecFields
        /\ extended.mode = created.mode /\ extended.runtime = created.runtime
        /\ extended.limits = created.limits /\ extended.labels = created.labels
    BY <1>3 DEF ExtendEnv, SpecFields
  <1> HIDE DEF extended
  <1>5. /\ DOMAIN spec' = SpecFields
        /\ spec'.mode = Mode(command) /\ spec'.runtime = command.runtime
        /\ spec'.limits = limits
        /\ spec'.labels = Labels(command.runtime, Mode(command), 1, ServerArgs)
    BY <1>1, <1>3, <1>4, PassthroughAdds
  <1>6. command.kind = "restart" =>
           (IF "serverArgs" \in DOMAIN spec'.labels THEN spec'.labels["serverArgs"] ELSE <<>>)
               = before.container.serverArgs
    <2>1. SUFFICES ASSUME command.kind = "restart"
                   PROVE  (IF "serverArgs" \in DOMAIN spec'.labels
                           THEN spec'.labels["serverArgs"] ELSE <<>>)
                              = before.container.serverArgs
      OBVIOUS
    <2>2. ServerArgs = before.container.serverArgs
      BY <1>1, <2>1 DEF ServerArgs, LaunchInv, TokenInv
    <2>3. Mode(command) = "managed"
      BY <2>1 DEF Mode
    <2>4. QED
      BY <1>5, <2>2, <2>3, LabelsHoldArgs
  <1>7. pc' \in BuiltSteps
    BY <1>1 DEF BuiltSteps
  <1>8. QED
    BY <1>1, <1>2, <1>5, <1>6, <1>7, WritingSpec DEF LaunchInv

\* What is passed through joins the specification.
LEMMA PassKeeps ==
  ASSUME LaunchInv, NEW ms, NEW e, pc \in {"git", "knownHosts"}, pc' \in {"knownHosts", "labels"},
         spec' = ExtendEnv(AddMounts(spec, ms), e), tempFile' \in BOOLEAN, ConfigInv',
         UNCHANGED <<host, command, turn, limits, devEnv, tokenFile, container, before, failedAt>>
  PROVE  LaunchInv'
  <1>1. /\ DOMAIN spec = SpecFields
        /\ spec.mode = Mode(command) /\ spec.runtime = command.runtime /\ spec.limits = limits
        /\ command.kind = "restart" =>
              (IF "serverArgs" \in DOMAIN spec.labels THEN spec.labels["serverArgs"] ELSE <<>>)
                  = before.container.serverArgs
    BY DEF LaunchInv, SpecInv, BuiltSteps
  <1>2. /\ DOMAIN spec' = SpecFields
        /\ spec'.mode = spec.mode /\ spec'.runtime = spec.runtime /\ spec'.limits = spec.limits
        /\ spec'.labels = spec.labels
    BY <1>1, PassthroughAdds
  <1>3. pc' \in BuiltSteps
    BY DEF BuiltSteps
  <1>4. QED
    BY <1>1, <1>2, <1>3, WritingSpec DEF LaunchInv

\* apply_git_and_ssh_passthrough up to the known hosts
LEMMA PassGitKeeps ==
  ASSUME LaunchInv, PassGitAndAgent
  PROVE  LaunchInv'
  <1>1. ConfigInv' /\ tempFile' \in BOOLEAN
    BY ConfigUnchanged DEF LaunchInv, ControlInv, PassGitAndAgent, Goto
  <1>2. QED
    BY <1>1, PassKeeps DEF PassGitAndAgent, Goto

\* prepare_with
LEMMA PassKnownHostsKeeps ==
  ASSUME LaunchInv, PassKnownHosts
  PROVE  LaunchInv'
  <1>1. ConfigInv'
    BY LaunchAssumption, TakeConfigKeeps DEF LaunchInv, PassKnownHosts
  <1>2. tempFile' \in BOOLEAN
    BY Zenon DEF PassKnownHosts, GuardHeld
  <1>3. QED
    BY <1>1, <1>2, PassKeeps DEF PassKnownHosts

\* record_managed_resource_limits
LEMMA RecordLabelsKeeps ==
  ASSUME LaunchInv, RecordLabels
  PROVE  LaunchInv'
  <1>1. /\ pc = "labels" /\ pc' = (IF command.kind = "restart" THEN "stop" ELSE "run")
        /\ UNCHANGED <<tempFile, failedAt>>
        /\ UNCHANGED <<host, command, turn, limits, devEnv, tokenFile, container, before, configVars>>
    BY DEF RecordLabels, Goto
  <1>2. ConfigInv' /\ tempFile' \in BOOLEAN
    BY <1>1, ConfigUnchanged DEF LaunchInv, ControlInv
  <1>3. /\ DOMAIN spec = SpecFields
        /\ spec.mode = Mode(command) /\ spec.runtime = command.runtime /\ spec.limits = limits
        /\ command.kind = "restart" =>
              (IF "serverArgs" \in DOMAIN spec.labels THEN spec.labels["serverArgs"] ELSE <<>>)
                  = before.container.serverArgs
    BY <1>1 DEF LaunchInv, SpecInv, BuiltSteps
  <1>4. pc' \in BuiltSteps
    BY <1>1 DEF BuiltSteps
  <1>5. CASE Mode(command) # "managed"
    <2>1. spec' = spec
      BY <1>5 DEF RecordLabels
    <2>2. QED
      BY <1>1, <1>2, <1>3, <1>4, <1>5, <2>1, WritingSpec DEF LaunchInv
  <1>6. CASE Mode(command) = "managed"
    <2>1. PICK version \in BOOLEAN :
             spec' = InsertLabels(spec, Over(IF version THEN [version |-> "recorded"] ELSE << >>,
                                             [limits |-> StoredOrZero(limits)]))
      BY <1>6 DEF RecordLabels
    <2>2. /\ DOMAIN spec' = SpecFields /\ spec'.mode = spec.mode /\ spec'.runtime = spec.runtime
          /\ spec'.limits = spec.limits
          /\ "limits" \in DOMAIN spec'.labels /\ spec'.labels["limits"] = StoredOrZero(limits)
          /\ "serverArgs" \in DOMAIN spec'.labels <=> "serverArgs" \in DOMAIN spec.labels
          /\ "serverArgs" \in DOMAIN spec.labels =>
                spec'.labels["serverArgs"] = spec.labels["serverArgs"]
      BY <1>3, <2>1, LabelsJoin
    <2>3. QED
      BY <1>1, <1>2, <1>3, <1>4, <1>6, <2>2, WritingSpec DEF LaunchInv
  <1>7. QED
    BY <1>5, <1>6

\* restart stops the session it found.
LEMMA StopExistingKeeps ==
  ASSUME LaunchInv, StopExisting
  PROVE  LaunchInv'
  <1>1. /\ pc = "stop" /\ command \in Commands /\ command.kind = "restart"
        /\ container = before.container
        /\ UNCHANGED <<host, command, turn, limits, devEnv, spec, tokenFile, before, configVars>>
        /\ \/ container' = NoContainer /\ pc' = "run" /\ UNCHANGED <<tempFile, failedAt>>
           \/ /\ container' \in {container, NoContainer}
              /\ pc' = "failed" /\ failedAt' = pc /\ tempFile' = FALSE
    BY DEF StopExisting, Goto, Fail, LaunchInv, ControlInv, TokenInv
  <1>2. ConfigInv'
    BY <1>1, ConfigUnchanged DEF LaunchInv
  <1>3. ControlInv'
    BY <1>1, StepsAre DEF LaunchInv, ControlInv
  <1>4. Shaped(NoContainer)
    BY DEF Shaped, NoContainer
  <1>5. TokenInv'
    <2>1. /\ Shaped(container)' /\ Shaped(before.container)'
          /\ (command.kind = "restart" /\ turn = "second" => Recorded(before.container))'
      BY <1>1, <1>4 DEF LaunchInv, TokenInv, Shaped, Recorded
    <2>2. PreparationFailsCleanly'
      BY <1>1 DEF PreparationFailsCleanly
    <2>3. (pc \in EarlySteps \cup {"token"} => tokenFile = before.token)'
      BY <1>1 DEF EarlySteps
    <2>4. (pc \in BuiltSteps \cup {"spec"} /\ command.runtime = "codex"
             /\ Mode(command) = "managed" => tokenFile = turn)'
      BY <1>1 DEF LaunchInv, TokenInv, BuiltSteps
    <2>5. QED
      BY <1>1, <2>1, <2>2, <2>3, <2>4 DEF LaunchInv, TokenInv
  <1>6. SpecInv'
    <2>1. KeepsLimits'
      BY <1>1, LimitsStay DEF PastLimits, PastExisting, BuiltSteps
    <2>2. QED
      BY <1>1, <2>1 DEF LaunchInv, SpecInv, RestartKeepsSession, BuiltSteps
  <1>7. QED
    BY <1>2, <1>3, <1>5, <1>6 DEF LaunchInv

\* The container podman run makes of the specification.
LEMMA StartedIs ==
  ASSUME LaunchInv, pc = "run"
  PROVE  /\ Started.mode = Mode(command) /\ Started.runtime = command.runtime
         /\ Started.runtime = "codex" => Started.token = turn
         /\ Started.args = LimitArgs(limits)
         /\ Mode(command) = "managed" => Started.stored = StoredOrZero(limits)
         /\ command.kind # "restart" => Started.replaces = {}
         /\ command.kind = "restart" =>
               /\ Started.serverArgs = before.container.serverArgs
               /\ Started.replaces =
                     {[stored |-> before.container.stored, args |-> before.container.args,
                       serverArgs |-> before.container.serverArgs]}
  <1>1. /\ spec.mode = Mode(command) /\ spec.runtime = command.runtime /\ spec.limits = limits
        /\ command.kind = "restart" =>
              (IF "serverArgs" \in DOMAIN spec.labels THEN spec.labels["serverArgs"] ELSE <<>>)
                  = before.container.serverArgs
    BY DEF LaunchInv, SpecInv, BuiltSteps
  <1>2. Mode(command) = "managed" =>
           "limits" \in DOMAIN spec.labels /\ spec.labels["limits"] = StoredOrZero(limits)
    BY DEF LaunchInv, SpecInv
  <1>3. /\ Started.mode = spec.mode /\ Started.runtime = spec.runtime
        /\ Started.token = (IF spec.runtime = "codex" THEN turn ELSE "none")
        /\ Started.args = LimitArgs(spec.limits)
        /\ Started.serverArgs =
              (IF "serverArgs" \in DOMAIN spec.labels THEN spec.labels["serverArgs"] ELSE <<>>)
        /\ Started.stored =
              (IF "limits" \in DOMAIN spec.labels THEN spec.labels["limits"] ELSE NoLimits)
        /\ Started.replaces = IF command.kind # "restart" THEN {}
              ELSE {[stored |-> before.container.stored, args |-> before.container.args,
                     serverArgs |-> before.container.serverArgs]}
    BY Zenon DEF Started
  <1>4. QED
    BY <1>1, <1>2, <1>3

\* podman run
LEMMA RunContainerKeeps ==
  ASSUME LaunchInv, RunContainer
  PROVE  LaunchInv'
  <1>1. /\ pc = "run" /\ command \in Commands /\ failedAt = "none" /\ limits \in ResourceLimits
        /\ UNCHANGED <<host, command, turn, limits, devEnv, spec, tokenFile, before, configVars>>
        /\ \/ container = NoContainer /\ container' = Started
           \/ UNCHANGED container /\ pc' = "failed"
        /\ tempFile' = FALSE
        /\ \/ pc' = "done" /\ UNCHANGED failedAt
           \/ pc' = "failed" /\ failedAt' = pc
    BY DEF RunContainer, Fail, LaunchInv, ControlInv
  <1>2. ConfigInv'
    BY <1>1, ConfigUnchanged DEF LaunchInv
  <1>3. ControlInv'
    BY <1>1, StepsAre DEF LaunchInv, ControlInv
  <1>4. /\ Shaped(before.container)'
        /\ (command.kind = "restart" /\ turn = "second" => Recorded(before.container))'
    BY <1>1 DEF LaunchInv, TokenInv, Shaped, Recorded
  <1>5. pc' \notin EarlySteps \cup BuiltSteps \cup PastLimits \cup {"token", "spec"}
    BY <1>1 DEF EarlySteps, BuiltSteps, PastLimits, PastExisting
  <1>6. /\ command.kind # "restart" => container.mode # "managed"
        /\ command.kind = "restart" => container = NoContainer
        /\ NoContainer.mode = "none"
    BY <1>1 DEF LaunchInv, TokenInv, PastExisting, BuiltSteps, NoContainer
  <1>7. command.runtime = "codex" /\ Mode(command) = "managed" => tokenFile = turn
    BY <1>1 DEF LaunchInv, TokenInv, BuiltSteps
  <1>8. CASE /\ container' = Started
             /\ \/ pc' = "done" /\ failedAt' = "none"
                \/ pc' = "failed" /\ failedAt' = "run"
    <2>1. /\ container'.mode = Mode(command) /\ container'.runtime = command.runtime
          /\ container'.runtime = "codex" => container'.token = turn
          /\ container'.args = LimitArgs(limits)
          /\ Mode(command) = "managed" => container'.stored = StoredOrZero(limits)
          /\ command.kind # "restart" => container'.replaces = {}
          /\ command.kind = "restart" =>
                /\ container'.serverArgs = before.container.serverArgs
                /\ container'.replaces =
                      {[stored |-> before.container.stored, args |-> before.container.args,
                        serverArgs |-> before.container.serverArgs]}
      BY <1>1, <1>8, StartedIs
    <2>2. Mode(command) \in RunModes
      BY <1>1, ModeIs
    <2>3. Shaped(container)'
      <3>1. container'.mode \in RunModes \cup {"none"} /\ container'.mode # "none"
        BY <2>1, <2>2 DEF RunModes
      <3>2. container'.mode = "managed" =>
               DOMAIN container'.stored = Dimensions
               /\ container'.args = LimitArgs(container'.stored)
        BY <1>1, <2>1, StoredKeepsArgs
      <3>3. QED
        BY <3>1, <3>2 DEF Shaped
    <2>4. PreparationFailsCleanly'
      BY <1>1, <1>7, <1>8, <2>1 DEF PreparationFailsCleanly
    <2>5. TokenInv'
      BY <1>1, <1>4, <1>5, <1>8, <2>3, <2>4 DEF LaunchInv, TokenInv, PastLimits
    <2>6. (container.mode = "managed" => Recorded(container))'
      BY <1>1, <2>1, StoredKeepsArgs DEF Recorded
    <2>7. RestartKeepsSession'
      <3>1. SUFFICES ASSUME container'.mode = "managed", NEW old \in container'.replaces
                     PROVE  /\ container'.serverArgs = old.serverArgs
                            /\ \A d \in Dimensions :
                                  command'.overrides[d] = NoLimit
                                  /\ (turn' = "second" \/ old.stored[d] # NoLimit) =>
                                      {a \in container'.args : a[1] = d}
                                        = {a \in old.args : a[1] = d}
        BY DEF RestartKeepsSession
      <3>2. command.kind = "restart"
        BY <2>1, <3>1
      <3>3. /\ old.serverArgs = before.container.serverArgs
            /\ old.stored = before.container.stored /\ old.args = before.container.args
        BY <2>1, <3>1, <3>2
      <3>4. before.container.mode = "managed" /\ before.container.args = LimitArgs(before.container.stored)
        BY <3>2 DEF LaunchInv, TokenInv, Shaped
      <3>5. KeepsLimits
        BY <1>1, <3>2 DEF LaunchInv, SpecInv, PastLimits, PastExisting, BuiltSteps
      <3>6. ASSUME NEW d \in Dimensions, command'.overrides[d] = NoLimit,
                   turn' = "second" \/ old.stored[d] # NoLimit
            PROVE  {a \in container'.args : a[1] = d} = {a \in old.args : a[1] = d}
        <4>1. before.container.stored[d] # NoLimit
          BY <1>1, <3>2, <3>3, <3>6 DEF LaunchInv, TokenInv, Recorded
        <4>2. limits[d] = before.container.stored[d]
          BY <1>1, <3>5, <3>6, <4>1 DEF KeepsLimits
        <4>3. {a \in LimitArgs(limits) : a[1] = d}
                = {a \in LimitArgs(before.container.stored) : a[1] = d}
          BY <4>2, ArgsOfDimension
        <4>4. QED
          BY <2>1, <3>3, <3>4, <4>3
      <3>7. QED
        BY <2>1, <3>2, <3>3, <3>6
    <2>8. SpecInv'
      BY <1>5, <1>8, <2>6, <2>7 DEF SpecInv, PastLimits, PastExisting, BuiltSteps
    <2>9. QED
      BY <1>2, <1>3, <2>5, <2>8 DEF LaunchInv
  <1>9. CASE container' = container /\ pc' = "failed" /\ failedAt' = "run"
    <2>1. Shaped(container)'
      BY <1>9 DEF LaunchInv, TokenInv, Shaped
    <2>2. PreparationFailsCleanly'
      BY <1>6, <1>9 DEF PreparationFailsCleanly
    <2>3. TokenInv'
      BY <1>1, <1>4, <1>5, <1>9, <2>1, <2>2 DEF LaunchInv, TokenInv, PastLimits
    <2>4. SpecInv'
      BY <1>5, <1>9 DEF SpecInv, RestartKeepsSession, PastLimits, PastExisting, BuiltSteps
    <2>5. QED
      BY <1>2, <1>3, <2>3, <2>4 DEF LaunchInv
  <1>10. QED
    BY <1>1, <1>8, <1>9

\* The user restarts the session.
LEMMA NextCommandKeeps ==
  ASSUME LaunchInv, NEW c \in Commands, NextCommand(c)
  PROVE  LaunchInv'
  <1>1. /\ pc = "done" /\ container.mode = "managed" /\ c.kind = "restart"
        /\ turn' = "second" /\ command' = c /\ pc' = "workspace"
        /\ before' = [token |-> tokenFile, container |-> container]
        /\ UNCHANGED <<host, limits, devEnv, tokenFile, container, configVars, tempFile, failedAt>>
    BY DEF NextCommand, Goto, FirstStep
  <1>2. before'.token = tokenFile /\ before'.container = container /\ failedAt = "none"
    BY <1>1 DEF LaunchInv, ControlInv
  <1>3. ConfigInv'
    BY <1>1, ConfigUnchanged DEF LaunchInv
  <1>4. ControlInv'
    BY <1>1, StepsAre DEF LaunchInv, ControlInv
  <1>5. TokenInv'
    <2>1. Shaped(container)' /\ Shaped(before.container)'
      BY <1>1, <1>2 DEF LaunchInv, TokenInv, Shaped
    <2>2. Recorded(before.container)'
      BY <1>1, <1>2 DEF LaunchInv, SpecInv, Recorded
    <2>3. before'.container.runtime = "codex" => before'.token = before'.container.token
      BY <1>1, <1>2 DEF LaunchInv, TokenInv, PreparationFailsCleanly
    <2>4. QED
      BY <1>1, <1>2, <2>1, <2>2, <2>3
         DEF TokenInv, PreparationFailsCleanly, PastExisting, BuiltSteps
  <1>6. SpecInv'
    BY <1>1, EarlySpec DEF PastLimits, PastExisting, BuiltSteps
  <1>7. QED
    BY <1>3, <1>4, <1>5, <1>6 DEF LaunchInv

-----------------------------------------------------------------------------
(* The theorems. *)

\* The invariant holds of every launch.
THEOREM LaunchInvCorrect == Spec => []LaunchInv
  <1>1. Init => LaunchInv
    BY LaunchInvInit
  <1>2. LaunchInv /\ [Next]_vars => LaunchInv'
    <2> SUFFICES ASSUME LaunchInv, [Next]_vars PROVE LaunchInv'
      OBVIOUS
    <2>1. CASE UNCHANGED vars
      BY <2>1, ConfigUnchanged, LaunchUnchanged DEF LaunchInv, vars
    <2>2. CASE RestartLaunchWorkspace
      BY <2>2, WorkspaceKeeps
    <2>3. HasConfigPath \in BOOLEAN
      BY Zenon DEF HasConfigPath
    <2>4. CASE LoadLimits \/ LoadKnownHosts
      BY <2>3, <2>4, LaunchAssumption, LoadConfigKeeps, LaunchUnchanged
         DEF LoadLimits, LoadKnownHosts, LaunchInv
    <2>5. CASE TakeLimits \/ ExecLimits
      BY <2>5, TakeLimitsKeeps, ExecLimitsKeeps
    <2>6. CASE \/ CheckPreflight \/ CheckExisting \/ ResolveEnvironment \/ CheckClient
               \/ EnsureImage
      BY <2>6, ReadingKeeps
    <2>7. CASE PrepareToken
      BY <2>7, PrepareTokenKeeps
    <2>8. CASE BuildSpec
      BY <2>8, BuildSpecKeeps
    <2>9. CASE PassGitAndAgent \/ PassKnownHosts \/ RecordLabels
      BY <2>9, PassGitKeeps, PassKnownHostsKeeps, RecordLabelsKeeps
    <2>10. CASE StopExisting \/ RunContainer
      BY <2>10, StopExistingKeeps, RunContainerKeeps
    <2>11. CASE \E c \in Commands : NextCommand(c)
      BY <2>11, NextCommandKeeps
    <2>12. CASE \E p \in Loaders : LoaderStep(p)
      BY <2>12, CheckBackupKeeps, RenameAsideKeeps, LaunchUnchanged DEF LoaderStep, LaunchInv
    <2>13. CASE OtherCommand
      BY <2>3, <2>13, LaunchAssumption, LoadConfigKeeps, TakeConfigKeeps, LaunchUnchanged
         DEF OtherCommand, LaunchInv
    <2>14. CASE \E content \in Contents : UserEdits(content)
      BY <2>14, EditKeeps, LaunchUnchanged DEF UserEdits, LaunchInv
    <2>15. CASE Finished
      BY <2>1, <2>15 DEF Finished
    <2>16. QED
      BY <2>1, <2>2, <2>4, <2>5, <2>6, <2>7, <2>8, <2>9, <2>10, <2>11, <2>12, <2>13, <2>14,
         <2>15 DEF Next
  <1>3. QED
    BY <1>1, <1>2, PTL DEF Spec

\* Every launch is well typed: backup_incompatible_config never runs out of
\* the names an edit pays for, and the development environment is found at a
\* level that exists.
THEOREM TypeCorrect == Spec => []TypeOK
  <1>1. LaunchInv => TypeOK
    <2> SUFFICES ASSUME LaunchInv PROVE TypeOK
      OBVIOUS
    <2>1. devEnv.level \in 0 .. Len(host.files)
      <3>1. /\ Len(host.files) \in Nat /\ host.gitRootLevel \in 0 .. Len(host.files)
            /\ devEnv.level \in 0 .. host.gitRootLevel
        BY DEF LaunchInv, ControlInv
      <3>2. QED
        BY <3>1
    <2>2. container.mode \in RunModes \cup {"none"}
      BY DEF LaunchInv, TokenInv, Shaped
    <2>3. QED
      BY <2>1, <2>2 DEF LaunchInv, ConfigInv, ControlInv, TypeOK
  <1>2. QED
    BY <1>1, LaunchInvCorrect, PTL

\* A content the user wrote survives every interleaving of any number of
\* loaders of the configuration, unless he edits the file between a load's
\* read and its rename.
THEOREM ConfigSurvivesCorrect == Spec => []ConfigSurvives
  <1>1. LaunchInv => ConfigSurvives
    BY DEF LaunchInv, ConfigInv
  <1>2. QED
    BY <1>1, LaunchInvCorrect, PTL

\* A preparation that fails has not touched the container and the token of
\* before, or failed at the very step that does.
THEOREM PreparationFailsCleanlyCorrect == Spec => []PreparationFailsCleanly
  <1>1. LaunchInv => PreparationFailsCleanly
    BY DEF LaunchInv, TokenInv
  <1>2. QED
    BY <1>1, LaunchInvCorrect, PTL

\* A restart keeps the server arguments and the limits of the session,
\* whatever the configuration has become.
THEOREM RestartKeepsSessionCorrect == Spec => []RestartKeepsSession
  <1>1. LaunchInv => RestartKeepsSession
    BY DEF LaunchInv, SpecInv
  <1>2. QED
    BY <1>1, LaunchInvCorrect, PTL

=============================================================================
