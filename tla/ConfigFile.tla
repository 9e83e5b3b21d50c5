----------------------------- MODULE ConfigFile -----------------------------
(***************************************************************************)
(* The user's configuration file (src/src/config.rs).  Every command reads *)
(* it anew; a file that cannot be understood is moved aside, under a name  *)
(* with the second in it and, when that name is taken, a suffix, and the   *)
(* command goes on with an empty configuration.                            *)
(*                                                                         *)
(* Several loaders work on the same file and the user edits it.  All moves *)
(* of the model happen within one second, the worst case for the names.    *)
(***************************************************************************)
EXTENDS Naturals, FiniteSets

CONSTANTS
    Loaders,        \* the processes that load the file
    Contents,       \* the contents the user writes: a subset of RawConfig
    NoFile,         \* nothing at a path
    NoLimit,        \* a limit that is not given
    MaxEdits        \* bound on the edits of the user

ASSUME EditsAssumption == MaxEdits \in Nat

\* Every edit adds one content, and so at most one backup.
BackupSuffixes == 0 .. MaxEdits + 1

Dimensions == {"cpus", "memory"}

\* The texts of the model that CpuLimit::from_str and MemoryLimit::from_str
\* take: no blanks around them, a finite number that is not negative; digits
\* and at most one unit.
CpuLimits == {"0", "0.0", "2"}
MemoryLimits == {"0", "1g"}

\* A JSON value for the CPUs is a number, a string or something else; the
\* memory is a string.
CpuTexts == CpuLimits \cup {" 2", "-1", "nan"}
MemoryTexts == MemoryLimits \cup {"1 g", "lots"}
RawCpu == [json : {"number", "string", "other"}, text : CpuTexts]

\* What can be in the file: "unreadable" stands for a read error, "malformed"
\* for no JSON, an unknown field or a field of the wrong type.
RawConfig == [form : {"object", "malformed", "unreadable"},
              knownHosts : SUBSET {"line", "blank", "multiline"},
              cpus : RawCpu \cup {NoLimit}, memory : MemoryTexts \cup {NoLimit}]

ASSUME ContentsAssumption ==
    /\ Contents \subseteq RawConfig
    /\ NoFile \notin Contents
    /\ NoLimit \notin CpuLimits \cup MemoryLimits

ResourceLimits == [cpus : CpuLimits \cup {NoLimit}, memory : MemoryLimits \cup {NoLimit}]

NoLimits == [cpus |-> NoLimit, memory |-> NoLimit]

AgentboxConfig == [knownHosts : SUBSET {"line"}, limits : ResourceLimits]

DefaultConfig == [knownHosts |-> {}, limits |-> NoLimits]

----------------------------------------------------------------------------
(* Parsing *)

\* A mutant that takes any number or string.
ParseCpuValueUnchecked(raw) == raw.json \in {"number", "string"}

\* parse_cpu_value: a number or a string whose text is a CPU limit.
ParseCpuValue(raw) == raw.json \in {"number", "string"} /\ raw.text \in CpuLimits

ParseResourceLimits(raw) ==
    /\ raw.cpus # NoLimit => ParseCpuValue(raw.cpus)
    /\ raw.memory # NoLimit => raw.memory \in MemoryLimits

\* parse_config accepts the content.
Compatible(raw) ==
    /\ raw.form = "object"
    /\ raw.knownHosts \cap {"blank", "multiline"} = {}
    /\ ParseResourceLimits(raw)

ParseConfig(raw) ==
    [knownHosts |-> raw.knownHosts,
     limits |-> [cpus |-> IF raw.cpus = NoLimit THEN NoLimit ELSE raw.cpus.text,
                 memory |-> raw.memory]]

----------------------------------------------------------------------------
(* Limits *)

\* ResourceLimits::overlay, per dimension: an override wins.
Or(override, value) == IF override # NoLimit THEN override ELSE value

Overlay(limits, overrides) == [d \in Dimensions |-> Or(overrides[d], limits[d])]

\* A mutant that leaves the labels of absent limits out.
StoredSkipsNone(limits) == limits

\* stored_or_zero: the label of an absent limit says "0".
StoredOrZero(limits) == [d \in Dimensions |-> Or(limits[d], "0")]

----------------------------------------------------------------------------
(* Loading *)

VARIABLES
    configFile,     \* the content at the path of the configuration, or NoFile
    backups,        \* suffix -> content moved aside, or NoFile
    loading,        \* loader -> where it is, the suffix it tries, its result
    edits,          \* edits of the user so far
    wrote,          \* history: contents not overwritten by the user himself
    editedMeanwhile \* history: an edit fell between a load's read and rename

configVars == <<configFile, backups, loading, edits, wrote, editedMeanwhile>>

NotLoading == [at |-> "idle", suffix |-> 0, config |-> DefaultConfig]

ConfigTypeOK ==
    /\ configFile \in Contents \cup {NoFile}
    /\ backups \in [BackupSuffixes -> Contents \cup {NoFile}]
    /\ loading \in [Loaders -> [at : {"idle", "check", "rename", "loaded"},
                                suffix : BackupSuffixes, config : AgentboxConfig]]
    /\ edits \in 0 .. MaxEdits
    /\ wrote \subseteq Contents
    /\ editedMeanwhile \in BOOLEAN

ConfigInit(files) ==
    /\ configFile \in files
    /\ backups = [s \in BackupSuffixes |-> NoFile]
    /\ loading = [p \in Loaders |-> NotLoading]
    /\ edits = 0
    /\ wrote = {configFile} \ {NoFile}
    /\ editedMeanwhile = FALSE

Loaded(p, config) ==
    loading' = [loading EXCEPT ![p] = [NotLoading EXCEPT !.at = "loaded", !.config = config]]

\* load_config_with up to the parse: no path, no file and a read error give
\* the default; an incompatible content is to be moved aside.
LoadConfig(p, path) ==
    /\ loading[p].at = "idle"
    /\ IF ~path \/ configFile = NoFile THEN Loaded(p, DefaultConfig)
       ELSE IF configFile.form = "unreadable" THEN Loaded(p, DefaultConfig)
       ELSE IF Compatible(configFile) THEN Loaded(p, ParseConfig(configFile))
       ELSE loading' = [loading EXCEPT ![p].at = "check", ![p].suffix = 0]
    /\ UNCHANGED <<configFile, backups, edits, wrote, editedMeanwhile>>

\* A mutant of the loop: the first name is taken, free or not.
CheckBackupTakesFirst(p) ==
    /\ loading[p].at = "check"
    /\ loading' = [loading EXCEPT ![p].at = "rename"]
    /\ UNCHANGED <<configFile, backups, edits, wrote, editedMeanwhile>>

\* backup_incompatible_config, the exists test of one name.
CheckBackup(p) ==
    /\ loading[p].at = "check"
    /\ IF backups[loading[p].suffix] # NoFile
       THEN loading' = [loading EXCEPT ![p].suffix = @ + 1]
       ELSE loading' = [loading EXCEPT ![p].at = "rename"]
    /\ UNCHANGED <<configFile, backups, edits, wrote, editedMeanwhile>>

\* The rename: it replaces what is at the destination, and fails when another
\* loader has taken the file away.  Both ways the configuration is empty.
RenameAside(p) ==
    /\ loading[p].at = "rename"
    /\ IF configFile = NoFile THEN UNCHANGED <<configFile, backups>>
       ELSE /\ backups' = [backups EXCEPT ![loading[p].suffix] = configFile]
            /\ configFile' = NoFile
    /\ Loaded(p, DefaultConfig)
    /\ UNCHANGED <<edits, wrote, editedMeanwhile>>

\* The command has taken the result.
TakeConfig(p) ==
    /\ loading[p].at = "loaded"
    /\ loading' = [loading EXCEPT ![p] = NotLoading]

\* The user writes a content; what the path held is gone by his own hand.
Edit(content) ==
    /\ edits < MaxEdits
    /\ content \notin wrote
    /\ configFile' = content
    /\ wrote' = (wrote \ {configFile}) \cup {content}
    /\ edits' = edits + 1
    /\ editedMeanwhile' = (editedMeanwhile
                            \/ \E p \in Loaders : loading[p].at \in {"check", "rename"})
    /\ UNCHANGED <<backups, loading>>

----------------------------------------------------------------------------
(* Whatever the number of loaders and the order of their steps, a content  *)
(* the user wrote is at the path or under a backup name until he           *)
(* overwrites it: backup_incompatible_config never replaces an earlier     *)
(* backup and never drops a file.  The one window the code leaves open is  *)
(* an edit between a load's read and its rename.                           *)
ConfigSurvives ==
    ~editedMeanwhile =>
        \A c \in wrote : c = configFile \/ \E s \in BackupSuffixes : backups[s] = c

=============================================================================
