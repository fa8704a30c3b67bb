------------------------------- MODULE Settings -------------------------------
(***************************************************************************)
(* config.toml (internal/config, cli/config.go, internal/initialize): set   *)
(* reads, changes one key, records that and replaces the file after copying *)
(* the old one to config.toml.bak.<second>; edit lets an editor write the   *)
(* file and puts the old text back when it does not validate; init writes   *)
(* the defaults when there is no file.  Of the keys, the two that depend on *)
(* each other: execution.permission_mode and execution.claude_command.      *)
(***************************************************************************)
EXTENDS Naturals, FiniteSets

CONSTANTS
    Operator,
    MaxBackups,    \* maxConfigBackups
    MaxClock       \* bound: seconds that pass

ASSUME SettingsAssumption == MaxBackups \in Nat \ {0} /\ MaxClock \in Nat

Modes == {"bypass", "custom", "bad"}     \* "bad": a mode no list has
Commands == {"bypass", "mine", ""}
Texts == [mode : Modes, command : Commands]
NoFile == [mode |-> "no file", command |-> ""]

\* Bound: what an editor leaves, two texts that validate and one that does not.
Drafts == {[mode |-> "bypass", command |-> "bypass"], [mode |-> "custom", command |-> "mine"],
           [mode |-> "bad", command |-> "mine"]}

VARIABLES
    file,       \* config.toml, or NoFile
    backups,    \* backups[k]: the copy stamped second k, or NoFile
    now,        \* the clock's second
    edit,       \* edit[o]: the command o is at
    wanted,     \* what the commands that finished add up to
    crossed     \* two commands have overlapped, or one died with an edit unchecked

settingsVars == <<file, backups, now, edit, wanted, crossed>>

SettingsIdle == [step |-> "idle", key |-> "mode", value |-> "", had |-> NoFile, next |-> NoFile]

SettingsTypeOK ==
    /\ file \in Texts \cup {NoFile} /\ backups \in [0..MaxClock -> Texts \cup {NoFile}]
    /\ now \in 0..MaxClock /\ crossed \in BOOLEAN /\ wanted \in Texts \cup {NoFile}
    /\ edit \in [Operator ->
        [step : {"idle", "backup", "rename", "create", "editor", "check", "copy"},
         key : {"mode", "command"}, value : Modes \cup Commands,
         had : Texts \cup {NoFile}, next : Texts \cup {NoFile}]]

SettingsInit ==
    /\ file = NoFile /\ backups = [k \in 0..MaxClock |-> NoFile] /\ now = 0
    /\ edit = [o \in Operator |-> SettingsIdle] /\ wanted = NoFile /\ crossed = FALSE

---------------------------------------------------------------------------
\* The schema

Default == [mode |-> "bypass", command |-> "bypass"]

\* The command a mode stands for; custom stands for none.
ClaudeCommandFor(mode) == IF mode = "bypass" THEN "bypass" ELSE ""

Validates(c) == c.mode \in {"bypass", "custom"} /\ (c.mode = "custom" => c.command # "")

\* config.Set: the mode brings its command along, the command comes alone.
SetKey(c, key, value) ==
    LET candidate == [c EXCEPT ![key] = value]
    IN IF key = "mode" /\ ClaudeCommandFor(value) # ""
       THEN [candidate EXCEPT !.command = ClaudeCommandFor(value)] ELSE candidate

---------------------------------------------------------------------------
\* Commands.  Bound: once crossed nothing more begins.

Crosses(o) == \E q \in Operator \ {o} : edit[q].step # "idle"
Ends(o) == edit' = [edit EXCEPT ![o] = SettingsIdle]
SameFile == UNCHANGED <<file, backups, now, wanted>>

\* config set: an absent file reads as the defaults; a file or a result that
\* does not validate ends the command.
SetConfig(o, key, value) ==
    /\ ~crossed /\ edit[o].step = "idle"
    /\ LET read == IF file = NoFile THEN Default ELSE file
           next == SetKey(read, key, value)
       IN /\ Validates(read) /\ Validates(next)
          /\ edit' = [edit EXCEPT ![o] = [SettingsIdle EXCEPT !.step = "backup", !.next = next,
                                                              !.key = key, !.value = value]]
    /\ crossed' = Crosses(o) /\ SameFile

\* init: only when there is no file.
EnsureConfig(o) ==
    /\ ~crossed /\ edit[o].step = "idle" /\ file = NoFile
    /\ edit' = [edit EXCEPT ![o] = [SettingsIdle EXCEPT !.step = "create", !.next = Default]]
    /\ crossed' = Crosses(o) /\ SameFile

Copied == {k \in DOMAIN backups : backups[k] # NoFile}

\* The oldest copies go when there are too many.
Pruned(b) ==
    LET copies == {k \in DOMAIN b : b[k] # NoFile}
        newest == {k \in copies : Cardinality({j \in copies : j > k}) < MaxBackups}
    IN [k \in DOMAIN b |-> IF k \in newest THEN b[k] ELSE NoFile]

WriteBackup(text) == backups' = Pruned([backups EXCEPT ![now] = text])

\* Save: the file that is there now, whoever wrote it, is copied first.
SaveBackup(o) ==
    /\ edit[o].step \in {"backup", "create"}
    /\ IF file = NoFile THEN UNCHANGED backups ELSE WriteBackup(file)
    /\ edit' = [edit EXCEPT ![o].step = "rename"]
    /\ UNCHANGED <<file, now, wanted, crossed>>

SaveRename(o) ==
    /\ edit[o].step = "rename" /\ Ends(o)
    /\ file' = edit[o].next
    /\ wanted' = IF edit[o].value = "" THEN Default
                 ELSE SetKey(IF wanted = NoFile THEN Default ELSE wanted,
                             edit[o].key, edit[o].value)
    /\ UNCHANGED <<backups, now, crossed>>

\* A write that fails; set has its line in the audit log already.
SaveConfigFails(o) ==
    /\ edit[o].step \in {"backup", "create", "rename"} /\ Ends(o)
    /\ UNCHANGED crossed /\ SameFile

\* config edit: the text is kept for a rollback before the editor starts.
ReadForEdit(o) ==
    /\ ~crossed /\ edit[o].step = "idle"
    /\ edit' = [edit EXCEPT ![o] = [SettingsIdle EXCEPT !.step = "editor", !.had = file]]
    /\ crossed' = Crosses(o) /\ SameFile

\* The editor saves over the file, or fails or quits without.
EditorSaves(o, text) ==
    /\ edit[o].step = "editor" /\ edit' = [edit EXCEPT ![o].step = "check"]
    /\ file' = text /\ UNCHANGED <<backups, now, wanted, crossed>>
EditorFails(o) ==
    /\ edit[o].step = "editor" /\ Ends(o) /\ UNCHANGED crossed /\ SameFile

CheckEdit(o) ==
    /\ edit[o].step = "check"
    /\ IF file = NoFile \/ Validates(file)
       THEN /\ edit' = [edit EXCEPT ![o].step = "copy"] /\ wanted' = file
            /\ UNCHANGED <<file, backups>>
       ELSE /\ Ends(o) /\ file' = edit[o].had /\ UNCHANGED <<backups, wanted>>
    /\ UNCHANGED <<now, crossed>>

\* A mutant: the copy is of what the editor left.
CopyEdited(o) ==
    /\ edit[o].step = "copy" /\ Ends(o)
    /\ IF edit[o].had = NoFile THEN UNCHANGED backups ELSE WriteBackup(file)
    /\ UNCHANGED <<file, now, wanted, crossed>>

CopyOriginal(o) ==
    /\ edit[o].step = "copy" /\ Ends(o)
    /\ IF edit[o].had = NoFile THEN UNCHANGED backups ELSE WriteBackup(edit[o].had)
    /\ UNCHANGED <<file, now, wanted, crossed>>

\* The process dies; an editor's text that was not checked stays.
OperatorDies(o) ==
    /\ edit[o].step # "idle" /\ Ends(o)
    /\ crossed' = (crossed \/ edit[o].step = "check") /\ SameFile

SecondPasses ==
    /\ now < MaxClock /\ now' = now + 1
    /\ UNCHANGED <<file, backups, edit, wanted, crossed>>

SettingsNext ==
    \/ SecondPasses
    \/ \E o \in Operator :
        \/ EnsureConfig(o) \/ SaveBackup(o) \/ SaveRename(o) \/ SaveConfigFails(o)
        \/ ReadForEdit(o) \/ EditorFails(o) \/ CheckEdit(o) \/ CopyOriginal(o) \/ OperatorDies(o)
        \/ \E value \in Modes : SetConfig(o, "mode", value)
        \/ \E value \in Commands \ {""} : SetConfig(o, "command", value)
        \/ \E text \in Drafts : EditorSaves(o, text)

SettingsSpec == SettingsInit /\ [][SettingsNext]_settingsVars

---------------------------------------------------------------------------
\* Properties.  Commands that cross may undo each other.

\* Each command leaves what it was asked for and the rest as it was, also when
\* one failed or its edit was rolled back, and an edit that does not validate
\* is on disk no longer than its command runs.
CommandsAddUp ==
    ~crossed /\ (\A o \in Operator : edit[o].step # "check")
        => file = wanted /\ (file = NoFile \/ Validates(file))

\* What is replaced can be read in a backup at that moment.
ReplacedIsRecoverable ==
    [][~crossed' => \A o \in Operator :
        /\ edit[o].step = "rename" /\ edit'[o].step = "idle" /\ file' # file /\ file # NoFile
            => file \in {backups[k] : k \in Copied}
        /\ edit[o].step = "copy" /\ edit'[o].step = "idle" /\ edit[o].had # NoFile
                                /\ backups' # backups
            => edit[o].had = backups'[now]
      ]_settingsVars

\* The copies, which hold what the file holds, do not pile up.
BackupsAreBounded == Cardinality(Copied) <= MaxBackups

\* The settings are what the commands asked for, what a command replaced can be
\* read in a backup, and the backups do not pile up.
SettingsAreKept ==
    []SettingsTypeOK /\ []CommandsAddUp /\ []BackupsAreBounded /\ ReplacedIsRecoverable
=============================================================================
