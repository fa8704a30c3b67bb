------------------------------- MODULE MCParts -------------------------------
(***************************************************************************)
(* The components that share no state with one another and that nobody      *)
(* waits for: sources, notes, scoring, the dispatch agent, and what the     *)
(* commands keep on disk.  `part' says which of them runs; the others stay  *)
(* in one initial state.                                                    *)
(***************************************************************************)
EXTENDS MarkdownFile, Feeds, WriteBack, SourceFormats, Annotations, DispatchAgent, Scoring,
        SecretStore, SkillInstall, Settings, Journal, RotatingLog, Migration, TLC

VARIABLE part

TwoFiles == <<"f1", "f2">>
ThreeLists == <<"l1", "l2", "l3">>

\* Components with more than one initial state start in this one when off.
MarkdownOff == present = File /\ lines[Files[1]] = <<>>
FeedsOff == kind = "slack" /\ second = {} /\ open = {}
WriteBackOff == plugin = "slack"
FormatsOff == body = <<>> /\ ts1 = <<>> /\ ts2 = <<>> /\ text = <<>> /\ caps = <<>>
ScoringOff == /\ \A c \in Ready : says[c] = CHOOSE b \in Body : TRUE
              /\ options = [batchSize |-> 0, maxCalls |-> 0, cache |-> FALSE]
MigrationOff == \A o \in Opener : opener[o].has = 1

Init ==
    /\ part \in {"markdown", "feeds", "writeback", "formats", "notes", "agent", "scoring",
                 "secrets", "skills", "settings", "journal", "log", "migration"}
    /\ MarkdownInit /\ (part # "markdown" => MarkdownOff)
    /\ FeedInit /\ (part # "feeds" => FeedsOff)
    /\ WriteBackInit /\ (part # "writeback" => WriteBackOff)
    /\ IF part = "formats" THEN FormatInit ELSE FormatsOff
    /\ AnnotationInit /\ AgentInit
    /\ ScoringInit /\ (part # "scoring" => ScoringOff)
    /\ SecretInit /\ SkillInit /\ SettingsInit /\ JournalInit /\ RotatingLogInit
    /\ MigrationInit /\ (part # "migration" => MigrationOff)

sourceVars == <<markdownVars, feedVars, writeBackVars, formatVars>>
taskVars == <<annotationVars, agentVars, scoringVars>>
diskVars == <<secretVars, skillVars, settingsVars, journalVars, logVars, migrationVars>>
vars == <<part, sourceVars, taskVars, diskVars>>

InSources(p, A) == part = p /\ A /\ UNCHANGED <<part, taskVars, diskVars>>
OnMarkdown ==
    InSources("markdown", MarkdownNext) /\ UNCHANGED <<feedVars, writeBackVars, formatVars>>
OnFeeds == InSources("feeds", FeedNext) /\ UNCHANGED <<markdownVars, writeBackVars, formatVars>>
OnWriteBack ==
    InSources("writeback", WriteBackNext) /\ UNCHANGED <<markdownVars, feedVars, formatVars>>

InTasks(p, A) == part = p /\ A /\ UNCHANGED <<part, sourceVars, diskVars>>
OnNotes == InTasks("notes", AnnotationNext) /\ UNCHANGED <<agentVars, scoringVars>>
OnAgent == InTasks("agent", AgentNext) /\ UNCHANGED <<annotationVars, scoringVars>>
OnScoring == InTasks("scoring", ScoringNext) /\ UNCHANGED <<annotationVars, agentVars>>

OnDisk(p, A) == part = p /\ A /\ UNCHANGED <<part, sourceVars, taskVars>>
OnSecrets ==
    /\ OnDisk("secrets", SecretNext)
    /\ UNCHANGED <<skillVars, settingsVars, journalVars, logVars, migrationVars>>
OnSkills ==
    /\ OnDisk("skills", SkillNext)
    /\ UNCHANGED <<secretVars, settingsVars, journalVars, logVars, migrationVars>>
OnSettings ==
    /\ OnDisk("settings", SettingsNext)
    /\ UNCHANGED <<secretVars, skillVars, journalVars, logVars, migrationVars>>
OnJournal ==
    /\ OnDisk("journal", JournalNext)
    /\ UNCHANGED <<secretVars, skillVars, settingsVars, logVars, migrationVars>>
OnLog ==
    /\ OnDisk("log", RotatingLogNext)
    /\ UNCHANGED <<secretVars, skillVars, settingsVars, journalVars, migrationVars>>
OnMigration ==
    /\ OnDisk("migration", MigrationNext)
    /\ UNCHANGED <<secretVars, skillVars, settingsVars, journalVars, logVars>>

Next == \/ OnMarkdown \/ OnFeeds \/ OnWriteBack
        \/ OnNotes \/ OnAgent \/ OnScoring
        \/ OnSecrets \/ OnSkills \/ OnSettings \/ OnJournal \/ OnLog \/ OnMigration

Spec == Init /\ [][Next]_vars

\* No silent loss: what is open at a source is reported, under an id that stays,
\* and a source where nothing happens has nothing to report.
SourcesReportEverything ==
    /\ MarkdownTypeOK /\ FeedTypeOK
    /\ IdsAreStable /\ EveryEditIsReported /\ SinceGoesQuiet /\ NothingIsMissed

\* Crash safety: whatever dies, fails or starts again, the journal, the log, the
\* schema and the dispatch agent's queue are continued where they were left.
RestartsLoseNothing ==
    /\ JournalTypeOK /\ RotatingLogTypeOK /\ MigrationTypeOK /\ AgentTypeOK
    /\ NothingLeftBehind /\ NewestLinesRemain /\ FilesAreBounded
    /\ VersionIsTrue /\ OpenIsMigrated /\ OneAgentIsShared /\ RequestIsKept

\* Which process is which does not matter to any part, nor which of the things
\* Title, Item, Agent, Ready, Secret and Phrase stand for.  All parts share
\* the three sets.
Same == Permutations(Process) \cup Permutations(Title) \cup Permutations(Phrase)
=============================================================================
