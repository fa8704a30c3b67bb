----------------------------- MODULE SkillInstall -----------------------------
(***************************************************************************)
(* How skills get under ~/.claude/skills.  `marunage setup --skills'        *)
(* (internal/skills) writes the ones bundled with the binary, each in one   *)
(* rename, and leaves what the user changed alone unless told otherwise;    *)
(* `marunage skills install' (internal/skills/registry) downloads one,      *)
(* unpacks it beside the old tree, removes that, renames the new one over,  *)
(* and then rewrites the state file that says where each came from.  A tree *)
(* is known by where its contents came from.                                *)
(***************************************************************************)
EXTENDS FiniteSets

CONSTANTS
    Installer,   \* the processes that install
    Skill, Bundled,
    Checked,     \* triage, autoreply, manage: the ones with required sections
    Version      \* the versions a registry publishes

Gone == "gone"          \* no SKILL.md
Edited == "edited"      \* the user's own text
Broken == "broken"      \* the user's, without a required section
Bundle == "bundle"
Users == {Edited, Broken}
Contents == {Gone, Bundle} \cup Users \cup Version

ASSUME SkillAssumption ==
    /\ Bundled \subseteq Skill /\ Checked \subseteq Skill
    /\ Version \cap ({Gone, Bundle} \cup Users) = {}

VARIABLES
    tree,       \* tree[s]: what is installed as s
    state,      \* the state file: the version it has for each skill, or Gone
    install,    \* install[i]: the install i is at
    unsettled,  \* skills whose entry in the state file need not be right
    vouched,    \* a setup --skills reported success, and no tree has changed since
    disturbed   \* the setups at work during which a tree was changed by another

skillVars == <<tree, state, install, unsettled, vouched, disturbed>>

Job == [step : {"idle", "remove", "rename", "load", "save", "look", "ask",
                "write", "check", "audit"},
        mode : {"registry", "plain", "merge", "force"}, skill : Skill \cup {Gone},
        version : Version \cup {Gone}, saw : Contents, yes : BOOLEAN,
        todo : SUBSET Skill, loaded : [Skill -> Version \cup {Gone}]]

NoState == [s \in Skill |-> Gone]
NoJob == [step |-> "idle", mode |-> "plain", skill |-> Gone, version |-> Gone, saw |-> Gone,
          yes |-> FALSE, todo |-> {}, loaded |-> NoState]

SkillTypeOK ==
    /\ tree \in [Skill -> Contents] /\ state \in [Skill -> Version \cup {Gone}]
    /\ install \in [Installer -> Job] /\ unsettled \subseteq Skill
    /\ vouched \in BOOLEAN /\ disturbed \subseteq Installer

SkillInit ==
    /\ tree = [s \in Skill |-> Gone] /\ state = NoState
    /\ install = [i \in Installer |-> NoJob]
    /\ unsettled = {} /\ vouched = FALSE /\ disturbed = {}

InSetup == {i \in Installer : install[i].step # "idle" /\ install[i].mode # "registry"}

\* A tree changes by i's hand, or the user's: the other setups are told so.
Put(s, c, i) ==
    /\ tree' = [tree EXCEPT ![s] = c] /\ vouched' = FALSE
    /\ disturbed' = disturbed \cup (InSetup \ {i})
SameTrees == UNCHANGED <<tree, vouched>> /\ disturbed' = disturbed \cap InSetup'
Finish(i) == install' = [install EXCEPT ![i] = NoJob]
To(i, step) == install' = [install EXCEPT ![i].step = step]

---------------------------------------------------------------------------
\* marunage skills install

\* The manifest, the tarball and its digest are read, and the tarball is
\* unpacked into a directory of its own.  Until then a failure changes nothing,
\* and is left out.  A bundled skill needs the override.
FetchSkill(i, s, v, override) ==
    /\ install[i].step = "idle" /\ (s \in Bundled => override)
    /\ install' = [install EXCEPT ![i] = [NoJob EXCEPT !.step = "remove", !.mode = "registry",
                                               !.skill = s, !.version = v]]
    /\ unsettled' = IF \E o \in Installer : install[o].skill = s
                  THEN unsettled \cup {s} ELSE unsettled
    /\ UNCHANGED state /\ SameTrees

RemoveOld(i) ==
    /\ install[i].step = "remove" /\ To(i, "rename")
    /\ Put(install[i].skill, Gone, i)
    /\ UNCHANGED <<state, unsettled>>

\* A rename onto a tree that another process has put there meanwhile fails.
RenameNew(i) ==
    /\ install[i].step = "rename" /\ tree[install[i].skill] = Gone
    /\ Put(install[i].skill, install[i].version, i) /\ To(i, "load")
    /\ UNCHANGED <<state, unsettled>>

\* The old tree is gone, the new one is not there.
RenameFails(i) ==
    /\ install[i].step = "rename" /\ Finish(i)
    /\ unsettled' = unsettled \cup {install[i].skill} /\ UNCHANGED state /\ SameTrees

Overlapping(i) == {o \in Installer \ {i} : install[o].step = "save"}

LoadState(i) ==
    /\ install[i].step = "load"
    /\ install' = [install EXCEPT ![i].step = "save",
                                  ![i].loaded = [state EXCEPT ![install[i].skill] = Gone]]
    /\ unsettled' = IF Overlapping(i) = {} THEN unsettled
                  ELSE unsettled \cup {install[o].skill : o \in Overlapping(i) \cup {i}}
    /\ UNCHANGED state /\ SameTrees

SaveState(i) ==
    /\ install[i].step = "save"
    /\ install' = [install EXCEPT ![i].step = "audit", ![i].loaded = NoState]
    /\ state' = [install[i].loaded EXCEPT ![install[i].skill] = install[i].version]
    /\ UNCHANGED unsettled /\ SameTrees

\* The tree is new, the state file is not, and nothing is recorded.
StateFails(i) ==
    /\ install[i].step \in {"load", "save"} /\ Finish(i)
    /\ unsettled' = unsettled \cup {install[i].skill} /\ UNCHANGED state /\ SameTrees

---------------------------------------------------------------------------
\* marunage setup --skills.  --diff and --check-updates write nothing.

SetupSkills(i, mode) ==
    /\ install[i].step = "idle" /\ mode \in {"plain", "merge", "force"}
    /\ install' = [install EXCEPT ![i] = [NoJob EXCEPT !.step = "look", !.mode = mode,
                                                       !.todo = Bundled]]
    /\ UNCHANGED <<state, unsettled>> /\ SameTrees

\* A mutant: what differs is overwritten, whatever the mode.
OverwriteNext(mode, found) ==
    IF found = Bundle THEN "audit" ELSE "write"

NextStep(mode, found) ==
    IF found = Gone \/ (mode = "force" /\ found # Bundle) THEN "write"
    ELSE IF mode = "merge" /\ found # Bundle THEN "ask"
    ELSE "audit"

\* The bundled skills are taken in any order; the code sorts them.
Look(i, s) ==
    /\ install[i].step = "look" /\ s \in install[i].todo
    /\ LET step == NextStep(install[i].mode, tree[s])
       IN install' = [install EXCEPT ![i].step = step, ![i].skill = s, ![i].todo = @ \ {s},
                                     ![i].saw = IF step = "audit" THEN Gone ELSE tree[s]]
    /\ UNCHANGED <<state, unsettled>> /\ SameTrees

\* An answer of `d' shows the difference and asks again; the end of the input
\* is a no.
PromptMerge(i, yes) ==
    /\ install[i].step = "ask"
    /\ install' = [install EXCEPT ![i].step = IF yes THEN "write" ELSE "audit", ![i].yes = yes,
                                  ![i].saw = IF yes THEN @ ELSE Gone]
    /\ UNCHANGED <<state, unsettled>> /\ SameTrees

WriteSkill(i) ==
    /\ install[i].step = "write"
    /\ install' = [install EXCEPT ![i].step = "audit", ![i].saw = Gone, ![i].yes = FALSE]
    /\ Put(install[i].skill, Bundle, i)
    /\ unsettled' = unsettled \cup {install[i].skill}
    /\ UNCHANGED state

WriteFails(i) ==
    /\ install[i].step = "write" /\ Finish(i) /\ UNCHANGED <<state, unsettled>> /\ SameTrees

\* The audit line of one skill.
RecordSkill(i) ==
    /\ install[i].step = "audit"
    /\ IF install[i].mode = "registry" THEN Finish(i)
       ELSE install' = [install EXCEPT ![i].step = IF install[i].todo = {} THEN "check" ELSE "look",
                               ![i].skill = Gone, ![i].saw = Gone,
                               ![i].todo = IF @ = {} THEN Checked ELSE @]
    /\ UNCHANGED <<state, unsettled>> /\ SameTrees

Valid(c) == c # Broken

\* The skills with required sections are read back; one that lacks them fails
\* the whole command, though everything was written.
ValidateInstalled(i, s) ==
    /\ install[i].step = "check" /\ s \in install[i].todo
    /\ IF Valid(tree[s]) THEN install' = [install EXCEPT ![i].todo = @ \ {s}] ELSE Finish(i)
    /\ UNCHANGED <<state, unsettled>> /\ SameTrees

Report(i) ==
    /\ install[i].step = "check" /\ install[i].todo = {} /\ Finish(i)
    /\ vouched' = (vouched \/ i \notin disturbed) /\ disturbed' = disturbed \ {i}
    /\ UNCHANGED <<tree, state, unsettled>>

---------------------------------------------------------------------------

\* The user edits a skill, or removes a section.
UserEdits(s, c) ==
    /\ c \in Users /\ tree[s] # c /\ (c = Broken => s \in Checked)
    /\ tree' = [tree EXCEPT ![s] = c] /\ vouched' = FALSE /\ disturbed' = InSetup
    /\ unsettled' = unsettled \cup {s} /\ UNCHANGED <<state, install>>

InstallerDies(i) ==
    /\ install[i].step # "idle" /\ Finish(i)
    /\ unsettled' = IF install[i].step \in {"rename", "load", "save"}
                  THEN unsettled \cup {install[i].skill} ELSE unsettled
    /\ UNCHANGED state /\ SameTrees

SkillNext ==
    \/ \E i \in Installer :
        \/ RemoveOld(i) \/ RenameNew(i) \/ RenameFails(i) \/ LoadState(i) \/ SaveState(i)
        \/ StateFails(i) \/ WriteSkill(i) \/ WriteFails(i) \/ RecordSkill(i)
        \/ Report(i) \/ InstallerDies(i)
        \/ \E s \in Skill, v \in Version, override \in BOOLEAN : FetchSkill(i, s, v, override)
        \/ \E mode \in {"plain", "merge", "force"} : SetupSkills(i, mode)
        \/ \E s \in Skill : Look(i, s) \/ ValidateInstalled(i, s)
        \/ \E yes \in BOOLEAN : PromptMerge(i, yes)
    \/ \E s \in Skill, c \in Users : UserEdits(s, c)

SkillSpec == SkillInit /\ [][SkillNext]_skillVars

---------------------------------------------------------------------------
\* Properties

\* i may replace what the user wrote: it was asked to, or the user wrote it
\* after i had looked.
MayReplace(i, s) ==
    /\ install[i].skill = s
    /\ \/ install[i].step = "remove"
       \/ install[i].step = "rename"
       \/ /\ install[i].step = "write"
          /\ install[i].mode = "force" \/ install[i].yes \/ install[i].saw # tree[s]

\* The user's edits are never overwritten by setup --skills unless --force or
\* an answer said so; a plain rerun leaves them, with several installers too.
EditsSurvive ==
    [][\A s \in Skill : tree[s] \in Users /\ tree'[s] \notin Users
            => \E i \in Installer : MayReplace(i, s)]_skillVars

\* What the state file says of a skill is what is installed, between installs,
\* unless an install of it failed, died or met another of the same skill or at
\* the state file, or the user or setup has written the skill.
StateTellsTheTree ==
    \A s \in Skill \ unsettled :
        (\A i \in Installer : install[i].skill # s) /\ state[s] # Gone => tree[s] = state[s]

\* setup --skills reports success only when every skill with required sections
\* has them, as installed and not as shipped.
SuccessMeansValid ==
    vouched => \A s \in Checked : Valid(tree[s])

\* What is installed is what the state file and setup's report say, and what the
\* user edited stays.
SkillsAreKept == []SkillTypeOK /\ []StateTellsTheTree /\ []SuccessMeansValid /\ EditsSurvive
=============================================================================
