------------------------------- MODULE Backends -------------------------------
(***************************************************************************)
(* The four execution backends behind exec.Executor (cmux, tmux, herdr and  *)
(* local) and the dispatcher's use of them for ONE row: Start creates a     *)
(* pane, launches Claude in it and waits for its banner; Send types the     *)
(* prompt and submits it with a separate Enter; AwaitExit waits for the end.*)
(*                                                                         *)
(* Every step is one run of the backend's command line (Runner.Run).  A run *)
(* may fail before it did anything, or do its work and still be reported as *)
(* failed, or exit 0 with an output nobody can parse: such a `mishap' is    *)
(* what separates the backends, because Start answers an error without a    *)
(* session id as "nothing was created, retry".                              *)
(***************************************************************************)
EXTENDS Naturals, FiniteSets

CONSTANTS Pane,        \* the panes (workspaces, sessions, processes) there may be
          NULL,
          MaxMishaps   \* bound: runs that did not do what they reported

ASSUME MishapAssumption == MaxMishaps \in Nat /\ NULL \notin Pane

VARIABLES
    backend,    \* [execution].executor
    pane,       \* pane[p]: "unused", a bare "shell", "booting", "booted", "gone"
    typed,      \* typed[p]: copies of the prompt in the input line of p
    submitted,  \* submitted[p]: copies of it that Claude was given
    row,        \* the row's status
    ws,         \* the row's ws column
    pc, cur,    \* the executor call in progress and the pane it works on
    late,       \* the startup deadline has passed
    wired,      \* the session's handle carries a sentinel directory
    exited,     \* exited[p]: p's Claude is done and its exit code can be read
    awaited,    \* what the last AwaitExit answered
    missed,     \* the live panes the last ListSessions left out
    mishaps

backendVars == <<backend, pane, typed, submitted, row, ws, pc, cur, late, wired,
          exited, awaited, missed, mishaps>>

promptVars == <<typed, submitted>>
awaitVars == <<wired, exited, awaited, missed>>

Names == {"cmux", "tmux", "herdr", "local"}
Live == {"shell", "booting", "booted"}
Claudes == {p \in Pane : pane[p] \in {"booting", "booted"}}
Calls == {"idle", "create", "launch", "close", "wait", "type", "fallback",
          "enter", "await"}

BackendTypeOK ==
    /\ backend \in Names
    /\ pane \in [Pane -> Live \cup {"unused", "gone"}]
    /\ typed \in [Pane -> 0..2] /\ submitted \in [Pane -> 0..2]
    /\ row \in {"pending", "running", "failed"}
    /\ ws \in Pane \cup {NULL} /\ cur \in Pane \cup {NULL}
    /\ pc \in Calls /\ late \in BOOLEAN /\ wired \in BOOLEAN
    /\ exited \in [Pane -> BOOLEAN]
    /\ awaited \in {"none", "code", "no_dir", "cancelled"}
    /\ missed \subseteq Pane /\ mishaps \in 0..MaxMishaps

BackendInit ==
    /\ backend \in Names                      \* backend.New
    /\ pane = [p \in Pane |-> "unused"]
    /\ typed = [p \in Pane |-> 0] /\ submitted = [p \in Pane |-> 0]
    /\ row = "pending" /\ ws = NULL /\ pc = "idle" /\ cur = NULL /\ late = FALSE
    /\ wired \in BOOLEAN /\ exited = [p \in Pane |-> FALSE]
    /\ awaited = "none" /\ missed = {} /\ mishaps = 0

Mishap == mishaps < MaxMishaps /\ mishaps' = mishaps + 1

\* A mutant: the session is not returned along with the error.
FailWithout(p) == row' = "failed" /\ pc' = "idle" /\ cur' = NULL /\ UNCHANGED ws

\* An error with a populated session: the row fails and keeps the pane.
FailWith(p) == row' = "failed" /\ ws' = p /\ pc' = "idle" /\ cur' = NULL

\* An error with the zero session: the claim is cleared, the row stays pending.
Retryable == pc' = "idle" /\ cur' = NULL /\ UNCHANGED <<row, ws>>

---------------------------------------------------------------------------
\* Start

StartCall ==
    /\ row = "pending" /\ pc = "idle"
    /\ pc' = "create" /\ late' = FALSE
    /\ UNCHANGED <<backend, pane, promptVars, row, ws, cur, awaitVars, mishaps>>

\* A mutant: sessions are not named after the row.
AnyName == TRUE

\* tmux names the session after the row and refuses a name that is in use.
NameIsFree == backend = "tmux" => \A p \in Pane : pane[p] \notin Live

Fresh == CHOOSE p \in Pane : pane[p] = "unused"
SomeFresh == \E p \in Pane : pane[p] = "unused"

\* What the create run leaves behind: herdr makes a bare workspace first.
Created == [pane EXCEPT ![Fresh] = IF backend = "herdr" THEN "shell" ELSE "booting"]

\* local is ready as soon as the process runs; herdr still has to launch.
Create ==
    /\ pc = "create" /\ SomeFresh /\ NameIsFree
    /\ pane' = Created /\ cur' = Fresh
    /\ \/ backend = "local" /\ pc' = "type" /\ row' = "running" /\ ws' = Fresh
       \/ backend = "herdr" /\ pc' = "launch" /\ UNCHANGED <<row, ws>>
       \/ backend \in {"cmux", "tmux"} /\ pc' = "wait" /\ UNCHANGED <<row, ws>>
    /\ UNCHANGED <<backend, promptVars, late, awaitVars, mishaps>>

CreateFails ==
    /\ pc = "create" /\ Retryable
    /\ UNCHANGED <<backend, pane, promptVars, late, awaitVars, mishaps>>

\* The pane exists and Start does not know: the run was cut off after its
\* work, or its output carries no pane id.
CreateIsLost ==
    /\ pc = "create" /\ SomeFresh /\ NameIsFree /\ backend # "local"
    /\ Mishap /\ pane' = Created /\ Retryable
    /\ UNCHANGED <<backend, promptVars, late, awaitVars>>

\* herdr pane run
Launch ==
    /\ pc = "launch"
    /\ \/ /\ pane[cur] = "shell"
          /\ pane' = [pane EXCEPT ![cur] = "booting"]
          /\ \/ pc' = "wait" /\ UNCHANGED mishaps
             \/ pc' = "close" /\ Mishap
       \/ pc' = "close" /\ UNCHANGED <<pane, mishaps>>
    /\ UNCHANGED <<backend, promptVars, row, ws, cur, late, awaitVars>>

\* herdr closes the half-built workspace; nobody looks whether that worked.
CloseWorkspace ==
    /\ pc = "close" /\ Retryable
    /\ \/ pane' = [pane EXCEPT ![cur] = "gone"] /\ UNCHANGED mishaps
       \/ Mishap /\ UNCHANGED pane
    /\ UNCHANGED <<backend, promptVars, late, awaitVars>>

\* Ready is Claude's own banner: the shell shows its prompt sign before it.
ShowsReady(p) == pane[p] = "booted"

WaitReady ==
    /\ pc = "wait" /\ ShowsReady(cur)
    /\ backend = "cmux" => ~late       \* cmux looks at the deadline first
    /\ pc' = "type" /\ row' = "running" /\ ws' = cur
    /\ UNCHANGED <<backend, pane, promptVars, cur, late, awaitVars, mishaps>>

\* A mutant: the deadline is looked at after the banner only.
TimesOutBooted ==
    /\ pc = "wait" /\ late /\ ShowsReady(cur) /\ FailWith(cur)
    /\ UNCHANGED <<backend, pane, promptVars, late, awaitVars, mishaps>>

StartupTimeout ==
    /\ pc = "wait" /\ late /\ FailWith(cur)
    /\ UNCHANGED <<backend, pane, promptVars, late, awaitVars, mishaps>>

\* The command line is missing (cmux, herdr), herdr sees that the pane is
\* gone, or the context is cancelled.  tmux keeps polling a lost pane.
WaitFails ==
    /\ pc = "wait" /\ FailWith(cur)
    /\ UNCHANGED <<backend, pane, promptVars, late, awaitVars, mishaps>>

---------------------------------------------------------------------------
\* Send

\* A mutant: the text is not submitted.
SendTextOnly ==
    /\ pc = "type" /\ pane[cur] \in Live
    /\ typed' = [typed EXCEPT ![cur] = @ + 1] /\ pc' = "idle" /\ cur' = NULL
    /\ UNCHANGED <<backend, pane, submitted, row, ws, late, awaitVars, mishaps>>

\* The text goes into the input line; local's write carries the newline too.
SendText ==
    /\ pc = "type" /\ pane[cur] \in Live
    /\ IF backend = "local"
       THEN /\ submitted' = [submitted EXCEPT ![cur] = @ + 1]
            /\ pc' = "idle" /\ cur' = NULL /\ UNCHANGED typed
       ELSE /\ typed' = [typed EXCEPT ![cur] = @ + 1]
            /\ pc' = "enter" /\ UNCHANGED <<submitted, cur>>
    /\ UNCHANGED <<backend, pane, row, ws, late, awaitVars, mishaps>>

\* cmux falls back to ws-send; with the others the row fails.
SendTextFails ==
    /\ pc = "type"
    /\ \/ UNCHANGED <<typed, mishaps>>
       \/ /\ backend # "local" /\ pane[cur] \in Live
          /\ typed' = [typed EXCEPT ![cur] = @ + 1] /\ Mishap
    /\ \/ backend = "cmux" /\ pc' = "fallback" /\ UNCHANGED <<row, ws, cur>>
       \/ FailWith(cur)
    /\ UNCHANGED <<backend, pane, submitted, late, awaitVars>>

\* The input line of the pane in hand, with n more copies, is submitted.
Submits(n) ==
    /\ pane[cur] \in Live
    /\ submitted' = [submitted EXCEPT ![cur] = @ + typed[cur] + n]
    /\ typed' = [typed EXCEPT ![cur] = 0]

SendIsDone == pc' = "idle" /\ cur' = NULL /\ UNCHANGED <<row, ws>>

\* The last run of Send: it works, or fails, or works and is reported as failed,
\* and then the row fails while its Claude is at work on the prompt.
LastRun(n) ==
    /\ \/ Submits(n) /\ SendIsDone /\ UNCHANGED mishaps
       \/ FailWith(cur) /\ UNCHANGED <<promptVars, mishaps>>
       \/ Submits(n) /\ FailWith(cur) /\ Mishap
    /\ UNCHANGED <<backend, pane, late, awaitVars>>

\* ws-send types the prompt and submits the whole line with it.
Fallback == pc = "fallback" /\ LastRun(1)

SendEnter == pc = "enter" /\ LastRun(0)

---------------------------------------------------------------------------
\* AwaitExit on the running row's session

Await ==
    /\ pc = "idle" /\ row = "running" /\ awaited = "none"
    /\ IF backend # "local" /\ ~wired
       THEN awaited' = "no_dir" /\ UNCHANGED <<pc, cur>>
       ELSE pc' = "await" /\ cur' = ws /\ UNCHANGED awaited
    /\ UNCHANGED <<backend, pane, promptVars, row, ws, late, wired, exited, missed, mishaps>>

\* local has a code of every process that is over, -1 of one that was killed;
\* the others have the one that Claude wrote into the sentinel file.
HasCode(p) == IF backend = "local" THEN pane[p] = "gone" ELSE exited[p]

AwaitReturns ==
    /\ pc = "await" /\ HasCode(cur)
    /\ awaited' = "code" /\ pc' = "idle" /\ cur' = NULL
    /\ UNCHANGED <<backend, pane, promptVars, row, ws, late, wired, exited, missed, mishaps>>

\* The context ends, or the wait's own timeout, or the sentinel cannot be read.
\* local kills and reaps the whole process group before it returns.
AwaitCancelled ==
    /\ pc = "await"
    /\ awaited' = "cancelled" /\ pc' = "idle" /\ cur' = NULL
    /\ pane' = IF backend = "local" THEN [pane EXCEPT ![cur] = "gone"] ELSE pane
    /\ UNCHANGED <<backend, promptVars, row, ws, late, wired, exited, missed, mishaps>>

---------------------------------------------------------------------------
\* ListSessions, for the reaper and clean (local has none)

Lists(seen) ==
    /\ backend # "local" /\ pc = "idle"
    /\ missed' = {p \in Pane : pane[p] \in Live} \ seen
    /\ UNCHANGED <<backend, pane, promptVars, row, ws, pc, cur, late, wired, exited, awaited>>

ListSessions == Lists(Pane) /\ UNCHANGED mishaps

\* cmux reports a run that failed; tmux and herdr take it for "no server yet".
ListFails == backend \in {"tmux", "herdr"} /\ Lists({}) /\ UNCHANGED mishaps

\* An exit 0 with another output than the command has: the lines (or, of herdr's
\* JSON, the nodes) that do not name a session are passed over without an error.
ListIsGarbled == \E seen \in SUBSET Pane : Lists(seen) /\ Mishap

---------------------------------------------------------------------------
\* The environment

ClaudeBoots(p) ==
    /\ pane[p] = "booting" /\ pane' = [pane EXCEPT ![p] = "booted"]
    /\ UNCHANGED <<backend, promptVars, row, ws, pc, cur, late, awaitVars, mishaps>>

PaneVanishes(p) ==
    /\ pane[p] \in Live /\ pane' = [pane EXCEPT ![p] = "gone"]
    /\ UNCHANGED <<backend, promptVars, row, ws, pc, cur, late, awaitVars, mishaps>>

\* The prompt has Claude write its exit code when it is done, and it may stay
\* there; of a local process only its own end shows.
ClaudeExits(p) ==
    /\ pane[p] = "booted" /\ submitted[p] > 0 /\ ~exited[p]
    /\ \/ pane' = [pane EXCEPT ![p] = "gone"]
       \/ backend # "local" /\ UNCHANGED pane
    /\ exited' = [exited EXCEPT ![p] = TRUE]
    /\ UNCHANGED <<backend, promptVars, row, ws, pc, cur, late, wired, awaited, missed, mishaps>>

DeadlinePasses ==
    /\ pc = "wait" /\ ~late /\ late' = TRUE
    /\ UNCHANGED <<backend, pane, promptVars, row, ws, pc, cur, awaitVars, mishaps>>

StartStep == \/ Create \/ CreateFails \/ CreateIsLost \/ Launch \/ CloseWorkspace
             \/ WaitReady \/ StartupTimeout \/ WaitFails

SendStep == SendText \/ SendTextFails \/ Fallback \/ SendEnter

BackendNext ==
    \/ StartCall \/ StartStep \/ SendStep
    \/ Await \/ AwaitReturns \/ AwaitCancelled
    \/ ListSessions \/ ListFails \/ ListIsGarbled \/ DeadlinePasses
    \/ \E p \in Pane : ClaudeBoots(p) \/ PaneVanishes(p) \/ ClaudeExits(p)

BackendSpec == BackendInit /\ [][BackendNext]_backendVars

---------------------------------------------------------------------------

\* A row has one Claude however often Start is retried.  tmux keeps this even
\* when a reply is lost, because the session's name is the row's; herdr needs
\* its clean-up to fail as well; cmux loses it to a single lost reply.  While
\* every run does what it reports, the row's ws names every pane that exists
\* between two calls: "no session id" really means nothing was created.
OneClaudePerRow ==
    /\ Cardinality(Claudes) > 1 =>
          \/ backend = "cmux" /\ mishaps >= 1
          \/ backend = "herdr" /\ mishaps >= 2
    /\ mishaps = 0 /\ pc = "idle" => \A p \in Pane : pane[p] \in Live => p = ws

\* The prompt is typed only where Claude has shown its banner, never into the
\* bare shell whose prompt sign looks the same (local has no screen to read).
PromptNeedsClaude ==
    \A p \in Pane : backend # "local" /\ typed[p] + submitted[p] > 0 =>
        pane[p] \in {"booted", "gone"}

\* A row that Send left running had its prompt submitted, not just pasted, and
\* exactly once unless cmux fell back after a send whose reply was lost.
RunningWasPrompted ==
    row = "running" /\ pc \in {"idle", "await"} =>
        /\ submitted[ws] >= 1 /\ typed[ws] = 0
        /\ submitted[ws] > 1 => backend = "cmux" /\ mishaps > 0

\* Whatever AwaitExit of the local backend answers, its process is over; the
\* other backends answer a code only if Claude has written one.
AwaitIsHonest ==
    /\ awaited = "code" /\ backend # "local" => exited[ws]
    /\ awaited \in {"code", "cancelled"} /\ backend = "local" => pane[ws] = "gone"

\* A list that is answered without an error has every live session in it, so the
\* reaper fails no row of one, except where tmux or herdr could not be asked or
\* the command printed something else than its list.
ListIsComplete == missed # {} => backend \in {"tmux", "herdr"} \/ mishaps > 0

\* Start and Send return, whether or not Claude ever shows its banner.
CallsReturn == pc \notin {"idle", "await"} ~> pc \in {"idle", "await"}

\* What a call of a backend answers is so: Claude is there when Start says it is
\* ready, the prompt was submitted when Send says so, a wait that ends leaves what
\* it answers for, and no live session is missing from a list but as named there.
AnswersAreTrue ==
    /\ BackendTypeOK
    /\ PromptNeedsClaude /\ RunningWasPrompted /\ AwaitIsHonest /\ ListIsComplete

\* What the dispatcher can tell of pane p, and of what it cannot, that nobody can.
SessionOf(p) ==
    IF exited[p] THEN "ended"
    ELSE IF pane[p] \notin Live THEN pane[p]
    ELSE IF p = ws
         THEN IF submitted[p] > 0 THEN "working" ELSE IF row = "running" THEN "ready" ELSE "kept"
         ELSE IF p = cur THEN "starting" ELSE "orphan"

Answer == IF awaited \in {"no_dir", "cancelled"} THEN "error" ELSE awaited

Sessions == [p \in Pane |-> SessionOf(p)]

Contract ==
    INSTANCE Executor WITH
        Session <- Pane, session <- Sessions, answer <- Answer, lost <- mishaps > 0

\* Every backend keeps the contract of exec.Executor: an error without a session
\* id means that nothing was created unless a reply was lost, an error with one
\* names what is there, and a ready session is prompted or the row fails, which a
\* session survives at work only if the reply to its prompt was lost.
ImplementsExecutor == Contract!Spec
=============================================================================
