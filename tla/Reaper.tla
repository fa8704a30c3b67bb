------------------------------- MODULE Reaper --------------------------------
(***************************************************************************)
(* The two sweeps that compare the tasks table with the backend's live      *)
(* sessions: internal/reaper (`marunage reaper`, and the end of every loop  *)
(* tick), which fails running rows whose session vanished, and `marunage    *)
(* clean --apply` (internal/cli/task_clean.go), which empties ws columns.   *)
(* The reaper reads the rows first and the sessions second; clean reads     *)
(* them the other way round.  Both write from their snapshots.              *)
(*                                                                         *)
(* The reaper's warning about rows stuck for 24 hours only appends to       *)
(* judgment_reason, which this model leaves out.                            *)
(***************************************************************************)
EXTENDS Workspaces

CONSTANTS
    Reapers,   \* processes that run the reaper
    Cleaners   \* operators that run `marunage clean --apply`

VARIABLES
    rpc,     \* rpc[r]: the step of reaper r
    rrows,   \* rrows[r]: its snapshot, <<row, ws>> pairs
    cpc,     \* cpc[c]: the step of cleaner c
    calive,  \* calive[c]: the live sessions it has listed
    crows    \* crows[c]: the orphan rows it is about to clear

reaperVars == <<rpc, rrows>>
cleanVars == <<cpc, calive, crows>>

ReaperTypeOK ==
    /\ rpc \in [Reapers -> {"idle", "sessions", "judge"}]
    /\ rrows \in [Reapers -> SUBSET (TaskId \X (SessionId \cup {Claim}))]
    /\ cpc \in [Cleaners -> {"idle", "rows", "clear"}]
    /\ calive \in [Cleaners -> SUBSET SessionId]
    /\ crows \in [Cleaners -> SUBSET TaskId]

ReaperInit ==
    /\ rpc = [r \in Reapers |-> "idle"]
    /\ rrows = [r \in Reapers |-> {}]
    /\ cpc = [c \in Cleaners |-> "idle"]
    /\ calive = [c \in Cleaners |-> {}]
    /\ crows = [c \in Cleaners |-> {}]

\* Rows with a workspace that are in one of the given statuses.
Bound(ids) == {t \in ids : ws[t] # NULL}

-----------------------------------------------------------------------------
\* Mutant: without the status filter the snapshot holds rows not yet running.
ReapAnyRows(r) ==
    /\ rpc[r] = "idle"
    /\ rrows' = [rrows EXCEPT ![r] = {<<t, ws[t]>> : t \in Bound(TaskId)}]
    /\ rpc' = [rpc EXCEPT ![r] = "sessions"]
    /\ UNCHANGED <<cleanVars, taskVars, workspaceVars>>

\* Reaper.Run lists the running rows; an empty ws is skipped later, which is
\* the same as not taking it.
ReapRows(r) ==
    /\ rpc[r] = "idle"
    /\ rrows' = [rrows EXCEPT ![r] = {<<t, ws[t]>> : t \in Bound(RowsIn("running"))}]
    /\ rpc' = [rpc EXCEPT ![r] = "sessions"]
    /\ UNCHANGED <<cleanVars, taskVars, workspaceVars>>

\* Then the sessions; what is left of the snapshot has disappeared.  When
\* ListSessions fails Run returns and no row is touched.
ReapSessions(r) ==
    /\ rpc[r] = "sessions"
    /\ \/ /\ rrows' = [rrows EXCEPT ![r] = {p \in @ : p[2] \notin LiveSessions}]
          /\ rpc' = [rpc EXCEPT ![r] = "judge"]
       \/ /\ "list" \in Faults
          /\ rrows' = [rrows EXCEPT ![r] = {}]
          /\ rpc' = [rpc EXCEPT ![r] = "idle"]
    /\ UNCHANGED <<cleanVars, taskVars, workspaceVars>>

\* markDisappeared: the write is guarded by the status, not by the ws that
\* was found dead; ErrInvalidTransition is expected and ignored.
MarkDisappeared(r, t) ==
    /\ rpc[r] = "judge"
    /\ \E p \in rrows[r] :
           p[1] = t /\ rrows' = [rrows EXCEPT ![r] = @ \ {p}]
    /\ \/ MarkFailedFromRunningWithReason(t)
       \/ status[t] # "running" /\ UNCHANGED taskVars
    /\ UNCHANGED <<rpc, cleanVars, workspaceVars>>

ReapReturns(r) ==
    /\ rpc[r] = "judge" /\ rrows[r] = {}
    /\ rpc' = [rpc EXCEPT ![r] = "idle"]
    /\ UNCHANGED <<rrows, cleanVars, taskVars, workspaceVars>>

ReaperStep(r) ==
    \/ ReapRows(r) \/ ReapSessions(r) \/ ReapReturns(r)
    \/ \E t \in TaskId : MarkDisappeared(r, t)

-----------------------------------------------------------------------------
CleanSessions(c) ==
    /\ cpc[c] = "idle"
    /\ calive' = [calive EXCEPT ![c] = LiveSessions]
    /\ cpc' = [cpc EXCEPT ![c] = "rows"]
    /\ UNCHANGED <<crows, reaperVars, taskVars, workspaceVars>>

\* Every row, whatever its status, whose ws is not a live session: a row
\* another process is dispatching right now carries the claim and is one.
CleanRows(c) ==
    /\ cpc[c] = "rows"
    /\ crows' = [crows EXCEPT ![c] = {t \in Bound(TaskId) : ws[t] \notin calive[c]}]
    /\ calive' = [calive EXCEPT ![c] = {}]
    /\ cpc' = [cpc EXCEPT ![c] = "clear"]
    /\ UNCHANGED <<reaperVars, taskVars, workspaceVars>>

\* A row that is gone ends the command with an error.
ClearOrphan(c, t) ==
    /\ cpc[c] = "clear" /\ t \in crows[c]
    /\ \/ SetWorkspace(t, NULL) /\ crows' = [crows EXCEPT ![c] = @ \ {t}]
       \/ NoRow(t) /\ crows' = [crows EXCEPT ![c] = {}]
    /\ UNCHANGED <<cpc, calive, reaperVars, workspaceVars>>

CleanReturns(c) ==
    /\ cpc[c] = "clear" /\ crows[c] = {}
    /\ cpc' = [cpc EXCEPT ![c] = "idle"]
    /\ UNCHANGED <<calive, crows, reaperVars, taskVars, workspaceVars>>

CleanerStep(c) ==
    \/ CleanSessions(c) \/ CleanRows(c) \/ CleanReturns(c)
    \/ \E t \in TaskId : ClearOrphan(c, t)
=============================================================================
