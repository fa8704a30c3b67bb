------------------------------ MODULE Pipeline -------------------------------
(***************************************************************************)
(* internal/collect, internal/manage and loop.planAll: the collect-manage-  *)
(* persist pipeline of a full tick, one step per call to a source, to       *)
(* kv_state or to the tasks table.  Full ticks exclude each other (module   *)
(* Daemon), so there is one planner; it can die and start again.            *)
(*                                                                         *)
(* An item stands for one (source, external_id), the key Insert keeps       *)
(* unique; its row has a status and a plan_label.  Time is reduced to what  *)
(* a checkpoint tells apart: the items that changed since it was stamped.   *)
(* The order of candidates, scores and ranks are left out.                  *)
(*                                                                         *)
(* Everyone else who touches the rows appears as what they do to the two    *)
(* columns: a dispatcher lists, claims and sets running in three steps; a   *)
(* running row gets an outcome; the operator edits.                         *)
(***************************************************************************)
EXTENDS Naturals, FiniteSets

CONSTANTS
    Item,          \* what the sources can emit
    Source,        \* the enabled sources
    SourceOf,      \* item -> its source
    Incremental,   \* sources asked for what is new since their checkpoint
    DependsOn,     \* item -> the items its notes.depends_on names
    Contents,      \* what an item may be at its source
    Concurrent,    \* whether other processes dispatch while a tick plans
    PipelineFaults,
    Edits          \* what the operator may do to a row

NULL == ""   \* plan_label not set, nothing chosen yet

FaultKinds == {"fetch", "stamp", "plan", "row", "crash"}

EditKinds == {"promote", "reopen", "close", "remove"}

\* "noise" is what early triage or the cwd rule drops.
ContentKinds == {"absent", "noise", "untitled", "open", "done"}

ASSUME PipelineAssumption ==
    /\ SourceOf \in [Item -> Source]
    /\ Incremental \subseteq Source
    /\ DependsOn \in [Item -> SUBSET Item]
    /\ "absent" \in Contents /\ Contents \subseteq ContentKinds
    /\ Concurrent \in BOOLEAN
    /\ PipelineFaults \subseteq FaultKinds
    /\ Edits \subseteq EditKinds
    /\ NULL \notin Item \cup Source

VARIABLES
    upstream,  \* upstream[i]: the item at its source
    fresh,     \* items of incremental sources changed since the checkpoint
    status,    \* status[i]: the row's status, or "none"
    label,     \* label[i]: plan_label
    ppc,       \* the planner's step
    todo,      \* sources Gather has not asked yet
    seen,      \* seen[i]: the candidate of this tick, or "absent"
    finished,  \* the done and skipped rows of snapshotWorld
    verdict,   \* verdict[i]: the decision on the candidate, or NULL
    cur,       \* the source being stamped or the item being persisted
    calm,      \* whether faults are over
    listed,    \* rows in a dispatcher's snapshot
    claimed,   \* rows between ClaimWorkspace and running
    wasDone,   \* kept for DepsBeforeRun: rows that were done at some time
    rushed     \* and rows on their way or running that were listed without a label

rowVars == <<status, label>>
planVars == <<ppc, todo, seen, finished, verdict, cur>>
worldVars == <<upstream, fresh, calm>>
dispatchVars == <<listed, claimed>>
history == <<wasDone, rushed>>
vars == <<worldVars, rowVars, planVars, dispatchVars, history>>

Statuses == {"none", "pending", "running", "done", "failed", "skipped", "waiting_human"}

Verdicts == {"ready", "hold", "defer", "needs-human", "drop"}

PlanSteps == {"idle", "gather", "stamp", "plan", "judge", "persist", "lookup", "update", "label"}

TypeOK ==
    /\ upstream \in [Item -> Contents]
    /\ \A i \in fresh : i \in Item /\ SourceOf[i] \in Incremental
    /\ calm \in BOOLEAN
    /\ status \in [Item -> Statuses]
    /\ label \in [Item -> Verdicts \cup {NULL}]
    /\ ppc \in PlanSteps
    /\ todo \subseteq Source
    /\ seen \in [Item -> Contents]
    /\ finished \subseteq Item
    /\ verdict \in [Item -> Verdicts \cup {NULL}]
    /\ listed \subseteq Item /\ claimed \subseteq Item
    /\ wasDone \subseteq Item /\ rushed \subseteq Item
    /\ ppc = "stamp" => cur \in Source
    /\ ppc \in {"lookup", "update", "label"} => cur \in Item
    /\ ppc \in {"persist", "lookup", "update", "label"} =>
           \A i \in Item : seen[i] # "absent" => verdict[i] # NULL

Nothing == [i \in Item |-> "absent"]

Undecided == [i \in Item |-> NULL]

Init ==
    /\ upstream = Nothing
    /\ fresh = {}
    /\ calm = (PipelineFaults = {})
    /\ status = [i \in Item |-> "none"]
    /\ label = Undecided
    /\ ppc = "idle" /\ todo = {} /\ seen = Nothing /\ finished = {}
    /\ verdict = Undecided /\ cur = NULL
    /\ listed = {} /\ claimed = {} /\ wasDone = {} /\ rushed = {}

-----------------------------------------------------------------------------
\* Gather.

Fails(kind) == ~calm /\ kind \in PipelineFaults

\* Whatever failed now and then works again for good.
FaultsEnd ==
    /\ ~calm /\ calm' = TRUE
    /\ UNCHANGED <<upstream, fresh, rowVars, planVars, dispatchVars>>

\* In one process a tick or a dispatch begins when the last one is over.
MayBegin == Concurrent \/ (ppc = "idle" /\ listed = {} /\ claimed = {})

BeginTick ==
    /\ ppc = "idle" /\ MayBegin
    /\ ppc' = "gather" /\ todo' = Source
    /\ UNCHANGED <<worldVars, rowVars, seen, finished, verdict, cur, dispatchVars>>

\* What Since(checkpoint) or List returns.
Emitted(s) ==
    {i \in Item : /\ SourceOf[i] = s /\ upstream[i] # "absent"
                  /\ s \in Incremental => i \in fresh}

FetchSource(s) ==
    /\ ppc = "gather" /\ s \in todo
    /\ seen' = [i \in Item |-> IF i \in Emitted(s) THEN upstream[i] ELSE seen[i]]
    /\ todo' = todo \ {s}
    /\ ppc' = "stamp" /\ cur' = s
    /\ UNCHANGED <<worldVars, rowVars, finished, verdict, dispatchVars>>

\* One source's failure does not end the tick.
FetchFails(s) ==
    /\ Fails("fetch")
    /\ ppc = "gather" /\ s \in todo
    /\ todo' = todo \ {s}
    /\ UNCHANGED <<worldVars, rowVars, ppc, seen, finished, verdict, cur, dispatchVars>>

\* advanceCheckpoint: the clock is read now, after the fetch, and nothing of
\* what was fetched is in the tasks table yet.
StampCheckpoint ==
    /\ ppc = "stamp"
    /\ \/ fresh' = {i \in fresh : SourceOf[i] # cur}
       \/ Fails("stamp") /\ UNCHANGED fresh
    /\ ppc' = "gather" /\ cur' = NULL
    /\ UNCHANGED <<upstream, calm, rowVars, todo, seen, finished, verdict, dispatchVars>>

-----------------------------------------------------------------------------
\* Plan.

EndGather ==
    /\ ppc = "gather" /\ todo = {}
    /\ ppc' = "plan"
    /\ UNCHANGED <<worldVars, rowVars, todo, seen, finished, verdict, cur, dispatchVars>>

SnapshotWorld ==
    /\ ppc = "plan"
    /\ finished' = {i \in Item : status[i] \in {"done", "skipped"}}
    /\ ppc' = "judge"
    /\ UNCHANGED <<worldVars, rowVars, todo, seen, verdict, cur, dispatchVars>>

\* Mutant: a dependency without a row does not count.
DepsIncompleteIfKnown(i) == \E j \in DependsOn[i] : status[j] \notin {"done", "none"}

\* A dependency whose row does not exist counts as not done.
depsIncomplete(i) == \E j \in DependsOn[i] : status[j] # "done"

\* The rules in order; what they clear is ready, unless the scorer defers it.
Cutoff(i) ==
    CASE seen[i] = "noise" \/ i \in finished -> {"drop"}
      [] seen[i] = "untitled" /\ i \notin finished -> {"needs-human"}
      [] seen[i] \in {"open", "done"} /\ i \notin finished /\ depsIncomplete(i) -> {"hold"}
      [] OTHER -> {"ready", "defer"}

Judge(i) ==
    /\ ppc = "judge" /\ seen[i] # "absent" /\ verdict[i] = NULL
    /\ \E v \in Cutoff(i) : verdict' = [verdict EXCEPT ![i] = v]
    /\ UNCHANGED <<worldVars, rowVars, ppc, todo, seen, finished, cur, dispatchVars>>

\* Mutant: candidates beyond a limit are persisted without a decision.
EndJudgingEarly ==
    /\ ppc = "judge"
    /\ ppc' = "persist" /\ finished' = {}
    /\ UNCHANGED <<worldVars, rowVars, todo, seen, verdict, cur, dispatchVars>>

EndJudging ==
    /\ ppc = "judge"
    /\ \A i \in Item : seen[i] # "absent" => verdict[i] # NULL
    /\ ppc' = "persist" /\ finished' = {}
    /\ UNCHANGED <<worldVars, rowVars, todo, seen, verdict, cur, dispatchVars>>

\* The planning phase is over, or its process died: its candidates are gone.
Forget ==
    /\ ppc' = "idle" /\ todo' = {} /\ seen' = Nothing /\ finished' = {}
    /\ verdict' = Undecided /\ cur' = NULL
    /\ UNCHANGED <<worldVars, rowVars, dispatchVars>>

\* A failed List or Get of Plan drops the whole batch.
PlanFails == Fails("plan") /\ ppc \in {"plan", "judge"} /\ Forget

Crash == Fails("crash") /\ ppc # "idle" /\ Forget

-----------------------------------------------------------------------------
\* persistDecision, row by row.

StatusFor(v) ==
    CASE v \in {"ready", "hold", "defer"} -> "pending"
      [] v = "drop" -> "skipped"
      [] OTHER -> "waiting_human"

\* Completion upstream wins over the verdict.
Wanted(i) == IF seen[i] = "done" THEN "done" ELSE StatusFor(verdict[i])

executorOwned(st) == st \in {"running", "done", "failed"}

NextDecision(i) ==
    /\ ppc' = "persist" /\ cur' = NULL
    /\ seen' = [seen EXCEPT ![i] = "absent"]
    /\ verdict' = [verdict EXCEPT ![i] = NULL]
    /\ UNCHANGED <<todo, finished>>

Persisting(i, step) ==
    /\ ppc' = step /\ cur' = i
    /\ UNCHANGED <<todo, seen, finished, verdict>>

\* An item that is done upstream gets no label.
Labelling(i) == IF seen[i] = "done" THEN NextDecision(i) ELSE Persisting(i, "label")

\* Mutant: only the ready candidates of the plan are persisted.
InsertRowIfReady(i) ==
    /\ ppc = "persist" /\ seen[i] # "absent"
    /\ IF status[i] # "none" THEN Persisting(i, "lookup") /\ UNCHANGED rowVars
       ELSE IF verdict[i] # "ready" THEN NextDecision(i) /\ UNCHANGED rowVars
       ELSE /\ status' = [status EXCEPT ![i] = Wanted(i)]
            /\ label' = [label EXCEPT ![i] = NULL]
            /\ Labelling(i)
    /\ UNCHANGED <<worldVars, dispatchVars>>

\* Insert: a new row has no label yet.
InsertRow(i) ==
    /\ ppc = "persist" /\ seen[i] # "absent"
    /\ IF status[i] = "none"
       THEN /\ status' = [status EXCEPT ![i] = Wanted(i)]
            /\ label' = [label EXCEPT ![i] = NULL]
            /\ Labelling(i)
       ELSE Persisting(i, "lookup") /\ UNCHANGED rowVars
    /\ UNCHANGED <<worldVars, dispatchVars>>

\* Mutant: a row whose status does not change is left as it is.
LookupUnlessSame ==
    /\ ppc = "lookup"
    /\ IF status[cur] \in {"none", Wanted(cur)} \/ executorOwned(status[cur])
       THEN NextDecision(cur)
       ELSE Persisting(cur, "update")
    /\ UNCHANGED <<worldVars, rowVars, dispatchVars>>

\* GetBySourceExternalID: a running or finished row is not the planner's.
LookupRow ==
    /\ ppc = "lookup"
    /\ CASE status[cur] = "none" \/ executorOwned(status[cur]) -> NextDecision(cur)
         [] status[cur] # "none" /\ ~executorOwned(status[cur])
                /\ status[cur] # Wanted(cur) -> Persisting(cur, "update")
         [] OTHER -> Labelling(cur)
    /\ UNCHANGED <<worldVars, rowVars, dispatchVars>>

\* Mutant: the label is not refreshed along with the status.
UpdateRowUnlabelled ==
    /\ ppc = "update"
    /\ status' = IF status[cur] = "none" THEN status ELSE [status EXCEPT ![cur] = Wanted(cur)]
    /\ NextDecision(cur)
    /\ UNCHANGED <<worldVars, label, dispatchVars>>

\* UpdateStatus: what the lookup found is not checked again.
UpdateRow ==
    /\ ppc = "update"
    /\ \/ /\ status[cur] # "none"
          /\ status' = [status EXCEPT ![cur] = Wanted(cur)]
          /\ Labelling(cur)
       \/ status[cur] = "none" /\ NextDecision(cur) /\ UNCHANGED status
    /\ UNCHANGED <<worldVars, label, dispatchVars>>

SetPlan ==
    /\ ppc = "label"
    /\ label' = IF status[cur] = "none" THEN label ELSE [label EXCEPT ![cur] = verdict[cur]]
    /\ NextDecision(cur)
    /\ UNCHANGED <<worldVars, status, dispatchVars>>

\* A failed statement is audited and ends that row's turn only.
RowFails(i) ==
    /\ Fails("row")
    /\ \/ ppc = "persist" /\ seen[i] # "absent"
       \/ ppc \in {"lookup", "update", "label"} /\ cur = i
    /\ NextDecision(i)
    /\ UNCHANGED <<worldVars, rowVars, dispatchVars>>

EndTick ==
    /\ ppc = "persist" /\ seen = Nothing
    /\ Forget

-----------------------------------------------------------------------------
\* The rest of the system.

UpstreamChanges(i) ==
    /\ \E c \in Contents \ {upstream[i]} : upstream' = [upstream EXCEPT ![i] = c]
    /\ fresh' = IF SourceOf[i] \in Incremental THEN fresh \cup {i} ELSE fresh
    /\ UNCHANGED <<calm, rowVars, planVars, dispatchVars>>

\* DispatchableOnly: pending, and labelled ready or not labelled at all.
Dispatchable(i) == status[i] = "pending" /\ label[i] \in {NULL, "ready"}

ListDispatchable ==
    /\ MayBegin /\ listed = {}
    /\ listed' = {i \in Item : Dispatchable(i)}
    /\ UNCHANGED <<worldVars, rowVars, planVars, claimed>>

\* The row is claimed if it is still pending; its label is not looked at.
TakeListed(i) ==
    /\ i \in listed
    /\ listed' = listed \ {i}
    /\ claimed' = IF status[i] = "pending" THEN claimed \cup {i} ELSE claimed
    /\ UNCHANGED <<worldVars, rowVars, planVars>>

RunClaimed(i) ==
    /\ i \in claimed
    /\ claimed' = claimed \ {i}
    /\ status' = IF status[i] = "none" THEN status ELSE [status EXCEPT ![i] = "running"]
    /\ UNCHANGED <<worldVars, label, planVars, listed>>

\* The session's outcome, or its disappearance.
FinishRow(i) ==
    /\ status[i] = "running"
    /\ \E st \in {"done", "failed"} : status' = [status EXCEPT ![i] = st]
    /\ UNCHANGED <<worldVars, label, planVars, dispatchVars>>

\* The operator; a removed row takes its label with it.
EditRow(i) ==
    /\ \/ /\ "promote" \in Edits /\ status[i] = "skipped"
          /\ status' = [status EXCEPT ![i] = "pending"] /\ UNCHANGED label
       \/ /\ "reopen" \in Edits /\ status[i] \in {"done", "failed"}
          /\ status' = [status EXCEPT ![i] = "pending"] /\ UNCHANGED label
       \/ /\ "close" \in Edits /\ status[i] \in {"pending", "waiting_human"}
          /\ status' = [status EXCEPT ![i] = "done"] /\ UNCHANGED label
       \/ /\ "remove" \in Edits /\ status[i] # "none"
          /\ status' = [status EXCEPT ![i] = "none"]
          /\ label' = [label EXCEPT ![i] = NULL]
    /\ UNCHANGED <<worldVars, planVars, dispatchVars>>

-----------------------------------------------------------------------------
PlannerStep ==
    \/ BeginTick \/ StampCheckpoint \/ EndGather \/ SnapshotWorld \/ EndJudging
    \/ LookupRow \/ UpdateRow \/ SetPlan \/ EndTick
    \/ \E s \in Source : FetchSource(s)
    \/ \E i \in Item : Judge(i) \/ InsertRow(i)

PlannerFault ==
    \/ PlanFails \/ Crash
    \/ \E s \in Source : FetchFails(s)
    \/ \E i \in Item : RowFails(i)

DispatcherStep ==
    \/ ListDispatchable
    \/ \E i \in Item : TakeListed(i) \/ RunClaimed(i)

\* What the history records of any step.
Remember ==
    /\ wasDone' = wasDone \cup {i \in Item : status'[i] = "done"}
    /\ rushed' = {i \in rushed : i \in listed' \cup claimed' \/ status'[i] = "running"}
                     \cup {i \in listed' \ listed : label[i] = NULL}

Next ==
    /\ \/ PlannerStep \/ PlannerFault \/ DispatcherStep \/ FaultsEnd
       \/ \E i \in Item : UpstreamChanges(i) \/ FinishRow(i) \/ EditRow(i)
    /\ Remember

Spec == Init /\ [][Next]_vars

\* Full ticks come for ever between the dispatching ones, and each runs to its
\* end; the sources and the store stop failing some day.
FairSpec ==
    /\ Spec
    /\ SF_vars(PlannerStep /\ Remember)
    /\ \A i \in Item : WF_vars(TakeListed(i) /\ Remember) /\ WF_vars(RunClaimed(i) /\ Remember)
    /\ WF_vars(FaultsEnd /\ Remember)

-----------------------------------------------------------------------------
\* "hold: blocked on a dependency": whoever plans, dispatches and edits at the
\* same time, a row that is on its way or runs was cleared by a plan that saw
\* its dependencies done, unless a dispatcher listed it between its Insert and
\* its SetPlan, or after the SetPlan was lost.
DepsBeforeRun ==
    \A i \in Item :
        i \in listed \cup claimed \/ status[i] = "running" =>
            DependsOn[i] \subseteq wasDone \/ i \in rushed

\* Status and label never drift apart (persistDecision): between ticks no row
\* is ready and yet in a status the dispatcher never picks.
NoDrift ==
    ppc = "idle" =>
        \A i \in Item : label[i] = "ready" => status[i] \notin {"waiting_human", "skipped"}

\* "Every discovered item lands in SQLite": failed fetches and failed plans
\* only delay it.
EveryItemIsRecorded ==
    \A i \in Item : upstream[i] # "absent" ~> status[i] # "none" \/ upstream[i] = "absent"

\* "auto-promotes when it clears": a held row is planned again once its
\* dependencies are done.
Cleared(i) ==
    status[i] = "pending" /\ label[i] = "hold" /\ upstream[i] = "open" /\ ~depsIncomplete(i)

HeldIsReleased == \A i \in Item : Cleared(i) ~> ~Cleared(i)

\* No silent loss: an item whose checkpoint has been passed has a row, or is
\* in the batch being planned.
NoItemIsLost ==
    \A i \in Item :
        \/ upstream[i] = "absent" \/ status[i] # "none"
        \/ SourceOf[i] \notin Incremental \/ i \in fresh \/ seen[i] # "absent"
=============================================================================
