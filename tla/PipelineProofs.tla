--------------------------- MODULE PipelineProofs ----------------------------
(***************************************************************************)
(* What holds of the planner for any number of items and sources, under     *)
(* every fault.                                                             *)
(***************************************************************************)
EXTENDS Pipeline, TLAPS

\* Every variable always has its type; a candidate that is being persisted
\* has a verdict.
THEOREM PipelineTypeCorrect == Spec => []TypeOK
<1>1. Init => TypeOK
  BY PipelineAssumption
  DEF Init, TypeOK, Nothing, Undecided, Statuses, PlanSteps
<1>2. TypeOK /\ [Next]_vars => TypeOK'
  <2> SUFFICES ASSUME TypeOK, [Next]_vars PROVE TypeOK'
    OBVIOUS
  <2>0. wasDone' \subseteq Item /\ rushed' \subseteq Item
    <3>1. CASE UNCHANGED vars
      BY <3>1 DEF TypeOK, vars, history
    <3>2. CASE Next
      <4>1. listed' \subseteq Item
        BY <3>2 DEF Next, PlannerStep, PlannerFault, DispatcherStep, TypeOK, BeginTick,
            StampCheckpoint, EndGather, SnapshotWorld, EndJudging, LookupRow, UpdateRow,
            SetPlan, EndTick, Forget, FetchSource, Judge, InsertRow, PlanFails, Crash,
            FetchFails, RowFails, ListDispatchable, TakeListed, RunClaimed, FaultsEnd,
            UpstreamChanges, FinishRow, EditRow, dispatchVars
      <4> QED BY <3>2, <4>1 DEF Next, Remember, TypeOK
    <3> QED BY <3>1, <3>2
  <2> USE <2>0
  <2>1. ASSUME BeginTick \/ EndGather \/ SnapshotWorld \/ EndJudging PROVE TypeOK'
    BY <2>1 DEF BeginTick, EndGather, SnapshotWorld, EndJudging, TypeOK,
                worldVars, rowVars, dispatchVars, PlanSteps
  <2>2. ASSUME NEW s \in Source, FetchSource(s) \/ FetchFails(s) PROVE TypeOK'
    BY <2>2 DEF FetchSource, FetchFails, Emitted, TypeOK,
                worldVars, rowVars, dispatchVars, PlanSteps
  <2>3. ASSUME StampCheckpoint PROVE TypeOK'
    BY <2>3 DEF StampCheckpoint, TypeOK, rowVars, dispatchVars, PlanSteps
  <2>4. ASSUME NEW i \in Item, Judge(i) PROVE TypeOK'
    <3>1. Cutoff(i) \subseteq Verdicts
      BY DEF Cutoff, Verdicts
    <3> QED BY <2>4, <3>1 DEF Judge, TypeOK, worldVars, rowVars, dispatchVars, PlanSteps
  <2>5. ASSUME Forget PROVE TypeOK'
    BY <2>5, PipelineAssumption
    DEF Forget, Nothing, Undecided, TypeOK, worldVars, rowVars, dispatchVars, PlanSteps
  <2>6. ASSUME NEW i \in Item,
               ppc \in {"persist", "lookup", "update", "label"},
               NextDecision(i) \/ Persisting(i, "lookup") \/ Persisting(i, "update")
                   \/ Persisting(i, "label"),
               status' \in [Item -> Statuses], label' \in [Item -> Verdicts \cup {NULL}],
               UNCHANGED worldVars, UNCHANGED dispatchVars
        PROVE TypeOK'
    <3>1. CASE NextDecision(i)
      BY <2>6, <3>1, PipelineAssumption
      DEF NextDecision, TypeOK, worldVars, dispatchVars, PlanSteps
    <3>2. CASE ~NextDecision(i)
      BY <2>6, <3>2 DEF Persisting, TypeOK, worldVars, dispatchVars, PlanSteps
    <3> QED BY <3>1, <3>2
  <2>7. \A i \in Item : Wanted(i) \in Statuses
    BY DEF Wanted, StatusFor, Statuses
  <2>8. ASSUME NEW i \in Item, InsertRow(i) PROVE TypeOK'
    <3>1. /\ status' \in [Item -> Statuses] /\ label' \in [Item -> Verdicts \cup {NULL}]
      BY <2>7, <2>8 DEF InsertRow, TypeOK, rowVars
    <3> QED BY <2>6, <2>8, <3>1 DEF InsertRow, Labelling
  <2>9. ASSUME LookupRow \/ UpdateRow \/ SetPlan PROVE TypeOK'
    <3>1. cur \in Item /\ ppc \in {"lookup", "update", "label"}
      BY <2>9 DEF LookupRow, UpdateRow, SetPlan, TypeOK
    <3>2. /\ status' \in [Item -> Statuses] /\ label' \in [Item -> Verdicts \cup {NULL}]
      BY <2>7, <2>9, <3>1 DEF LookupRow, UpdateRow, SetPlan, TypeOK, rowVars
    <3>3. CASE LookupRow
      BY <2>6, <3>1, <3>2, <3>3 DEF LookupRow, Labelling
    <3>4. CASE UpdateRow \/ SetPlan
      BY <2>6, <3>1, <3>2, <3>4 DEF UpdateRow, SetPlan, Labelling
    <3> QED BY <2>9, <3>3, <3>4
  <2>10. ASSUME NEW i \in Item, RowFails(i) PROVE TypeOK'
    <3>1. ppc \in {"persist", "lookup", "update", "label"}
      BY <2>10 DEF RowFails
    <3>2. /\ status' \in [Item -> Statuses] /\ label' \in [Item -> Verdicts \cup {NULL}]
      BY <2>10 DEF RowFails, TypeOK, rowVars
    <3> QED BY <2>6, <2>10, <3>1, <3>2 DEF RowFails
  <2>11. ASSUME ListDispatchable \/ FaultsEnd PROVE TypeOK'
    BY <2>11 DEF ListDispatchable, FaultsEnd, TypeOK, worldVars, rowVars, planVars, dispatchVars
  <2>12. ASSUME NEW i \in Item, TakeListed(i) \/ RunClaimed(i) \/ FinishRow(i) PROVE TypeOK'
    BY <2>12 DEF TakeListed, RunClaimed, FinishRow, TypeOK, Statuses,
                 worldVars, rowVars, planVars, dispatchVars
  <2>13. ASSUME NEW i \in Item, EditRow(i) PROVE TypeOK'
    BY <2>13 DEF EditRow, TypeOK, Statuses, worldVars, planVars, dispatchVars
  <2>14. ASSUME NEW i \in Item, UpstreamChanges(i) PROVE TypeOK'
    BY <2>14 DEF UpstreamChanges, TypeOK, rowVars, planVars, dispatchVars
  <2>15. CASE UNCHANGED vars
    BY <2>15 DEF TypeOK, vars, history, worldVars, rowVars, planVars, dispatchVars
  <2>16. CASE PlannerStep
    BY <2>1, <2>2, <2>3, <2>4, <2>5, <2>8, <2>9, <2>16 DEF PlannerStep, EndTick
  <2>17. CASE PlannerFault
    BY <2>2, <2>5, <2>10, <2>17 DEF PlannerFault, PlanFails, Crash
  <2> QED
    BY <2>11, <2>12, <2>13, <2>14, <2>15, <2>16, <2>17 DEF Next, DispatcherStep
<1> QED BY <1>1, <1>2, PTL DEF Spec

-----------------------------------------------------------------------------
\* Where "its dependencies were done" comes from: the rules call a candidate
\* ready only then, and only such a verdict becomes a label.
ClearedInv ==
    /\ \A i \in Item : status[i] = "done" => i \in wasDone
    /\ \A i \in Item : verdict[i] = "ready" => DependsOn[i] \subseteq wasDone
    /\ \A i \in Item : label[i] = "ready" => DependsOn[i] \subseteq wasDone
    /\ DepsBeforeRun

\* What a step must leave alone for ClearedInv to stay: no row newly listed,
\* claimed or set running, and no new verdict or label ready.
LEMMA QuietSteps ==
    ASSUME ClearedInv, TypeOK, Remember,
           \A i \in Item : verdict'[i] \in {verdict[i], NULL},
           \A i \in Item : label'[i] \in {label[i], NULL, verdict[i]},
           \A i \in Item : status'[i] = "running" => status[i] = "running" \/ i \in claimed,
           listed' \subseteq listed, claimed' \subseteq claimed \cup listed
    PROVE  ClearedInv'
<1>1. wasDone \subseteq wasDone' /\ \A i \in Item : status'[i] = "done" => i \in wasDone'
  BY DEF Remember
<1>2. DepsBeforeRun'
  BY <1>1 DEF ClearedInv, DepsBeforeRun, Remember
<1> QED BY <1>1, <1>2, PipelineAssumption DEF ClearedInv, NULL

\* ClearedInv is inductive, whatever the faults, the edits and the interleaving.
LEMMA ClearedStays ==
    ASSUME TypeOK, ClearedInv, Next
    PROVE  ClearedInv'
<1> USE DEF NULL
<1>1. Remember
  BY DEF Next
<1>2. \A i \in Item : Wanted(i) # "running"
  BY DEF Wanted, StatusFor
<1>3. ASSUME BeginTick \/ EndGather \/ SnapshotWorld \/ EndJudging \/ StampCheckpoint
      PROVE ClearedInv'
  BY <1>1, <1>3, QuietSteps
  DEF BeginTick, EndGather, SnapshotWorld, EndJudging, StampCheckpoint, rowVars, dispatchVars
<1>4. ASSUME NEW s \in Source, FetchSource(s) \/ FetchFails(s) PROVE ClearedInv'
  BY <1>1, <1>4, QuietSteps DEF FetchSource, FetchFails, rowVars, dispatchVars
<1>5. ASSUME NEW i \in Item, Judge(i) PROVE ClearedInv'
  <2>1. "ready" \in Cutoff(i) => \A j \in DependsOn[i] : status[j] = "done"
    BY <1>5, PipelineAssumption DEF Cutoff, depsIncomplete, Judge, TypeOK, ContentKinds
  <2>2. verdict'[i] = "ready" => DependsOn[i] \subseteq wasDone
    <3>1. verdict'[i] \in Cutoff(i)
      BY <1>5 DEF Judge, TypeOK
    <3>2. DependsOn[i] \subseteq Item
      BY PipelineAssumption
    <3> QED BY <2>1, <3>1, <3>2 DEF ClearedInv
  <2>3. wasDone \subseteq wasDone' /\ UNCHANGED <<status, label, listed, claimed>>
    BY <1>1, <1>5 DEF Remember, Judge, rowVars, dispatchVars
  <2>4. \A j \in Item : verdict'[j] = "ready" => DependsOn[j] \subseteq wasDone
    BY <1>5, <2>2 DEF Judge, TypeOK, ClearedInv
  <2>5. DepsBeforeRun'
    BY <1>1, <2>3 DEF ClearedInv, DepsBeforeRun, Remember
  <2> QED BY <1>1, <2>3, <2>4, <2>5 DEF ClearedInv, Remember
<1>6. ASSUME Forget PROVE ClearedInv'
  BY <1>1, <1>6, QuietSteps DEF Forget, Undecided, rowVars, dispatchVars
<1>7. ASSUME NEW i \in Item, InsertRow(i) PROVE ClearedInv'
  BY <1>1, <1>2, <1>7, QuietSteps
  DEF InsertRow, Labelling, NextDecision, Persisting, TypeOK, rowVars, dispatchVars
<1>8. ASSUME LookupRow \/ UpdateRow \/ SetPlan PROVE ClearedInv'
  <2>1. cur \in Item
    BY <1>8 DEF LookupRow, UpdateRow, SetPlan, TypeOK
  <2>2. /\ \A i \in Item : verdict'[i] \in {verdict[i], NULL}
        /\ UNCHANGED dispatchVars
    BY <1>8, <2>1
    DEF LookupRow, UpdateRow, SetPlan, Labelling, NextDecision, Persisting, TypeOK
  <2>3. /\ \A i \in Item : label'[i] \in {label[i], NULL, verdict[i]}
        /\ \A i \in Item : status'[i] = "running" => status[i] = "running"
    BY <1>2, <1>8, <2>1 DEF LookupRow, UpdateRow, SetPlan, TypeOK, rowVars
  <2> QED BY <1>1, <2>2, <2>3, QuietSteps DEF dispatchVars
<1>9. ASSUME NEW i \in Item, RowFails(i) PROVE ClearedInv'
  BY <1>1, <1>9, QuietSteps DEF RowFails, NextDecision, TypeOK, rowVars, dispatchVars
<1>10. ASSUME ListDispatchable PROVE ClearedInv'
  <2>1. /\ UNCHANGED <<status, label, verdict, claimed>> /\ wasDone \subseteq wasDone'
        /\ listed = {} /\ listed' = {i \in Item : Dispatchable(i)}
    BY <1>1, <1>10 DEF ListDispatchable, Remember, rowVars, planVars
  <2>2. ASSUME NEW i \in Item, i \in listed' PROVE DependsOn[i] \subseteq wasDone' \/ i \in rushed'
    <3>1. label[i] \in {NULL, "ready"} /\ i \in listed' \ listed
      BY <2>1, <2>2 DEF Dispatchable
    <3> QED BY <1>1, <2>1, <3>1 DEF ClearedInv, Remember
  <2>3. ASSUME NEW i \in Item, i \in claimed' \/ status'[i] = "running"
        PROVE DependsOn[i] \subseteq wasDone' \/ i \in rushed'
    BY <1>1, <2>1, <2>3 DEF ClearedInv, DepsBeforeRun, Remember
  <2>4. DepsBeforeRun'
    BY <2>2, <2>3 DEF DepsBeforeRun
  <2> QED BY <1>1, <2>1, <2>4 DEF ClearedInv, Remember
<1>11. ASSUME NEW i \in Item, TakeListed(i) \/ RunClaimed(i) PROVE ClearedInv'
  BY <1>1, <1>11, QuietSteps DEF TakeListed, RunClaimed, TypeOK, rowVars, planVars
<1>12. ASSUME NEW i \in Item, FinishRow(i) \/ EditRow(i) PROVE ClearedInv'
  BY <1>1, <1>12, QuietSteps DEF FinishRow, EditRow, TypeOK, planVars, dispatchVars
<1>13. ASSUME NEW i \in Item, UpstreamChanges(i) PROVE ClearedInv'
  BY <1>1, <1>13, QuietSteps DEF UpstreamChanges, rowVars, planVars, dispatchVars
<1>14. CASE FaultsEnd
  BY <1>1, <1>14, QuietSteps DEF FaultsEnd, rowVars, planVars, dispatchVars
<1>15. CASE PlannerStep
  BY <1>3, <1>4, <1>5, <1>6, <1>7, <1>8, <1>15 DEF PlannerStep, EndTick
<1>16. CASE PlannerFault
  BY <1>4, <1>6, <1>9, <1>16 DEF PlannerFault, PlanFails, Crash
<1> QED
  BY <1>10, <1>11, <1>12, <1>13, <1>14, <1>15, <1>16 DEF Next, DispatcherStep

\* A row that was on its way or runs was cleared by a plan that saw its
\* dependencies done (README.md, the verdict hold) or was listed unlabelled,
\* for any dependencies among any number of items, under every fault and edit
\* and with other processes dispatching at any moment.
THEOREM DepsAlwaysBeforeRun == Spec => []DepsBeforeRun
<1>1. Init => ClearedInv
  BY PipelineAssumption
  DEF Init, ClearedInv, DepsBeforeRun, Undecided, NULL
<1>2. TypeOK /\ ClearedInv /\ [Next]_vars => ClearedInv'
  <2>1. CASE UNCHANGED vars
    BY <2>1
    DEF ClearedInv, DepsBeforeRun, vars, rowVars, planVars, dispatchVars, history
  <2> QED BY <2>1, ClearedStays
<1>3. ClearedInv => DepsBeforeRun
  BY DEF ClearedInv
<1> QED BY <1>1, <1>2, <1>3, PipelineTypeCorrect, PTL DEF Spec

-----------------------------------------------------------------------------
\* Status and label: the planner writes them in two statements, the status
\* first, and only the planner parks a row.
Parked == {"waiting_human", "skipped"}

\* Only the row whose label is about to be written can have drifted, and what
\* is about to be written to it goes with its status.
DriftInv ==
    /\ \A i \in Item : label[i] = "ready" /\ status[i] \in Parked => ppc = "label" /\ cur = i
    /\ ppc = "label" /\ status[cur] \in Parked => status[cur] = StatusFor(verdict[cur])

\* The verdict ready parks no row.
LEMMA ReadyIsNotParked == StatusFor("ready") \notin Parked
BY DEF StatusFor, Parked

\* DriftInv is inductive whoever else writes the status meanwhile, as long as
\* persisting is not interrupted between the two statements.
LEMMA DriftStays ==
    ASSUME "row" \notin PipelineFaults, "crash" \notin PipelineFaults,
           TypeOK, DriftInv, [Next]_vars
    PROVE  DriftInv'
<1> USE DEF DriftInv, Parked
<1>1. ASSUME BeginTick \/ EndGather \/ SnapshotWorld \/ EndJudging \/ StampCheckpoint
       PROVE DriftInv'
  BY <1>1 DEF BeginTick, EndGather, SnapshotWorld, EndJudging, StampCheckpoint, rowVars
<1>2. ASSUME NEW s \in Source, FetchSource(s) \/ FetchFails(s) PROVE DriftInv'
  BY <1>2 DEF FetchSource, FetchFails, rowVars
<1>3. ASSUME NEW i \in Item, Judge(i) PROVE DriftInv'
  BY <1>3 DEF Judge, rowVars
<1>4. ASSUME Forget, ppc \in {"plan", "judge", "persist"} PROVE DriftInv'
  BY <1>4 DEF Forget, rowVars
<1>5. ASSUME NEW i \in Item, InsertRow(i) PROVE DriftInv'
  <2>1. CASE status[i] # "none"
    BY <1>5, <2>1 DEF InsertRow, Persisting, TypeOK, rowVars
  <2>2. CASE status[i] = "none" /\ seen[i] = "done"
    <3>1. Wanted(i) = "done"
      BY <2>2 DEF Wanted
    <3> QED
      BY <1>5, <2>2, <3>1 DEF InsertRow, Labelling, NextDecision, TypeOK, NULL
  <2>3. CASE status[i] = "none" /\ seen[i] # "done"
    <3>1. Wanted(i) = StatusFor(verdict[i]) /\ Persisting(i, "label")
      BY <1>5, <2>3 DEF InsertRow, Labelling, Wanted
    <3> QED
      BY <1>5, <2>3, <3>1 DEF InsertRow, Persisting, TypeOK, NULL
  <2> QED
    BY <2>1, <2>2, <2>3
<1>6. ASSUME LookupRow PROVE DriftInv'
  BY <1>6 DEF LookupRow, Labelling, Wanted, NextDecision, Persisting, rowVars, TypeOK
<1>7. ASSUME UpdateRow PROVE DriftInv'
  <2>1. CASE seen[cur] = "done"
    <3>1. Wanted(cur) = "done"
      BY <2>1 DEF Wanted
    <3> QED
      BY <1>7, <2>1, <3>1 DEF UpdateRow, Labelling, NextDecision, TypeOK
  <2>2. CASE seen[cur] # "done"
    BY <1>7, <2>2 DEF UpdateRow, Labelling, NextDecision, Persisting, Wanted, TypeOK
  <2> QED
    BY <2>1, <2>2
<1>8. ASSUME SetPlan PROVE DriftInv'
  BY <1>8, ReadyIsNotParked DEF SetPlan, NextDecision, TypeOK
<1>9. ASSUME NEW i \in Item, TakeListed(i) \/ RunClaimed(i) \/ FinishRow(i) PROVE DriftInv'
  BY <1>9 DEF TakeListed, RunClaimed, FinishRow, rowVars, planVars, TypeOK
<1>10. ASSUME NEW i \in Item, EditRow(i) PROVE DriftInv'
  BY <1>10 DEF EditRow, planVars, TypeOK, NULL
<1>11. ASSUME NEW i \in Item, UpstreamChanges(i) PROVE DriftInv'
  BY <1>11 DEF UpstreamChanges, rowVars, planVars
<1>12. CASE ListDispatchable \/ FaultsEnd \/ UNCHANGED vars
  BY <1>12 DEF ListDispatchable, FaultsEnd, vars, rowVars, planVars
<1>13. CASE PlannerStep
  BY <1>1, <1>2, <1>3, <1>4, <1>5, <1>6, <1>7, <1>8, <1>13 DEF PlannerStep, EndTick
<1>14. CASE PlannerFault
  BY <1>2, <1>4, <1>14 DEF PlannerFault, PlanFails, Crash, RowFails, Fails
<1> QED
  BY <1>9, <1>10, <1>11, <1>12, <1>13, <1>14 DEF Next, DispatcherStep

\* Between ticks no row is labelled ready and yet in a status no dispatcher
\* ever picks, whatever other processes and the operator do to the rows while
\* they are planned, if no statement of persistDecision fails half-way.
THEOREM StatusAndLabelNeverDrift ==
    ASSUME "row" \notin PipelineFaults, "crash" \notin PipelineFaults
    PROVE  Spec => []NoDrift
<1>1. Init => DriftInv
  BY DEF Init, DriftInv, Undecided, NULL
<1>2. TypeOK /\ DriftInv /\ [Next]_vars => DriftInv'
  BY DriftStays
<1>3. DriftInv => NoDrift
  BY DEF DriftInv, NoDrift, Parked
<1> QED BY <1>1, <1>2, <1>3, PipelineTypeCorrect, PTL DEF Spec
=============================================================================
