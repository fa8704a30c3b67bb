----------------------------- MODULE RunProofs -------------------------------
(***************************************************************************)
(* Type correctness of Marunage, actor by actor, and what a Run of the      *)
(* dispatcher guarantees whatever the other processes do: a running row is *)
(* stamped, a prompt is on record before it is sent, and one dispatcher    *)
(* runs rows with the same lock key one after the other.                   *)
(***************************************************************************)
EXTENDS Marunage, TLAPS

---------------------------------------------------------------------------
(* Types: each actor's steps preserve the types of the variables they      *)
(* write, and the frame conditions of Marunage's actions preserve the rest *)

\* The part of the type invariant a dispatcher's step can disturb.
DispatchingTypeOK == TaskTypeOK /\ WorkspaceTypeOK /\ DispatchTypeOK

\* Every step of dispatchOne, and every fault, writes values of the right kind.
LEMMA DispatcherTyped ==
    ASSUME DispatchingTypeOK, NEW d \in Dispatchers, DispatcherStep(d) \/ DispatcherFault(d)
    PROVE  DispatchingTypeOK'
<1> USE StoreAssumption, DispatchAssumption, TaskIdAssumption
    DEF DispatchingTypeOK, TaskTypeOK, WorkspaceTypeOK, DispatchTypeOK, Steps,
        ValidStatuses, SessionStates, Alive, Goto, Leave, BackToQueue, Advance,
        AfterFailedAttempt, NoRow, Exists, taskVars, workspaceVars
<1>1. CASE ListPending(d)
  BY <1>1 DEF ListPending, RowsIn
<1>2. CASE RunReturns(d)
  BY <1>2 DEF RunReturns
<1>3. ASSUME NEW t \in TaskId, TakeCandidate(d, t) PROVE DispatchingTypeOK'
  BY <1>3 DEF TakeCandidate
<1>4. CASE LockRow(d)
  <2>1. TaskTypeOK' /\ WorkspaceTypeOK'
    BY <1>4 DEF LockRow, AcquireLock, HasLock
  <2>2. DispatchTypeOK'
    <3>1. CASE Advance(d, "claim")
      BY <1>4, <3>1 DEF LockRow
    <3>2. CASE BackToQueue(d, 0)
      BY <1>4, <3>2 DEF LockRow
    <3>3. CASE Leave(d)
      BY <1>4, <3>3 DEF LockRow
    <3> QED BY <1>4, <3>1, <3>2, <3>3 DEF LockRow
  <2> QED BY <2>1, <2>2
<1>5. CASE ClaimRow(d)
  <2>1. TaskTypeOK' /\ WorkspaceTypeOK'
    BY <1>5 DEF ClaimRow, ClaimWorkspace
  <2>2. DispatchTypeOK'
    <3>1. CASE Advance(d, "start")
      BY <1>5, <3>1 DEF ClaimRow
    <3>2. CASE AfterFailedAttempt(d)
      BY <1>5, <3>2 DEF ClaimRow
    <3>3. CASE Leave(d)
      BY <1>5, <3>3 DEF ClaimRow
    <3> QED BY <1>5, <3>1, <3>2, <3>3 DEF ClaimRow
  <2> QED BY <2>1, <2>2
<1>6. CASE ReleaseRow(d)
  <2>1. TaskTypeOK' /\ WorkspaceTypeOK'
    BY <1>6 DEF ReleaseRow, ReleaseLock
  <2>2. DispatchTypeOK'
    BY <1>6 DEF ReleaseRow
  <2> QED BY <2>1, <2>2
<1>7. CASE StartReady(d)
  BY <1>7 DEF StartReady, StartSession
<1>8. CASE UnclaimRow(d)
  <2>1. TaskTypeOK' /\ WorkspaceTypeOK'
    BY <1>8 DEF UnclaimRow, SetWorkspace
  <2>2. DispatchTypeOK'
    BY <1>8 DEF UnclaimRow
  <2> QED BY <2>1, <2>2
<1>9. CASE BindSession(d)
  <2>1. TaskTypeOK' /\ WorkspaceTypeOK'
    BY <1>9 DEF BindSession, SetWorkspace
  <2>2. DispatchTypeOK'
    <3>1. CASE Advance(d, "stamp")
      BY <1>9, <3>1 DEF BindSession
    <3>2. CASE Leave(d)
      BY <1>9, <3>2 DEF BindSession
    <3> QED BY <1>9, <3>1, <3>2 DEF BindSession
  <2> QED BY <2>1, <2>2
<1>10. CASE StampStart(d)
  <2>1. TaskTypeOK' /\ WorkspaceTypeOK'
    BY <1>10 DEF StampStart, SetStartedAt
  <2>2. DispatchTypeOK'
    <3>1. CASE Advance(d, "run")
      BY <1>10, <3>1 DEF StampStart
    <3>2. CASE Leave(d)
      BY <1>10, <3>2 DEF StampStart
    <3> QED BY <1>10, <3>1, <3>2 DEF StampStart
  <2> QED BY <2>1, <2>2
<1>11. CASE MarkRunning(d)
  <2>1. TaskTypeOK' /\ WorkspaceTypeOK'
    BY <1>11 DEF MarkRunning, UpdateStatus
  <2>2. DispatchTypeOK'
    BY <1>11 DEF MarkRunning
  <2> QED BY <2>1, <2>2
<1>12. CASE RecordStart(d)
  BY <1>12 DEF RecordStart
<1>13. CASE SendSucceeds(d)
  BY <1>13 DEF SendSucceeds, SendPrompt
<1>14. CASE SendFails(d)
  BY <1>14 DEF SendFails
<1>15. CASE MarkFailed(d)
  <2>1. TaskTypeOK' /\ WorkspaceTypeOK'
    BY <1>15 DEF MarkFailed, MarkFailedWithReason, UpdateStatus
  <2>2. DispatchTypeOK'
    BY <1>15 DEF MarkFailed
  <2> QED BY <2>1, <2>2
<1>16. CASE MakeDirFails(d)
  BY <1>16 DEF MakeDirFails
<1>17. CASE StartNotReady(d)
  BY <1>17 DEF StartNotReady, StartSession
<1>18. CASE StartFails(d)
  BY <1>18 DEF StartFails
<1>19. CASE DispatcherCrashes(d)
  BY <1>19 DEF DispatcherCrashes
<1> QED
  BY <1>1, <1>2, <1>3, <1>4, <1>5, <1>6, <1>7, <1>8, <1>9, <1>10, <1>11, <1>12, <1>13,
     <1>14, <1>15, <1>16, <1>17, <1>18, <1>19 DEF DispatcherStep, DispatcherFault

\* So does the dispatch of one row by its id.
LEMMA RequestTyped ==
    ASSUME DispatchingTypeOK, NEW d \in Dispatchers, NEW t \in TaskId, RunOne(d, t)
    PROVE  DispatchingTypeOK'
  BY DispatchAssumption
  DEF DispatchingTypeOK, TaskTypeOK, WorkspaceTypeOK, DispatchTypeOK, Steps, Goto,
      RunOne, taskVars, workspaceVars

\* A session that reports or disappears keeps the workspaces well typed.
LEMMA SessionTyped ==
    ASSUME WorkspaceTypeOK, NEW s \in SessionId, SessionReports(s) \/ SessionDisappears(s)
    PROVE  WorkspaceTypeOK'
  BY DEF WorkspaceTypeOK, SessionStates, Alive, SessionReports, SessionDisappears

\* The completion watcher writes statuses and keeps a row in hand.
LEMMA WatcherTyped ==
    ASSUME TaskTypeOK, WorkspaceTypeOK, CompletionTypeOK, NEW w \in Watchers, WatcherStep(w)
    PROVE  TaskTypeOK' /\ WorkspaceTypeOK' /\ CompletionTypeOK'
<1> USE TaskIdAssumption
    DEF TaskTypeOK, WorkspaceTypeOK, CompletionTypeOK, ValidStatuses, taskVars, workspaceVars
<1>1. CASE WatchList(w)
  BY <1>1 DEF WatchList, RowsIn
<1>2. CASE WatchReturns(w)
  BY <1>2 DEF WatchReturns
<1>3. ASSUME NEW t \in TaskId, ReadSentinel(w, t)
      PROVE  TaskTypeOK' /\ WorkspaceTypeOK' /\ CompletionTypeOK'
  BY <1>3 DEF ReadSentinel
<1>4. CASE WriteOutcome(w)
  BY <1>4
     DEF WriteOutcome, MarkDoneWithSummary, MarkFailedWithReason, UpdateStatus, NoRow
<1> QED
  BY <1>1, <1>2, <1>3, <1>4 DEF WatcherStep

\* The reaper's snapshot pairs rows with the workspace they were bound to.
LEMMA ReaperTyped ==
    ASSUME TaskTypeOK, WorkspaceTypeOK, ReaperTypeOK, NEW r \in Reapers, ReaperStep(r)
    PROVE  TaskTypeOK' /\ WorkspaceTypeOK' /\ ReaperTypeOK'
<1> USE DEF TaskTypeOK, WorkspaceTypeOK, ReaperTypeOK, ValidStatuses,
            taskVars, workspaceVars, cleanVars
<1>1. CASE ReapRows(r)
  BY <1>1 DEF ReapRows, RowsIn, Bound
<1>2. CASE ReapSessions(r)
  BY <1>2 DEF ReapSessions
<1>3. CASE ReapReturns(r)
  BY <1>3 DEF ReapReturns
<1>4. ASSUME NEW t \in TaskId, MarkDisappeared(r, t)
      PROVE  TaskTypeOK' /\ WorkspaceTypeOK' /\ ReaperTypeOK'
  BY <1>4 DEF MarkDisappeared, MarkFailedFromRunningWithReason, UpdateStatus
<1> QED
  BY <1>1, <1>2, <1>3, <1>4 DEF ReaperStep

\* `clean` only ever empties workspace columns.
LEMMA CleanerTyped ==
    ASSUME TaskTypeOK, WorkspaceTypeOK, ReaperTypeOK, NEW c \in Cleaners, CleanerStep(c)
    PROVE  TaskTypeOK' /\ WorkspaceTypeOK' /\ ReaperTypeOK'
<1> USE DEF TaskTypeOK, WorkspaceTypeOK, ReaperTypeOK, taskVars, workspaceVars,
            reaperVars
<1>1. CASE CleanSessions(c)
  BY <1>1 DEF CleanSessions, LiveSessions
<1>2. CASE CleanRows(c)
  BY <1>2 DEF CleanRows, Bound
<1>3. CASE CleanReturns(c)
  BY <1>3 DEF CleanReturns
<1>4. ASSUME NEW t \in TaskId, ClearOrphan(c, t)
      PROVE  TaskTypeOK' /\ WorkspaceTypeOK' /\ ReaperTypeOK'
  BY <1>4 DEF ClearOrphan, SetWorkspace, NoRow
<1> QED
  BY <1>1, <1>2, <1>3, <1>4 DEF CleanerStep

\* The operator's commands leave columns of the right kind.
LEMMA OperatorTyped ==
    ASSUME TaskTypeOK, WorkspaceTypeOK, TaskOpsTypeOK,
           OperatorRequest \/ \E o \in Operators : OperatorStep(o)
    PROVE  TaskTypeOK' /\ WorkspaceTypeOK' /\ TaskOpsTypeOK'
<1> USE DEF TaskTypeOK, WorkspaceTypeOK, TaskOpsTypeOK, ValidStatuses, CliCommands,
            Target, Finish, Continue, NoRow, taskVars, workspaceVars, operatorVars
<1> DEFINE Typed == TaskTypeOK /\ WorkspaceTypeOK /\ TaskOpsTypeOK
<1>1. ASSUME NEW o \in Operators, CheckAllowedFrom(o) PROVE Typed'
  BY <1>1 DEF CheckAllowedFrom
<1>2. ASSUME NEW o \in Operators, CheckMatrix(o) PROVE Typed'
  BY <1>2 DEF CheckMatrix
<1>3. ASSUME NEW o \in Operators, TransitionStatus(o) PROVE Typed'
  BY <1>3 DEF TransitionStatus, UpdateStatus
<1>4. ASSUME NEW o \in Operators, ClearWorkspace(o) PROVE Typed'
  BY <1>4 DEF ClearWorkspace, SetWorkspace
<1>5. ASSUME NEW o \in Operators, NEW command \in CliCommands, NEW t \in TaskId,
             Invoke(o, command, t)
      PROVE  Typed'
  BY <1>5 DEF Invoke, NULL
<1>6. ASSUME NEW t \in TaskId, WebPromote(t) \/ WebReopen(t) PROVE Typed'
  BY <1>6 DEF WebPromote, WebReopen, UpdateStatus
<1>7. ASSUME NEW t \in TaskId, DeleteTask(t) PROVE Typed'
  BY <1>7 DEF DeleteTask, Delete
<1> HIDE DEF Typed
<1> QED
  <2>1. Typed'
    BY <1>1, <1>2, <1>3, <1>4, <1>5, <1>6, <1>7 DEF OperatorStep, OperatorRequest
  <2> QED
    BY <2>1 DEF Typed

\* Every variable always has its type; in particular a dispatcher that has a
\* row in hand has budget left for it, so left never drops below zero.
THEOREM TypeCorrect == Spec => []TypeOK
<1>1. Init => TypeOK
  <2>1. TaskInit => TaskTypeOK
    BY StoreAssumption DEF TaskInit, TaskTypeOK, ValidStatuses
  <2>2. WorkspaceInit => WorkspaceTypeOK
    BY DEF WorkspaceInit, WorkspaceTypeOK, SessionStates
  <2>3. DispatchInit => DispatchTypeOK
    BY DispatchAssumption DEF DispatchInit, DispatchTypeOK, Steps
  <2>4. CompletionInit /\ ReaperInit /\ TaskOpsInit
            => CompletionTypeOK /\ ReaperTypeOK /\ TaskOpsTypeOK
    BY DEF CompletionInit, CompletionTypeOK, ReaperInit, ReaperTypeOK, TaskOpsInit,
           TaskOpsTypeOK
  <2> QED
    BY <2>1, <2>2, <2>3, <2>4 DEF Init, TypeOK
<1>2. TypeOK /\ [Next]_vars => TypeOK'
  <2> SUFFICES ASSUME TypeOK, [Next]_vars PROVE TypeOK'
    OBVIOUS
  <2>1. UNCHANGED dispatchVars => DispatchTypeOK'
    BY DEF TypeOK, DispatchTypeOK, dispatchVars
  <2>2. UNCHANGED completionVars => CompletionTypeOK'
    BY DEF TypeOK, CompletionTypeOK, completionVars
  <2>3. UNCHANGED <<reaperVars, cleanVars>> => ReaperTypeOK'
    BY DEF TypeOK, ReaperTypeOK, reaperVars, cleanVars
  <2>4. UNCHANGED operatorVars => TaskOpsTypeOK'
    BY DEF TypeOK, TaskOpsTypeOK, operatorVars
  <2>5. UNCHANGED taskVars => TaskTypeOK'
    BY DEF TypeOK, TaskTypeOK, taskVars
  <2>6. UNCHANGED workspaceVars => WorkspaceTypeOK'
    BY DEF TypeOK, WorkspaceTypeOK, workspaceVars
  <2>7. CASE \E d \in Dispatchers : Dispatching(d) \/ DispatchingOnce(d)
    BY <2>2, <2>3, <2>4, <2>7, DispatcherTyped, RequestTyped
    DEF TypeOK, DispatchingTypeOK, Dispatching, DispatchingOnce
  <2>8. CASE \E s \in SessionId : Working(s) \/ Disappearing(s)
    BY <2>1, <2>2, <2>3, <2>4, <2>5, <2>8, SessionTyped
       DEF TypeOK, Working, Disappearing
  <2>9. CASE \E w \in Watchers : Watching(w)
    BY <2>1, <2>3, <2>4, <2>9, WatcherTyped DEF TypeOK, Watching
  <2>10. CASE \E r \in Reapers : Reaping(r)
    BY <2>1, <2>2, <2>4, <2>10, ReaperTyped DEF TypeOK, Reaping
  <2>11. CASE \E c \in Cleaners : Cleaning(c)
    BY <2>1, <2>2, <2>4, <2>11, CleanerTyped DEF TypeOK, Cleaning
  <2>12. CASE Requesting \/ \E o \in Operators : Operating(o)
    BY <2>1, <2>2, <2>3, <2>12, OperatorTyped DEF TypeOK, Operating, Requesting
  <2>13. CASE UNCHANGED vars
    BY <2>1, <2>2, <2>3, <2>4, <2>5, <2>6, <2>13 DEF TypeOK, vars
  <2> QED
    BY <2>7, <2>8, <2>9, <2>10, <2>11, <2>12, <2>13 DEF Next
<1> QED
  BY <1>1, <1>2, PTL DEF Spec

---------------------------------------------------------------------------
(* Runs: first what the steps of everybody but a dispatcher leave alone,   *)
(* which all the proofs about the table cite                               *)

\* A step of anyone but a dispatcher.
OtherStep ==
    \/ \E s \in SessionId : Working(s) \/ Disappearing(s)
    \/ \E w \in Watchers : Watching(w)
    \/ \E r \in Reapers : Reaping(r)
    \/ \E c \in Cleaners : Cleaning(c)
    \/ \E o \in Operators : Operating(o)
    \/ Requesting

\* What such a step leaves alone: it starts no row, and a row it does not
\* delete keeps its lock and its stamp.
KeepsRow(t) ==
    /\ status'[t] = "running" => status[t] = "running"
    /\ status'[t] # Deleted =>
           /\ status[t] # Deleted
           /\ lock_key'[t] = lock_key[t]
           /\ started_at'[t] = started_at[t]

\* Each statement the other actors execute keeps every row in that sense.
LEMMA StatementKeepsRow ==
    ASSUME TaskTypeOK, NEW t \in TaskId, NEW u \in TaskId,
           \/ UNCHANGED taskVars
           \/ \E s \in ValidStatuses \ {"running"} : UpdateStatus(u, s)
           \/ SetWorkspace(u, NULL)
           \/ Delete(u)
    PROVE  KeepsRow(t)
<1> USE DEF TaskTypeOK, KeepsRow
<1>1. CASE UNCHANGED taskVars
  BY <1>1 DEF taskVars
<1>2. ASSUME NEW s \in ValidStatuses \ {"running"}, UpdateStatus(u, s) PROVE KeepsRow(t)
  BY <1>2 DEF UpdateStatus, Exists
<1>3. CASE SetWorkspace(u, NULL)
  BY <1>3 DEF SetWorkspace
<1>4. CASE Delete(u)
  <2>1. CASE t = u
    BY <1>4, <2>1 DEF Delete, Deleted
  <2>2. CASE t # u
    BY <1>4, <2>2 DEF Delete
  <2> QED BY <2>1, <2>2
<1> QED
  BY <1>1, <1>2, <1>3, <1>4

\* Every step of another actor is such a statement and touches no dispatcher.
LEMMA OthersKeepRows ==
    ASSUME TypeOK, OtherStep
    PROVE  UNCHANGED dispatchVars /\ \A t \in TaskId : KeepsRow(t)
<1> DEFINE Statement ==
        \/ UNCHANGED taskVars
        \/ \E u \in TaskId :
              \/ \E s \in ValidStatuses \ {"running"} : UpdateStatus(u, s)
              \/ SetWorkspace(u, NULL)
              \/ Delete(u)
<1>1. ASSUME NEW s \in SessionId, Working(s) \/ Disappearing(s)
      PROVE  Statement /\ UNCHANGED dispatchVars
  BY <1>1 DEF Working, Disappearing
<1>2. ASSUME NEW w \in Watchers, Watching(w) PROVE Statement /\ UNCHANGED dispatchVars
  BY <1>2
     DEF Watching, WatcherStep, WatchList, WatchReturns, ReadSentinel, WriteOutcome,
         NoRow,
     MarkDoneWithSummary, MarkFailedWithReason, ValidStatuses, TypeOK, CompletionTypeOK
<1>3. ASSUME NEW r \in Reapers, Reaping(r) PROVE Statement /\ UNCHANGED dispatchVars
  BY <1>3 DEF Reaping, ReaperStep, ReapRows, ReapSessions, ReapReturns, MarkDisappeared,
     MarkFailedFromRunningWithReason, ValidStatuses
<1>4. ASSUME NEW c \in Cleaners, Cleaning(c) PROVE Statement /\ UNCHANGED dispatchVars
  BY <1>4
     DEF Cleaning, CleanerStep, CleanSessions, CleanRows, CleanReturns, ClearOrphan,
         NoRow
<1>5. ASSUME NEW o \in Operators, Operating(o) PROVE Statement /\ UNCHANGED dispatchVars
  BY <1>5 DEF Operating, OperatorStep, CheckAllowedFrom, CheckMatrix, TransitionStatus,
     ClearWorkspace, NoRow, Target, ValidStatuses, TypeOK, TaskOpsTypeOK
<1>6. ASSUME Requesting PROVE Statement /\ UNCHANGED dispatchVars
  BY <1>6
     DEF Requesting, OperatorRequest, Invoke, WebPromote, WebReopen, DeleteTask,
         ValidStatuses
<1>7. Statement /\ UNCHANGED dispatchVars
  BY <1>1, <1>2, <1>3, <1>4, <1>5, <1>6 DEF OtherStep
<1> QED
  BY <1>7, StatementKeepsRow DEF TypeOK

-----------------------------------------------------------------------------
\* A running row is always stamped: dispatchOne calls SetStartedAt before
\* UpdateStatus(running), and nothing else sets a row running or takes the
\* stamp away.

\* A dispatcher about to set running has stamped its row.
StampedBeforeRun ==
    \A d \in Dispatchers : pc[d] = "run" /\ status[cur[d]] # Deleted => started_at[cur[d]]

\* The inductive invariant: RunningIsStamped alone is not one, because the
\* step that sets running does not look at the stamp.
StampInv == RunningIsStamped /\ StampedBeforeRun

\* Every step preserves it, one case per action.
LEMMA StampInvStep ==
    ASSUME TypeOK, StampInv, [Next]_vars
    PROVE  StampInv'
<1> USE DEF StampInv, RunningIsStamped, StampedBeforeRun, RowsIn, Exists, TypeOK,
            TaskTypeOK, DispatchTypeOK, Steps,
        Goto, Leave, BackToQueue, Advance, AfterFailedAttempt, NoRow, taskVars, Deleted
<1>1. ASSUME NEW d \in Dispatchers, DispatcherStep(d) PROVE StampInv'
  <2>1. CASE ListPending(d)
    BY <2>1 DEF ListPending
  <2>2. CASE RunReturns(d)
    BY <2>2 DEF RunReturns
  <2>3. ASSUME NEW t \in TaskId, TakeCandidate(d, t) PROVE StampInv'
    BY <2>3 DEF TakeCandidate
  <2>4. CASE LockRow(d)
    BY <2>4 DEF LockRow, AcquireLock
  <2>5. CASE ClaimRow(d)
    BY <2>5 DEF ClaimRow, ClaimWorkspace
  <2>6. CASE ReleaseRow(d)
    BY <2>6 DEF ReleaseRow, ReleaseLock
  <2>7. CASE StartReady(d)
    BY <2>7 DEF StartReady
  <2>8. CASE UnclaimRow(d)
    BY <2>8 DEF UnclaimRow, SetWorkspace
  <2>9. CASE BindSession(d)
    BY <2>9 DEF BindSession, SetWorkspace
  <2>10. CASE StampStart(d)
    BY <2>10 DEF StampStart, SetStartedAt
  <2>11. CASE MarkRunning(d)
    BY <2>11 DEF MarkRunning, UpdateStatus
  <2>12. CASE RecordStart(d)
    BY <2>12 DEF RecordStart
  <2>13. CASE SendSucceeds(d)
    BY <2>13 DEF SendSucceeds
  <2>14. CASE SendFails(d)
    BY <2>14 DEF SendFails
  <2>15. CASE MarkFailed(d)
    BY <2>15 DEF MarkFailed, MarkFailedWithReason, UpdateStatus
  <2> QED
    BY <1>1, <2>1, <2>2, <2>3, <2>4, <2>5, <2>6, <2>7, <2>8, <2>9, <2>10, <2>11,
       <2>12, <2>13,
       <2>14, <2>15 DEF DispatcherStep
<1>2. ASSUME NEW d \in Dispatchers, DispatcherFault(d) \/ \E t \in TaskId : RunOne(d, t)
      PROVE  StampInv'
  <2>1. CASE MakeDirFails(d)
    BY <2>1 DEF MakeDirFails
  <2>2. CASE StartNotReady(d)
    BY <2>2 DEF StartNotReady
  <2>3. CASE StartFails(d)
    BY <2>3 DEF StartFails
  <2>4. CASE DispatcherCrashes(d)
    BY <2>4 DEF DispatcherCrashes
  <2>5. ASSUME NEW t \in TaskId, RunOne(d, t) PROVE StampInv'
    BY <2>5 DEF RunOne
  <2> QED
    BY <1>2, <2>1, <2>2, <2>3, <2>4, <2>5 DEF DispatcherFault
<1>3. CASE OtherStep
  BY <1>3, OthersKeepRows DEF KeepsRow, dispatchVars
<1>4. CASE UNCHANGED vars
  BY <1>4 DEF vars, dispatchVars
<1> QED
  BY <1>1, <1>2, <1>3, <1>4 DEF Next, OtherStep, Dispatching, DispatchingOnce

\* A row in status running has started_at stamped, for any number of
\* dispatchers, operators and sweeps, whatever fails or crashes.
THEOREM RunningIsAlwaysStamped == Spec => []RunningIsStamped
<1>1. Init => StampInv
  BY StoreAssumption
     DEF Init, TaskInit, DispatchInit, StampInv, RunningIsStamped, StampedBeforeRun,
         RowsIn
<1>2. TypeOK /\ StampInv /\ [Next]_vars => StampInv'
  BY StampInvStep
<1>3. StampInv => RunningIsStamped
  BY DEF StampInv
<1> QED
  BY <1>1, <1>2, <1>3, TypeCorrect, PTL DEF Spec

-----------------------------------------------------------------------------
\* No silent run: no session is prompted before its dispatch.start record is
\* in audit.log.  The argument needs that the session a dispatcher is about to
\* prompt is the one it started for the row it recorded.

\* The session a dispatcher has in hand was started for its row.
OwnsSession ==
    \A d \in Dispatchers :
        pc[d] \in {"bind", "stamp", "run", "record", "send"} =>
            owner[sess[d]] = cur[d] /\ session[sess[d]] # "unused"

\* dispatchOne reaches Send only after recordAuditStart.
AuditedBeforeSend ==
    \A d \in Dispatchers : pc[d] = "send" => <<cur[d], sess[d]>> \in audit

\* The inductive invariant.
AuditInv == OwnsSession /\ AuditedBeforeSend /\ PromptIsAudited

\* The other actors create no session, prompt none and give none away.
LEMMA OthersKeepSessions ==
    ASSUME OtherStep
    PROVE  /\ UNCHANGED <<dispatchVars, owner>>
           /\ \/ UNCHANGED session
              \/ \E s \in SessionId :
                    \/ session[s] = "working" /\ session' = [session EXCEPT ![s] = "reported"]
                    \/ session[s] # "unused" /\ session' = [session EXCEPT ![s] = "gone"]
<1> USE DEF workspaceVars
<1> DEFINE Keeps == UNCHANGED <<dispatchVars, owner, session>>
<1>1. ASSUME NEW s \in SessionId, Working(s)
      PROVE  /\ UNCHANGED <<dispatchVars, owner>>
             /\ session[s] = "working" /\ session' = [session EXCEPT ![s] = "reported"]
  BY <1>1 DEF Working, SessionReports
<1>2. ASSUME NEW s \in SessionId, Disappearing(s)
      PROVE  /\ UNCHANGED <<dispatchVars, owner>>
             /\ session[s] # "unused" /\ session' = [session EXCEPT ![s] = "gone"]
  BY <1>2 DEF Disappearing, SessionDisappears, Alive
<1>3. ASSUME NEW w \in Watchers, Watching(w) PROVE Keeps
  BY <1>3 DEF Watching, WatcherStep, WatchList, WatchReturns, ReadSentinel, WriteOutcome
<1>4. ASSUME NEW r \in Reapers, Reaping(r) PROVE Keeps
  BY <1>4 DEF Reaping, ReaperStep, ReapRows, ReapSessions, ReapReturns, MarkDisappeared
<1>5. ASSUME NEW c \in Cleaners, Cleaning(c) PROVE Keeps
  BY <1>5 DEF Cleaning, CleanerStep, CleanSessions, CleanRows, CleanReturns, ClearOrphan
<1>6. ASSUME NEW o \in Operators, Operating(o) PROVE Keeps
  BY <1>6
     DEF Operating, OperatorStep, CheckAllowedFrom, CheckMatrix, TransitionStatus,
         ClearWorkspace
<1>7. ASSUME Requesting PROVE Keeps
  BY <1>7 DEF Requesting, OperatorRequest, Invoke, WebPromote, WebReopen, DeleteTask
<1> QED
  BY <1>1, <1>2, <1>3, <1>4, <1>5, <1>6, <1>7 DEF OtherStep

\* Every step preserves the invariant, one case per action.
LEMMA AuditInvStep ==
    ASSUME TypeOK, AuditInv, [Next]_vars
    PROVE  AuditInv'
<1> USE DEF AuditInv, OwnsSession, AuditedBeforeSend, PromptIsAudited, TypeOK,
            WorkspaceTypeOK,
        DispatchTypeOK, Steps, Goto, Leave, BackToQueue, Advance, AfterFailedAttempt, workspaceVars
<1>1. ASSUME NEW d \in Dispatchers, DispatcherStep(d) PROVE AuditInv'
  <2>1. CASE ListPending(d)
    BY <2>1 DEF ListPending
  <2>2. CASE RunReturns(d)
    BY <2>2 DEF RunReturns
  <2>3. ASSUME NEW t \in TaskId, TakeCandidate(d, t) PROVE AuditInv'
    BY <2>3 DEF TakeCandidate
  <2>4. CASE LockRow(d)
    BY <2>4 DEF LockRow
  <2>5. CASE ClaimRow(d)
    BY <2>5 DEF ClaimRow
  <2>6. CASE ReleaseRow(d)
    BY <2>6 DEF ReleaseRow
  <2>7. CASE StartReady(d)
    BY <2>7 DEF StartReady, StartSession
  <2>8. CASE UnclaimRow(d)
    BY <2>8 DEF UnclaimRow
  <2>9. CASE BindSession(d)
    BY <2>9 DEF BindSession
  <2>10. CASE StampStart(d)
    BY <2>10 DEF StampStart
  <2>11. CASE MarkRunning(d)
    BY <2>11 DEF MarkRunning
  <2>12. CASE RecordStart(d)
    BY <2>12 DEF RecordStart
  <2>13. CASE SendSucceeds(d)
    BY <2>13 DEF SendSucceeds, SendPrompt
  <2>14. CASE SendFails(d)
    BY <2>14 DEF SendFails
  <2>15. CASE MarkFailed(d)
    BY <2>15 DEF MarkFailed
  <2> QED
    BY <1>1, <2>1, <2>2, <2>3, <2>4, <2>5, <2>6, <2>7, <2>8, <2>9, <2>10, <2>11,
       <2>12, <2>13,
       <2>14, <2>15 DEF DispatcherStep
<1>2. ASSUME NEW d \in Dispatchers, DispatcherFault(d) \/ \E t \in TaskId : RunOne(d, t)
      PROVE  AuditInv'
  <2>1. CASE MakeDirFails(d)
    BY <2>1 DEF MakeDirFails
  <2>2. CASE StartNotReady(d)
    BY <2>2 DEF StartNotReady, StartSession
  <2>3. CASE StartFails(d)
    BY <2>3 DEF StartFails
  <2>4. CASE DispatcherCrashes(d)
    BY <2>4 DEF DispatcherCrashes
  <2>5. ASSUME NEW t \in TaskId, RunOne(d, t) PROVE AuditInv'
    BY <2>5 DEF RunOne
  <2> QED
    BY <1>2, <2>1, <2>2, <2>3, <2>4, <2>5 DEF DispatcherFault
<1>3. CASE OtherStep
  BY <1>3, OthersKeepSessions DEF dispatchVars
<1>4. CASE UNCHANGED vars
  BY <1>4 DEF vars, dispatchVars
<1> QED
  BY <1>1, <1>2, <1>3, <1>4 DEF Next, OtherStep, Dispatching, DispatchingOnce

\* A session only works on a prompt that audit.log has a dispatch.start for,
\* whatever fails, crashes or is edited.
THEOREM PromptIsAlwaysAudited == Spec => []PromptIsAudited
<1>1. Init => AuditInv
  BY DEF Init, WorkspaceInit, DispatchInit, AuditInv, OwnsSession, AuditedBeforeSend,
         PromptIsAudited
<1>2. TypeOK /\ AuditInv /\ [Next]_vars => AuditInv'
  BY AuditInvStep
<1>3. AuditInv => PromptIsAudited
  BY DEF AuditInv
<1> QED
  BY <1>1, <1>2, <1>3, TypeCorrect, PTL DEF Spec

\* Both records of a start are there in time: in the row and in audit.log.
THEOREM StartIsAlwaysRecorded == Spec => []StartIsRecorded
BY RunningIsAlwaysStamped, PromptIsAlwaysAudited, PTL DEF StartIsRecorded

-----------------------------------------------------------------------------
\* The soft lock with one dispatcher: rows with the same lock key run one
\* after the other, whatever operators, web server, clean, reaper and watcher
\* do to the rows meanwhile and wherever the dispatcher crashes.  With two
\* dispatchers the property is false: see the run TwoDispatchersShareLock.

\* A running row still carries its key.
RunningHoldsKey ==
    \A t \in RowsIn("running") : HasLock(t) => lock_key[t] = LockKeyOf[t]

\* A dispatcher that has taken the key holds it, unless its row was deleted,
\* and nothing else with that key runs.
KeyIsTaken(d) ==
    pc[d] \in {"claim", "start", "bind", "stamp", "run"} /\ HasLock(cur[d]) =>
        /\ status[cur[d]] # Deleted => lock_key[cur[d]] = LockKeyOf[cur[d]]
        /\ \A t \in RowsIn("running") : LockKeyOf[t] # LockKeyOf[cur[d]]

\* Neither the row in hand, until it is set running, nor a candidate runs.
CandidatesDoNotRun(d) ==
    /\ queue[d] \cap RowsIn("running") = {}
    /\ pc[d] \notin {"idle", "next", "record", "send", "fail"} => status[cur[d]] # "running"
    /\ pc[d] \notin {"idle", "next"} => cur[d] \notin queue[d]

\* The inductive invariant.
LockInv ==
    /\ SameKeyIsSequential
    /\ RunningHoldsKey
    /\ \A d \in Dispatchers : KeyIsTaken(d) /\ CandidatesDoNotRun(d)

\* Every step preserves it as long as there is one dispatcher.
LEMMA LockInvStep ==
    ASSUME \A d1, d2 \in Dispatchers : d1 = d2,
           TypeOK, LockInv, [Next]_vars
    PROVE  LockInv'
<1> USE TaskIdAssumption, StoreAssumption
        DEF LockInv, SameKeyIsSequential, RunningHoldsKey, KeyIsTaken,
            CandidatesDoNotRun,
        RowsIn, HasLock, Exists, TypeOK, TaskTypeOK, DispatchTypeOK, Steps,
        Goto, Leave, BackToQueue, Advance, AfterFailedAttempt, NoRow, taskVars, Deleted
<1>1. ASSUME NEW d \in Dispatchers, DispatcherStep(d) PROVE LockInv'
  <2>1. CASE ListPending(d)
    BY <2>1 DEF ListPending
  <2>2. CASE RunReturns(d)
    BY <2>2 DEF RunReturns
  <2>3. ASSUME NEW t \in TaskId, TakeCandidate(d, t) PROVE LockInv'
    BY <2>3 DEF TakeCandidate
  <2>4. CASE LockRow(d)
    BY <2>4 DEF LockRow, AcquireLock, LockConflicts
  <2>5. CASE ClaimRow(d)
    BY <2>5 DEF ClaimRow, ClaimWorkspace
  <2>6. CASE ReleaseRow(d)
    BY <2>6 DEF ReleaseRow, ReleaseLock
  <2>7. CASE StartReady(d)
    BY <2>7 DEF StartReady
  <2>8. CASE UnclaimRow(d)
    BY <2>8 DEF UnclaimRow, SetWorkspace
  <2>9. CASE BindSession(d)
    BY <2>9 DEF BindSession, SetWorkspace
  <2>10. CASE StampStart(d)
    BY <2>10 DEF StampStart, SetStartedAt
  <2>11. CASE MarkRunning(d)
    BY <2>11 DEF MarkRunning, UpdateStatus
  <2>12. CASE RecordStart(d)
    BY <2>12 DEF RecordStart
  <2>13. CASE SendSucceeds(d)
    BY <2>13 DEF SendSucceeds
  <2>14. CASE SendFails(d)
    BY <2>14 DEF SendFails
  <2>15. CASE MarkFailed(d)
    BY <2>15 DEF MarkFailed, MarkFailedWithReason, UpdateStatus
  <2> QED
    BY <1>1, <2>1, <2>2, <2>3, <2>4, <2>5, <2>6, <2>7, <2>8, <2>9, <2>10, <2>11,
       <2>12, <2>13,
       <2>14, <2>15 DEF DispatcherStep
<1>2. ASSUME NEW d \in Dispatchers, DispatcherFault(d) \/ \E t \in TaskId : RunOne(d, t)
      PROVE  LockInv'
  <2>1. CASE MakeDirFails(d)
    BY <2>1 DEF MakeDirFails
  <2>2. CASE StartNotReady(d)
    BY <2>2 DEF StartNotReady
  <2>3. CASE StartFails(d)
    BY <2>3 DEF StartFails
  <2>4. CASE DispatcherCrashes(d)
    BY <2>4 DEF DispatcherCrashes
  <2>5. ASSUME NEW t \in TaskId, RunOne(d, t) PROVE LockInv'
    BY <2>5 DEF RunOne
  <2> QED
    BY <1>2, <2>1, <2>2, <2>3, <2>4, <2>5 DEF DispatcherFault
<1>3. CASE OtherStep
  BY <1>3, OthersKeepRows DEF KeepsRow, dispatchVars
<1>4. CASE UNCHANGED vars
  BY <1>4 DEF vars, dispatchVars
<1> QED
  BY <1>1, <1>2, <1>3, <1>4 DEF Next, OtherStep, Dispatching, DispatchingOnce

\* With at most one dispatcher no two running rows share a lock key, for any
\* number of rows and keys and any mix of the other actors.
THEOREM OneDispatcherIsSequential ==
    ASSUME \A d1, d2 \in Dispatchers : d1 = d2
    PROVE  Spec => []SameKeyIsSequential
<1>1. Init => LockInv
  BY StoreAssumption
     DEF Init, TaskInit, DispatchInit, LockInv, SameKeyIsSequential, RunningHoldsKey,
     KeyIsTaken, CandidatesDoNotRun, RowsIn
<1>2. TypeOK /\ LockInv /\ [Next]_vars => LockInv'
  BY LockInvStep
<1>3. LockInv => SameKeyIsSequential
  BY DEF LockInv
<1> QED
  BY <1>1, <1>2, <1>3, TypeCorrect, PTL DEF Spec
-----------------------------------------------------------------------------
\* The queue cannot block itself.  A row that ended keeps its key, so this
\* needs that no command puts an ended row back into the queue: two reopened
\* rows block each other for ever (the run ReopenedRowsBlock).
NoWayBack == Commands \cap {"promote", "reopen", "web reopen"} = {}

\* What the CLI was asked to do is to end a row.
OperatorsEndRows == \A o \in Operators : opc[o] # "idle" => ocmd[o] \in {"done", "fail"}

\* Two pending rows never hold the same key, whoever took it for them.
PendingKeysDiffer ==
    \A t, u \in RowsIn("pending") : lock_key[t] # NULL /\ lock_key[t] = lock_key[u] => t = u

\* A row holds its own key or none.
KeyIsOwn == \A t \in TaskId : Exists(t) => lock_key[t] \in {NULL, LockKeyOf[t]}

\* Rows that still wait to be let into the queue hold no key.
Parked == {"skipped", "waiting_human"}

ParkedHoldsNone == \A t \in TaskId : status[t] \in Parked => lock_key[t] = NULL

\* No dispatcher has such a row in hand.
CandidatesAreIn ==
    \A d \in Dispatchers :
        /\ \A t \in queue[d] : status[t] \notin Parked
        /\ pc[d] \notin {"idle", "next"} => status[cur[d]] \notin Parked

\* The inductive invariant.
WaitInv == OperatorsEndRows /\ PendingKeysDiffer /\ KeyIsOwn /\ ParkedHoldsNone /\ CandidatesAreIn

\* Where the other actors may take a row: into the queue only from skipped,
\* and back to no one's hold.
MovesOn(t) ==
    /\ status'[t] = "pending" => status[t] \in {"pending", "skipped"}
    /\ status'[t] \in Parked => status[t] = status'[t]

\* The statements the other actors execute under the assumption.
LEMMA StatementMovesOn ==
    ASSUME TaskTypeOK, NEW t \in TaskId, NEW u \in TaskId,
           \/ UNCHANGED status
           \/ UpdateStatus(u, "done")
           \/ UpdateStatus(u, "failed")
           \/ status[u] = "skipped" /\ UpdateStatus(u, "pending")
           \/ Delete(u)
    PROVE  MovesOn(t)
BY DEF TaskTypeOK, MovesOn, UpdateStatus, Delete, Deleted, Parked

\* Every step of another actor is such a statement.
LEMMA OthersMoveOn ==
    ASSUME NoWayBack, TypeOK, OperatorsEndRows, OtherStep
    PROVE  OperatorsEndRows' /\ \A t \in TaskId : MovesOn(t)
<1> DEFINE Statement ==
        \/ UNCHANGED status
        \/ \E u \in TaskId :
              \/ UpdateStatus(u, "done")
              \/ UpdateStatus(u, "failed")
              \/ status[u] = "skipped" /\ UpdateStatus(u, "pending")
              \/ Delete(u)
<1> USE DEF taskVars
<1>1. UNCHANGED operatorVars => OperatorsEndRows'
  BY DEF OperatorsEndRows, operatorVars
<1>2. ASSUME NEW s \in SessionId, Working(s) \/ Disappearing(s)
      PROVE  Statement /\ UNCHANGED operatorVars
  BY <1>2 DEF Working, Disappearing
<1>3. ASSUME NEW w \in Watchers, Watching(w) PROVE Statement /\ UNCHANGED operatorVars
  BY <1>3
     DEF Watching, WatcherStep, WatchList, WatchReturns, ReadSentinel, WriteOutcome,
         NoRow,
     MarkDoneWithSummary, MarkFailedWithReason, TypeOK, CompletionTypeOK
<1>4. ASSUME NEW r \in Reapers, Reaping(r) PROVE Statement /\ UNCHANGED operatorVars
  BY <1>4 DEF Reaping, ReaperStep, ReapRows, ReapSessions, ReapReturns, MarkDisappeared,
     MarkFailedFromRunningWithReason
<1>5. ASSUME NEW c \in Cleaners, Cleaning(c) PROVE Statement /\ UNCHANGED operatorVars
  BY <1>5
     DEF Cleaning, CleanerStep, CleanSessions, CleanRows, CleanReturns, ClearOrphan,
         SetWorkspace, NoRow
<1>6. ASSUME NEW o \in Operators, Operating(o) PROVE Statement /\ OperatorsEndRows'
  <2> USE DEF OperatorsEndRows, TypeOK, TaskOpsTypeOK, Finish, Continue
  <2>1. CASE CheckAllowedFrom(o) \/ CheckMatrix(o)
    BY <2>1 DEF CheckAllowedFrom, CheckMatrix
  <2>2. CASE TransitionStatus(o)
    BY <2>2 DEF TransitionStatus, Target, NoRow
  <2>3. CASE ClearWorkspace(o)
    BY <2>3 DEF ClearWorkspace, SetWorkspace, NoRow
  <2> QED
    BY <1>6, <2>1, <2>2, <2>3 DEF Operating, OperatorStep
<1>7. ASSUME Requesting PROVE Statement /\ OperatorsEndRows'
  <2>1. ASSUME NEW o \in Operators, NEW command \in CliCommands, NEW t \in TaskId, Invoke(o, command, t)
        PROVE  Statement /\ OperatorsEndRows'
    BY <2>1 DEF Invoke, NoWayBack, OperatorsEndRows, CliCommands, TypeOK, TaskOpsTypeOK
  <2>2. ASSUME NEW t \in TaskId, WebPromote(t) \/ WebReopen(t) \/ DeleteTask(t)
        PROVE  Statement /\ UNCHANGED operatorVars
    BY <2>2 DEF WebPromote, WebReopen, DeleteTask, NoWayBack
  <2> QED
    BY <1>1, <1>7, <2>1, <2>2 DEF Requesting, OperatorRequest
<1>8. Statement /\ OperatorsEndRows'
  BY <1>1, <1>2, <1>3, <1>4, <1>5, <1>6, <1>7 DEF OtherStep
<1> QED
  BY <1>8, StatementMovesOn DEF TypeOK

\* Every step preserves the invariant, one case per action.
LEMMA WaitInvStep ==
    ASSUME NoWayBack, TypeOK, WaitInv, [Next]_vars
    PROVE  WaitInv'
<1> USE TaskIdAssumption, StoreAssumption
    DEF WaitInv, OperatorsEndRows, PendingKeysDiffer, KeyIsOwn, ParkedHoldsNone, Parked,
           CandidatesAreIn, RowsIn, HasLock, Exists,
        TypeOK, TaskTypeOK, DispatchTypeOK, Steps,
        Goto, Leave, BackToQueue, Advance, AfterFailedAttempt, NoRow, taskVars, operatorVars,
               Deleted
<1>1. ASSUME NEW d \in Dispatchers, DispatcherStep(d), UNCHANGED operatorVars PROVE WaitInv'
  <2>1. CASE ListPending(d)
    BY <1>1, <2>1 DEF ListPending
  <2>2. CASE RunReturns(d)
    BY <1>1, <2>2 DEF RunReturns
  <2>3. ASSUME NEW t \in TaskId, TakeCandidate(d, t) PROVE WaitInv'
    BY <1>1, <2>3 DEF TakeCandidate
  <2>4. CASE LockRow(d)
    BY <1>1, <2>4 DEF LockRow, AcquireLock, LockConflicts
  <2>5. CASE ClaimRow(d)
    BY <1>1, <2>5 DEF ClaimRow, ClaimWorkspace
  <2>6. CASE ReleaseRow(d)
    BY <1>1, <2>6 DEF ReleaseRow, ReleaseLock
  <2>7. CASE StartReady(d)
    BY <1>1, <2>7 DEF StartReady
  <2>8. CASE UnclaimRow(d)
    BY <1>1, <2>8 DEF UnclaimRow, SetWorkspace
  <2>9. CASE BindSession(d)
    BY <1>1, <2>9 DEF BindSession, SetWorkspace
  <2>10. CASE StampStart(d)
    BY <1>1, <2>10 DEF StampStart, SetStartedAt
  <2>11. CASE MarkRunning(d)
    BY <1>1, <2>11 DEF MarkRunning, UpdateStatus
  <2>12. CASE RecordStart(d)
    BY <1>1, <2>12 DEF RecordStart
  <2>13. CASE SendSucceeds(d)
    BY <1>1, <2>13 DEF SendSucceeds
  <2>14. CASE SendFails(d)
    BY <1>1, <2>14 DEF SendFails
  <2>15. CASE MarkFailed(d)
    BY <1>1, <2>15 DEF MarkFailed, MarkFailedWithReason, UpdateStatus
  <2> QED
    BY <1>1, <2>1, <2>2, <2>3, <2>4, <2>5, <2>6, <2>7, <2>8, <2>9, <2>10, <2>11,
       <2>12, <2>13,
       <2>14, <2>15 DEF DispatcherStep
<1>2. ASSUME NEW d \in Dispatchers, DispatcherFault(d) \/ \E t \in TaskId : RunOne(d, t), UNCHANGED operatorVars
      PROVE  WaitInv'
  <2>1. CASE MakeDirFails(d)
    BY <1>2, <2>1 DEF MakeDirFails
  <2>2. CASE StartNotReady(d)
    BY <1>2, <2>2 DEF StartNotReady
  <2>3. CASE StartFails(d)
    BY <1>2, <2>3 DEF StartFails
  <2>4. CASE DispatcherCrashes(d)
    BY <1>2, <2>4 DEF DispatcherCrashes
  <2>5. ASSUME NEW t \in TaskId, RunOne(d, t) PROVE WaitInv'
    BY <1>2, <2>5 DEF RunOne
  <2> QED
    BY <1>2, <2>1, <2>2, <2>3, <2>4, <2>5 DEF DispatcherFault
<1>3. CASE OtherStep
  <2>1. OperatorsEndRows' /\ \A t \in TaskId : MovesOn(t)
    BY <1>3, OthersMoveOn
  <2>2. UNCHANGED dispatchVars /\ \A t \in TaskId : KeepsRow(t)
    BY <1>3, OthersKeepRows
  <2> QED
    BY <2>1, <2>2 DEF MovesOn, KeepsRow, dispatchVars
<1>4. CASE UNCHANGED vars
  BY <1>4 DEF vars, dispatchVars
<1> QED
  BY <1>1, <1>2, <1>3, <1>4 DEF Next, OtherStep, Dispatching, DispatchingOnce

\* Some pending row can always take its lock unless a running row holds it,
\* for any number of dispatchers and whatever fails or crashes, as long as
\* nobody puts an ended row back into the queue.
THEOREM SomeRowCanAlwaysRun ==
    ASSUME NoWayBack
    PROVE  Spec => []SomeRowCanRun
<1>1. Init => WaitInv
  BY StoreAssumption
     DEF Init, TaskInit, DispatchInit, TaskOpsInit, WaitInv, OperatorsEndRows,
         PendingKeysDiffer,
     KeyIsOwn, ParkedHoldsNone, CandidatesAreIn, RowsIn
<1>2. TypeOK /\ WaitInv /\ [Next]_vars => WaitInv'
  BY WaitInvStep
<1>3. TypeOK /\ WaitInv => SomeRowCanRun
  <2> SUFFICES ASSUME TypeOK, WaitInv, RowsIn("running") = {}, NEW t \in RowsIn("pending")
               PROVE  \E u \in RowsIn("pending") : HasLock(u) => LockConflicts(u, LockKeyOf[u]) = {}
    BY DEF SomeRowCanRun
  <2> USE StoreAssumption DEF HasLock, LockConflicts, RowsIn
  <2>1. CASE HasLock(t) /\ LockConflicts(t, LockKeyOf[t]) # {}
    <3>1. PICK o \in RowsIn("pending") : lock_key[o] = LockKeyOf[t] /\ LockKeyOf[t] # NULL
      BY <2>1
    <3>2. LockKeyOf[o] = lock_key[o]
      BY <3>1 DEF WaitInv, KeyIsOwn, Exists, Deleted
    <3>3. LockConflicts(o, LockKeyOf[o]) = {}
      BY <3>1, <3>2 DEF WaitInv, PendingKeysDiffer
    <3> QED BY <3>3
  <2>2. CASE HasLock(t) => LockConflicts(t, LockKeyOf[t]) = {}
    BY <2>2
  <2> QED BY <2>1, <2>2
<1> QED
  BY <1>1, <1>2, <1>3, TypeCorrect, PTL DEF Spec
=============================================================================
