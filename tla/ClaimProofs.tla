---------------------------- MODULE ClaimProofs ------------------------------
(***************************************************************************)
(* What the workspace column of a row guards and says.  ClaimWorkspace is  *)
(* the only thing that keeps two dispatchers from starting the same row,   *)
(* and it does so as long as nobody empties the column behind its back:    *)
(* clean between the claim and the binding, or promote and reopen of a row *)
(* that is about to be bound, let a second dispatcher claim it.  A claim   *)
(* in it is that of a dispatcher at work, because every path of            *)
(* dispatchOne that leaves one behind is the death of its process; and the *)
(* column of a running row names the session that was started for it,      *)
(* which is what the reaper's comparison with the live sessions rests on.  *)
(* At the end: the Act phase implements the abstract queue of              *)
(* TaskAssignment when nobody edits the queue by hand.                     *)
(***************************************************************************)
EXTENDS RunProofs

\* Nobody empties the workspace column of a row that had a session: no clean,
\* and none of the CLI's two commands that put a row back into the queue.
NobodyUnbinds == Cleaners = {} /\ Commands \cap {"promote", "reopen"} = {}

\* What is left to the CLI are the commands that end a row.
OperatorsOnlyEnd ==
    \A o \in Operators : opc[o] # "idle" => opc[o] # "clear" /\ ocmd[o] \in {"done", "fail"}

\* Between its claim and the binding a dispatcher has the row to itself.
ClaimIsExclusive ==
    \A d \in Dispatchers : pc[d] \in {"start", "unclaim", "bind"} =>
        /\ status[cur[d]] # Deleted => ws[cur[d]] = Claim
        /\ \A e \in Dispatchers \ {d} : pc[e] \in {"start", "unclaim", "bind"} => cur[e] # cur[d]

\* A row that ever got a session is never claimable again, and a row being
\* started has none.
SessionIsFirst ==
    \A s \in SessionId :
        /\ \A t \in TaskId : owner[s] = t /\ status[t] # Deleted => ws[t] # NULL
        /\ \A d \in Dispatchers : pc[d] \in {"start", "unclaim"} => owner[s] # cur[d]

\* The inductive invariant.
ClaimInv == OneSessionPerTask /\ OperatorsOnlyEnd /\ ClaimIsExclusive /\ SessionIsFirst

\* Under the assumption the other actors leave ws alone or delete the row.
LEMMA OthersKeepClaims ==
    ASSUME NobodyUnbinds, TypeOK, OperatorsOnlyEnd, OtherStep
    PROVE  /\ UNCHANGED <<dispatchVars, owner>>
           /\ OperatorsOnlyEnd'
           /\ \A t \in TaskId : status'[t] # Deleted => status[t] # Deleted /\ ws'[t] = ws[t]
<1> USE DEF TypeOK, TaskTypeOK
<1> DEFINE Keeps == \A t \in TaskId : status'[t] # Deleted => status[t] # Deleted /\ ws'[t] = ws[t]
<1>1. UNCHANGED <<dispatchVars, owner>>
  BY OthersKeepSessions
<1>2. ASSUME NEW t \in TaskId, UpdateStatus(t, "done") \/ UpdateStatus(t, "failed") \/ UpdateStatus(t, "pending") PROVE Keeps
  BY <1>2 DEF UpdateStatus, Exists
<1>3. ASSUME NEW t \in TaskId, Delete(t) PROVE Keeps
  BY <1>3 DEF Delete
<1>4. UNCHANGED taskVars => Keeps
  BY DEF taskVars
<1>5. UNCHANGED operatorVars => OperatorsOnlyEnd'
  BY DEF OperatorsOnlyEnd, operatorVars
<1> HIDE DEF Keeps
<1>6. ASSUME NEW s \in SessionId, Working(s) \/ Disappearing(s) PROVE Keeps /\ OperatorsOnlyEnd'
  BY <1>4, <1>5, <1>6 DEF Working, Disappearing
<1>7. ASSUME NEW w \in Watchers, Watching(w) PROVE Keeps /\ OperatorsOnlyEnd'
  <2>1. CASE WriteOutcome(w)
    BY <1>2, <1>4, <1>5, <1>7, <2>1 DEF Watching, WriteOutcome, MarkDoneWithSummary,
           MarkFailedWithReason, NoRow, CompletionTypeOK
  <2>2. CASE ~WriteOutcome(w)
    BY <1>4, <1>5, <1>7, <2>2
       DEF Watching, WatcherStep, WatchList, WatchReturns, ReadSentinel
  <2> QED BY <2>1, <2>2
<1>8. ASSUME NEW r \in Reapers, Reaping(r) PROVE Keeps /\ OperatorsOnlyEnd'
  BY <1>2, <1>4, <1>5, <1>8
     DEF Reaping, ReaperStep, ReapRows, ReapSessions, ReapReturns,
     MarkDisappeared, MarkFailedFromRunningWithReason
<1>9. ASSUME NEW o \in Operators, Operating(o) PROVE Keeps /\ OperatorsOnlyEnd'
  <2> USE DEF Operating, OperatorsOnlyEnd, TaskOpsTypeOK, Finish, Continue
  <2>1. CASE CheckAllowedFrom(o)
    BY <1>4, <2>1 DEF CheckAllowedFrom
  <2>2. CASE CheckMatrix(o)
    BY <1>4, <2>2 DEF CheckMatrix
  <2>3. CASE TransitionStatus(o)
    BY <1>2, <1>4, <2>3 DEF TransitionStatus, Target, NoRow
  <2>4. CASE ClearWorkspace(o)
    BY <2>4 DEF ClearWorkspace
  <2> QED
    BY <1>9, <2>1, <2>2, <2>3, <2>4 DEF OperatorStep
<1>10. ASSUME Requesting PROVE Keeps /\ OperatorsOnlyEnd'
  <2>1. ASSUME NEW o \in Operators, NEW command \in CliCommands, NEW t \in TaskId, Invoke(o, command, t)
        PROVE  Keeps /\ OperatorsOnlyEnd'
    BY <1>4, <2>1
       DEF Invoke, NobodyUnbinds, OperatorsOnlyEnd, TaskOpsTypeOK, CliCommands
  <2>2. ASSUME NEW t \in TaskId, WebPromote(t) \/ WebReopen(t) \/ DeleteTask(t)
        PROVE  Keeps /\ OperatorsOnlyEnd'
    BY <1>2, <1>3, <1>5, <2>2 DEF WebPromote, WebReopen, DeleteTask
  <2> QED
    BY <1>10, <2>1, <2>2 DEF Requesting, OperatorRequest
<1>11. ~ \E c \in Cleaners : Cleaning(c)
  BY DEF NobodyUnbinds
<1>12. Keeps
  BY <1>6, <1>7, <1>8, <1>9, <1>10, <1>11 DEF OtherStep
<1>13. OperatorsOnlyEnd'
  BY <1>6, <1>7, <1>8, <1>9, <1>10, <1>11 DEF OtherStep
<1> QED
  BY <1>1, <1>12, <1>13 DEF Keeps

\* Every step preserves the invariant, one case per action.
LEMMA ClaimInvStep ==
    ASSUME NobodyUnbinds, TypeOK, ClaimInv, [Next]_vars
    PROVE  ClaimInv'
<1> USE StoreAssumption, TaskIdAssumption
    DEF ClaimInv, OneSessionPerTask, OperatorsOnlyEnd, ClaimIsExclusive, SessionIsFirst,
        Exists, TypeOK, TaskTypeOK, WorkspaceTypeOK, DispatchTypeOK, Steps,
        Goto, Leave, BackToQueue, Advance, AfterFailedAttempt, NoRow,
        taskVars, workspaceVars, operatorVars, Deleted
<1>0. Claim # NULL
  BY DEF Claim, NULL
<1>1. ASSUME NEW d \in Dispatchers, DispatcherStep(d), UNCHANGED operatorVars PROVE ClaimInv'
  <2>1. CASE ListPending(d)
    BY <1>1, <2>1 DEF ListPending
  <2>2. CASE RunReturns(d)
    BY <1>1, <2>2 DEF RunReturns
  <2>3. ASSUME NEW t \in TaskId, TakeCandidate(d, t) PROVE ClaimInv'
    BY <1>1, <2>3 DEF TakeCandidate
  <2>4. CASE LockRow(d)
    BY <1>1, <2>4 DEF LockRow, AcquireLock
  <2>5. CASE ClaimRow(d)
    BY <1>0, <1>1, <2>5 DEF ClaimRow, ClaimWorkspace, Claimable
  <2>6. CASE ReleaseRow(d)
    BY <1>1, <2>6 DEF ReleaseRow, ReleaseLock
  <2>7. CASE StartReady(d)
    BY <1>0, <1>1, <2>7 DEF StartReady, StartSession
  <2>8. CASE UnclaimRow(d)
    <3>1. OneSessionPerTask' /\ OperatorsOnlyEnd'
      BY <1>1, <2>8 DEF UnclaimRow
    <3>2. \A t \in TaskId \ {cur[d]} : status'[t] = status[t] /\ ws'[t] = ws[t]
      BY <2>8 DEF UnclaimRow, SetWorkspace
    <3>3. status' = status /\ owner' = owner /\ UNCHANGED session
      BY <2>8 DEF UnclaimRow, SetWorkspace
    <3>4. pc' = [pc EXCEPT ![d] = pc'[d]] /\ pc'[d] \in {"release", "next"}
      BY <2>8 DEF UnclaimRow
    <3>5. \A e \in Dispatchers \ {d} : cur'[e] = cur[e]
      BY <2>8 DEF UnclaimRow
    <3>6. ClaimIsExclusive'
      BY <2>8, <3>2, <3>3, <3>4, <3>5 DEF UnclaimRow
    <3>7. SessionIsFirst'
      BY <2>8, <3>2, <3>3, <3>4, <3>5 DEF UnclaimRow
    <3> QED
      BY <3>1, <3>6, <3>7
  <2>9. CASE BindSession(d)
    BY <1>1, <2>9 DEF BindSession, SetWorkspace
  <2>10. CASE StampStart(d)
    BY <1>1, <2>10 DEF StampStart, SetStartedAt
  <2>11. CASE MarkRunning(d)
    BY <1>1, <2>11 DEF MarkRunning, UpdateStatus
  <2>12. CASE RecordStart(d)
    BY <1>1, <2>12 DEF RecordStart
  <2>13. CASE SendSucceeds(d)
    BY <1>1, <2>13 DEF SendSucceeds, SendPrompt
  <2>14. CASE SendFails(d)
    BY <1>1, <2>14 DEF SendFails
  <2>15. CASE MarkFailed(d)
    BY <1>1, <2>15 DEF MarkFailed, MarkFailedWithReason, UpdateStatus
  <2> QED
    BY <1>1, <2>1, <2>2, <2>3, <2>4, <2>5, <2>6, <2>7, <2>8, <2>9, <2>10, <2>11,
       <2>12, <2>13,
       <2>14, <2>15 DEF DispatcherStep
<1>2. ASSUME NEW d \in Dispatchers, DispatcherFault(d) \/ \E t \in TaskId : RunOne(d, t),
             UNCHANGED operatorVars
      PROVE  ClaimInv'
  <2>1. CASE MakeDirFails(d)
    BY <1>2, <2>1 DEF MakeDirFails
  <2>2. CASE StartNotReady(d)
    BY <1>0, <1>2, <2>2 DEF StartNotReady, StartSession
  <2>3. CASE StartFails(d)
    BY <1>2, <2>3 DEF StartFails
  <2>4. CASE DispatcherCrashes(d)
    BY <1>2, <2>4 DEF DispatcherCrashes
  <2>5. ASSUME NEW t \in TaskId, RunOne(d, t) PROVE ClaimInv'
    BY <1>2, <2>5 DEF RunOne
  <2> QED
    BY <1>2, <2>1, <2>2, <2>3, <2>4, <2>5 DEF DispatcherFault
<1>3. CASE OtherStep
  BY <1>3, OthersKeepClaims DEF dispatchVars
<1>4. CASE UNCHANGED vars
  BY <1>4 DEF vars, dispatchVars
<1> QED
  BY <1>1, <1>2, <1>3, <1>4 DEF Next, OtherStep, Dispatching, DispatchingOnce

\* No row ever gets a second session, for any number of dispatchers, whatever
\* fails and wherever they crash, while rows are ended, deleted, or put back
\* into the queue by the web server.
THEOREM SessionPerTaskIsUnique ==
    ASSUME NobodyUnbinds
    PROVE  Spec => []OneSessionPerTask
<1>1. Init => ClaimInv
  BY TaskIdAssumption DEF Init, WorkspaceInit, DispatchInit, TaskOpsInit,
     ClaimInv, OneSessionPerTask, OperatorsOnlyEnd, ClaimIsExclusive, SessionIsFirst
<1>2. TypeOK /\ ClaimInv /\ [Next]_vars => ClaimInv'
  BY ClaimInvStep
<1>3. ClaimInv => OneSessionPerTask
  BY DEF ClaimInv
<1> QED
  BY <1>1, <1>2, <1>3, TypeCorrect, PTL DEF Spec

-----------------------------------------------------------------------------
\* Every other actor either empties a ws column or leaves it.
LEMMA OthersOnlyEmpty ==
    ASSUME TypeOK, OtherStep
    PROVE  /\ UNCHANGED dispatchVars
           /\ \A t \in TaskId : /\ ws'[t] \in {ws[t], NULL}
                                /\ status'[t] = Deleted => status[t] = Deleted \/ ws'[t] = NULL
<1> USE DEF TypeOK, TaskTypeOK
<1> DEFINE Keeps == \A t \in TaskId : /\ ws'[t] \in {ws[t], NULL}
                                      /\ status'[t] = Deleted => status[t] = Deleted \/ ws'[t] = NULL
<1>1. UNCHANGED dispatchVars
  BY OthersKeepSessions
<1>2. ASSUME NEW t \in TaskId, NEW s \in ValidStatuses, UpdateStatus(t, s) PROVE Keeps
  BY <1>2 DEF UpdateStatus, ValidStatuses, Deleted
<1>3. ASSUME NEW t \in TaskId, Delete(t) PROVE Keeps
  BY <1>3 DEF Delete
<1>4. ASSUME NEW t \in TaskId, SetWorkspace(t, NULL) PROVE Keeps
  BY <1>4 DEF SetWorkspace
<1>5. UNCHANGED taskVars => Keeps
  BY DEF taskVars
<1>6. {"done", "failed", "pending"} \subseteq ValidStatuses
  BY DEF ValidStatuses
<1> HIDE DEF Keeps
<1>7. ASSUME NEW s \in SessionId, Working(s) \/ Disappearing(s) PROVE Keeps
  BY <1>5, <1>7 DEF Working, Disappearing
<1>8. ASSUME NEW w \in Watchers, Watching(w) PROVE Keeps
  BY <1>2, <1>5, <1>6, <1>8
     DEF Watching, WatcherStep, WatchList, WatchReturns, ReadSentinel,
         WriteOutcome,
     MarkDoneWithSummary, MarkFailedWithReason, NoRow, CompletionTypeOK
<1>9. ASSUME NEW r \in Reapers, Reaping(r) PROVE Keeps
  BY <1>2, <1>5, <1>6, <1>9
     DEF Reaping, ReaperStep, ReapRows, ReapSessions, ReapReturns,
     MarkDisappeared, MarkFailedFromRunningWithReason
<1>10. ASSUME NEW c \in Cleaners, Cleaning(c) PROVE Keeps
  BY <1>4, <1>5, <1>10
     DEF Cleaning, CleanerStep, CleanSessions, CleanRows, CleanReturns,
         ClearOrphan, NoRow
<1>11. ASSUME NEW o \in Operators, Operating(o) PROVE Keeps
  BY <1>2, <1>4, <1>5, <1>6, <1>11
     DEF Operating, OperatorStep, CheckAllowedFrom, CheckMatrix,
     TransitionStatus, ClearWorkspace, NoRow, Target, TaskOpsTypeOK
<1>12. ASSUME Requesting PROVE Keeps
  BY <1>2, <1>3, <1>5, <1>6, <1>12 DEF Requesting, OperatorRequest, Invoke, WebPromote,
         WebReopen, DeleteTask
<1>13. Keeps
  BY <1>7, <1>8, <1>9, <1>10, <1>11, <1>12 DEF OtherStep
<1> QED
  BY <1>1, <1>13 DEF Keeps

-----------------------------------------------------------------------------
\* A row that is gone names nothing.
DeletedIsEmpty == \A t \in TaskId : status[t] = Deleted => ws[t] = NULL

\* The inductive invariant: a dispatcher that finds its row gone leaves no claim.
HeldInv == ClaimHasDispatcher /\ DeletedIsEmpty

\* Every step preserves it while no process dies or keeps a claim it should
\* take back, one case per action.
LEMMA HeldInvStep ==
    ASSUME Faults \cap {"crash", "unclaim"} = {}, TypeOK, HeldInv, [Next]_vars
    PROVE  HeldInv'
<1> USE StoreAssumption
    DEF HeldInv, ClaimHasDispatcher, DeletedIsEmpty, Exists, TypeOK, TaskTypeOK,
           DispatchTypeOK, Steps,
        Goto, Leave, BackToQueue, Advance, AfterFailedAttempt, NoRow, taskVars, Deleted,
               ValidStatuses
<1>0. Claim # NULL /\ Claim \notin SessionId
  BY DEF Claim, NULL
<1>1. ASSUME NEW d \in Dispatchers, DispatcherStep(d) PROVE HeldInv'
  <2>1. CASE ListPending(d)
    BY <2>1 DEF ListPending
  <2>2. CASE RunReturns(d)
    BY <2>2 DEF RunReturns
  <2>3. ASSUME NEW t \in TaskId, TakeCandidate(d, t) PROVE HeldInv'
    BY <2>3 DEF TakeCandidate
  <2>4. CASE LockRow(d)
    BY <2>4 DEF LockRow, AcquireLock
  <2>5. CASE ClaimRow(d)
    BY <2>5 DEF ClaimRow, ClaimWorkspace, Claimable
  <2>6. CASE ReleaseRow(d)
    BY <2>6 DEF ReleaseRow, ReleaseLock
  <2>7. CASE StartReady(d)
    BY <2>7 DEF StartReady
  <2>8. CASE UnclaimRow(d)
    BY <1>0, <2>8 DEF UnclaimRow, SetWorkspace
  <2>9. CASE BindSession(d)
    BY <1>0, <2>9 DEF BindSession, SetWorkspace
  <2>10. CASE StampStart(d)
    BY <2>10 DEF StampStart, SetStartedAt
  <2>11. CASE MarkRunning(d)
    BY <2>11 DEF MarkRunning, UpdateStatus
  <2>12. CASE RecordStart(d)
    BY <2>12 DEF RecordStart
  <2>13. CASE SendSucceeds(d)
    BY <2>13 DEF SendSucceeds
  <2>14. CASE SendFails(d)
    BY <2>14 DEF SendFails
  <2>15. CASE MarkFailed(d)
    BY <2>15 DEF MarkFailed, MarkFailedWithReason, UpdateStatus
  <2> QED
    BY <1>1, <2>1, <2>2, <2>3, <2>4, <2>5, <2>6, <2>7, <2>8, <2>9, <2>10, <2>11,
       <2>12, <2>13,
       <2>14, <2>15 DEF DispatcherStep
<1>2. ASSUME NEW d \in Dispatchers, DispatcherFault(d) \/ \E t \in TaskId : RunOne(d, t)
      PROVE  HeldInv'
  <2>1. CASE MakeDirFails(d)
    BY <2>1 DEF MakeDirFails
  <2>2. CASE StartNotReady(d)
    BY <2>2 DEF StartNotReady
  <2>3. CASE StartFails(d)
    BY <2>3 DEF StartFails
  <2>4. CASE DispatcherCrashes(d)
    BY <2>4 DEF DispatcherCrashes
  <2>5. ASSUME NEW t \in TaskId, RunOne(d, t) PROVE HeldInv'
    BY <2>5 DEF RunOne
  <2> QED
    BY <1>2, <2>1, <2>2, <2>3, <2>4, <2>5 DEF DispatcherFault
<1>3. CASE OtherStep
  BY <1>0, <1>3, OthersOnlyEmpty DEF dispatchVars
<1>4. CASE UNCHANGED vars
  BY <1>4 DEF vars, dispatchVars
<1> QED
  BY <1>1, <1>2, <1>3, <1>4 DEF Next, OtherStep, Dispatching, DispatchingOnce

\* While no process dies and every claim that should be taken back is, a
\* claimed row is one a dispatcher is working on, under every other fault,
\* edit and sweep: no row stays claimed for ever.
THEOREM ClaimAlwaysHasDispatcher ==
    ASSUME Faults \cap {"crash", "unclaim"} = {}
    PROVE  Spec => []ClaimHasDispatcher
<1>1. Init => HeldInv
  BY DEF Init, TaskInit, HeldInv, ClaimHasDispatcher, DeletedIsEmpty, Claim, NULL
<1>2. TypeOK /\ HeldInv /\ [Next]_vars => HeldInv'
  BY HeldInvStep
<1>3. HeldInv => ClaimHasDispatcher
  BY DEF HeldInv
<1> QED
  BY <1>1, <1>2, <1>3, TypeCorrect, PTL DEF Spec

-----------------------------------------------------------------------------
\* A dispatcher past SetWorkspace finds its session in the row.
BoundBeforeRun ==
    \A d \in Dispatchers : pc[d] \in {"stamp", "run"} =>
        (status[cur[d]] # Deleted => ws[cur[d]] = sess[d])

\* A session that belongs to a row was created, so no Start returns it again.
OwnedIsUsed == \A s \in SessionId : owner[s] # NULL => session[s] # "unused"

\* The inductive invariant; ClaimInv and OwnsSession help it along.
BoundInv == RunningIsBound /\ BoundBeforeRun /\ OwnedIsUsed

\* The other actors start no row and bind none.
LEMMA OthersKeepBound ==
    ASSUME NobodyUnbinds, TypeOK, ClaimInv, BoundInv, OtherStep
    PROVE  BoundInv'
<1> USE TaskIdAssumption
        DEF BoundInv, RunningIsBound, BoundBeforeRun, OwnedIsUsed, RowsIn
<1>1. /\ UNCHANGED <<dispatchVars, owner>>
      /\ \A t \in TaskId : status'[t] # Deleted => status[t] # Deleted /\ ws'[t] = ws[t]
  BY OthersKeepClaims DEF ClaimInv
<1>2. \A t \in TaskId : status'[t] = "running" => status[t] = "running"
  BY OthersKeepRows DEF KeepsRow
<1>3. RunningIsBound'
  BY <1>1, <1>2 DEF Deleted
<1>4. BoundBeforeRun'
  BY <1>1 DEF dispatchVars, TypeOK, DispatchTypeOK
<1>5. OwnedIsUsed'
  BY <1>1, OthersKeepSessions DEF TypeOK, WorkspaceTypeOK
<1> QED
  BY <1>3, <1>4, <1>5

\* Every step preserves the invariant, one case per action.
LEMMA BoundInvStep ==
    ASSUME NobodyUnbinds, TypeOK, ClaimInv, AuditInv, BoundInv, [Next]_vars
    PROVE  BoundInv'
<1> USE StoreAssumption, TaskIdAssumption
    DEF BoundInv, RunningIsBound, BoundBeforeRun, OwnedIsUsed, RowsIn, Exists,
        TypeOK, TaskTypeOK, WorkspaceTypeOK, DispatchTypeOK, Steps,
        Goto, Leave, BackToQueue, Advance, AfterFailedAttempt, NoRow, taskVars, workspaceVars,
               Deleted
<1>0. Claim # NULL /\ Claim \notin SessionId
  BY DEF Claim, NULL
<1>1. ASSUME NEW d \in Dispatchers, DispatcherStep(d) PROVE BoundInv'
  <2>1. CASE ListPending(d)
    BY <2>1 DEF ListPending
  <2>2. CASE RunReturns(d)
    BY <2>2 DEF RunReturns
  <2>3. ASSUME NEW t \in TaskId, TakeCandidate(d, t) PROVE BoundInv'
    BY <2>3 DEF TakeCandidate
  <2>4. CASE LockRow(d)
    BY <2>4 DEF LockRow, AcquireLock
  <2>5. CASE ClaimRow(d)
    BY <2>5 DEF ClaimRow, ClaimWorkspace, Claimable
  <2>6. CASE ReleaseRow(d)
    BY <2>6 DEF ReleaseRow, ReleaseLock
  <2>7. CASE StartReady(d)
    BY <2>7 DEF StartReady, StartSession
  <2>8. CASE UnclaimRow(d)
    BY <1>0, <2>8 DEF UnclaimRow, SetWorkspace, ClaimInv, ClaimIsExclusive
  <2>9. CASE BindSession(d)
    BY <1>0, <2>9 DEF BindSession, SetWorkspace, ClaimInv, ClaimIsExclusive
  <2>10. CASE StampStart(d)
    BY <2>10 DEF StampStart, SetStartedAt
  <2>11. CASE MarkRunning(d)
    BY <2>11 DEF MarkRunning, UpdateStatus, AuditInv, OwnsSession
  <2>12. CASE RecordStart(d)
    BY <2>12 DEF RecordStart
  <2>13. CASE SendSucceeds(d)
    BY <2>13 DEF SendSucceeds, SendPrompt
  <2>14. CASE SendFails(d)
    BY <2>14 DEF SendFails
  <2>15. CASE MarkFailed(d)
    BY <2>15 DEF MarkFailed, MarkFailedWithReason, UpdateStatus
  <2> QED
    BY <1>1, <2>1, <2>2, <2>3, <2>4, <2>5, <2>6, <2>7, <2>8, <2>9, <2>10, <2>11,
       <2>12, <2>13,
       <2>14, <2>15 DEF DispatcherStep
<1>2. ASSUME NEW d \in Dispatchers, DispatcherFault(d) \/ \E t \in TaskId : RunOne(d, t)
      PROVE  BoundInv'
  <2>1. CASE MakeDirFails(d)
    BY <2>1 DEF MakeDirFails
  <2>2. CASE StartNotReady(d)
    BY <2>2 DEF StartNotReady, StartSession
  <2>3. CASE StartFails(d)
    BY <2>3 DEF StartFails
  <2>4. CASE DispatcherCrashes(d)
    BY <2>4 DEF DispatcherCrashes
  <2>5. ASSUME NEW t \in TaskId, RunOne(d, t) PROVE BoundInv'
    BY <2>5 DEF RunOne
  <2> QED
    BY <1>2, <2>1, <2>2, <2>3, <2>4, <2>5 DEF DispatcherFault
<1>3. CASE OtherStep
  BY <1>3, OthersKeepBound
<1>4. CASE UNCHANGED vars
  BY <1>4 DEF vars, dispatchVars
<1> QED
  BY <1>1, <1>2, <1>3, <1>4 DEF Next, OtherStep, Dispatching, DispatchingOnce

\* Initially no row is claimed and no session has an owner.
LEMMA StartsBound == Init => ClaimInv /\ AuditInv /\ BoundInv
<1> SUFFICES ASSUME Init PROVE ClaimInv /\ AuditInv /\ BoundInv
  OBVIOUS
<1> USE StoreAssumption, TaskIdAssumption
        DEF Init, TaskInit, WorkspaceInit, DispatchInit,
       TaskOpsInit, NULL, Claim
<1>1. ClaimInv
  BY DEF ClaimInv, OneSessionPerTask, OperatorsOnlyEnd, ClaimIsExclusive, SessionIsFirst
<1>2. AuditInv
  BY DEF AuditInv, OwnsSession, AuditedBeforeSend, PromptIsAudited
<1>3. BoundInv
  BY DEF BoundInv, RunningIsBound, BoundBeforeRun, OwnedIsUsed, RowsIn
<1> QED
  BY <1>1, <1>2, <1>3

\* A running row names the session that was started for it, for any number of
\* dispatchers, whatever fails and wherever they die, as long as nobody empties
\* the column: the reaper can tell for every running row whether it lives.
THEOREM RunningIsAlwaysBound ==
    ASSUME NobodyUnbinds
    PROVE  Spec => []RunningIsBound
<1> DEFINE AllInv == ClaimInv /\ AuditInv /\ BoundInv
<1>1. Init => AllInv
  BY StartsBound
<1>2. TypeOK /\ AllInv /\ [Next]_vars => AllInv'
  BY ClaimInvStep, AuditInvStep, BoundInvStep
<1>3. AllInv => RunningIsBound
  BY DEF BoundInv
<1> QED
  BY <1>1, <1>2, <1>3, TypeCorrect, PTL DEF Spec

-----------------------------------------------------------------------------
\* Every session that was ever created is known from its row.
KnownInv ==
    \A s \in SessionId :
        /\ session[s] # "unused" => owner[s] # NULL
        /\ \A t \in TaskId : owner[s] = t /\ Exists(t) => ws[t] \in {s, Claim}

\* Sessions are created for a row that is claimed, and only the binding
\* replaces the claim.
LEMMA KnownInvStep ==
    ASSUME NobodyUnbinds, TypeOK, ClaimInv, AuditInv, BoundInv, KnownInv, [Next]_vars
    PROVE  KnownInv'
<1> USE StoreAssumption, TaskIdAssumption
    DEF KnownInv, Exists, TypeOK, TaskTypeOK, WorkspaceTypeOK, DispatchTypeOK,
        NoRow, taskVars, workspaceVars, Deleted
<1>1. ASSUME NEW d \in Dispatchers, Dispatching(d) \/ DispatchingOnce(d) PROVE KnownInv'
  <2>1. CASE ClaimRow(d)
    BY <2>1 DEF ClaimRow, ClaimWorkspace, Claimable, ClaimInv, SessionIsFirst
  <2>2. CASE UnclaimRow(d)
    BY <2>2 DEF UnclaimRow, SetWorkspace, ClaimInv, SessionIsFirst
  <2>3. CASE StartReady(d) \/ StartNotReady(d)
    <3>1. PICK s \in SessionId : /\ session[s] = "unused" /\ session'[s] # "unused"
                                 /\ \A u \in SessionId \ {s} : session'[u] = session[u]
                                 /\ owner' = [owner EXCEPT ![s] = cur[d]]
      BY <2>3 DEF StartReady, StartNotReady, StartSession
    <3>2. UNCHANGED taskVars /\ cur[d] \in TaskId /\ (Exists(cur[d]) => ws[cur[d]] = Claim)
      BY <2>3 DEF StartReady, StartNotReady, ClaimInv, ClaimIsExclusive
    <3> QED BY <3>1, <3>2
  <2>4. CASE BindSession(d)
    <3>1. sess[d] \in SessionId /\ owner[sess[d]] = cur[d] /\ cur[d] \in TaskId
      BY <2>4 DEF BindSession, AuditInv, OwnsSession
    <3>2. \A s \in SessionId : owner[s] = cur[d] => s = sess[d]
      BY <3>1 DEF ClaimInv, OneSessionPerTask
    <3> QED BY <2>4, <3>1, <3>2 DEF BindSession, SetWorkspace
  <2>5. CASE MarkRunning(d) \/ MarkFailed(d) \/ LockRow(d) \/ ReleaseRow(d) \/ StampStart(d)
    BY <2>5
       DEF MarkRunning, MarkFailed, MarkFailedWithReason, UpdateStatus, LockRow, AcquireLock,
           ReleaseRow, ReleaseLock, StampStart, SetStartedAt
  <2>6. CASE SendSucceeds(d)
    BY <2>6 DEF SendSucceeds, SendPrompt
  <2> QED
    BY <1>1, <2>1, <2>2, <2>3, <2>4, <2>5, <2>6
       DEF Dispatching, DispatchingOnce, DispatcherStep, DispatcherFault, ListPending,
           RunReturns, TakeCandidate, RunOne, RecordStart, SendFails, MakeDirFails, StartFails,
           DispatcherCrashes
<1>2. CASE OtherStep
  <2>1. /\ UNCHANGED owner
        /\ \A t \in TaskId : status'[t] # Deleted => status[t] # Deleted /\ ws'[t] = ws[t]
    BY <1>2, OthersKeepClaims DEF ClaimInv
  <2>2. \A s \in SessionId : session'[s] # "unused" => session[s] # "unused"
    BY <1>2, OthersKeepSessions
  <2> QED BY <2>1, <2>2
<1>3. CASE UNCHANGED vars
  BY <1>3 DEF vars
<1> QED
  BY <1>1, <1>2, <1>3 DEF Next, OtherStep

\* A live session is always named by its row, or the row still carries the
\* claim it was started under, for any number of dispatchers, whatever fails
\* and wherever they die, as long as nobody empties the column and the row is
\* not deleted.
THEOREM SessionIsAlwaysKnown ==
    ASSUME NobodyUnbinds
    PROVE  Spec => []SessionIsKnown
<1> DEFINE AllInv == ClaimInv /\ AuditInv /\ BoundInv /\ KnownInv
<1>1. Init => AllInv
  BY StartsBound, TaskIdAssumption DEF Init, WorkspaceInit, KnownInv
<1>2. TypeOK /\ AllInv /\ [Next]_vars => AllInv'
  BY ClaimInvStep, AuditInvStep, BoundInvStep, KnownInvStep
<1>3. TypeOK /\ AllInv => SessionIsKnown
  BY DEF KnownInv, SessionIsKnown, LiveSessions, Alive, TypeOK, WorkspaceTypeOK
<1> QED
  BY <1>1, <1>2, <1>3, TypeCorrect, PTL DEF Spec

-----------------------------------------------------------------------------
\* What a reaper remembers of a row is still so, unless the row is gone; and
\* once it has listed the sessions, what is left of its snapshot is dead.
SnapshotHolds ==
    \A r \in Reapers : \A p \in rrows[r] :
        /\ status[p[1]] # Deleted => ws[p[1]] = p[2]
        /\ p[2] \in SessionId /\ owner[p[2]] # NULL
        /\ rpc[r] = "judge" => p[2] \notin LiveSessions

\* A session that has an owner and is dead stays so, and owners stay.
LEMMA DeadStaysDead ==
    ASSUME TypeOK, AuditInv, BoundInv, [Next]_vars, NEW s \in SessionId, owner[s] # NULL
    PROVE  owner'[s] = owner[s] /\ (s \notin LiveSessions => s \notin LiveSessions')
<1> USE TaskIdAssumption
        DEF BoundInv, OwnedIsUsed, LiveSessions, Alive, SessionStates, TypeOK,
       WorkspaceTypeOK, DispatchTypeOK
<1>1. ASSUME NEW d \in Dispatchers, Dispatching(d) \/ DispatchingOnce(d)
      PROVE  \/ UNCHANGED <<session, owner>>
             \/ \E u \in SessionId, st \in {"ready", "unready"} : StartSession(u, cur[d], st) /\ cur[d] \in TaskId
             \/ sess[d] \in SessionId /\ SendPrompt(sess[d])
  BY <1>1
     DEF Dispatching, DispatchingOnce, DispatcherStep, DispatcherFault, ListPending,
         RunReturns, TakeCandidate,
     RunOne, LockRow, ClaimRow, ReleaseRow, StartReady, StartNotReady, UnclaimRow, BindSession,
            StampStart, MarkRunning,
     RecordStart, SendSucceeds, SendFails, MarkFailed, MakeDirFails, StartFails,
            DispatcherCrashes, workspaceVars
<1>2. CASE \E d \in Dispatchers : Dispatching(d) \/ DispatchingOnce(d)
  BY <1>1, <1>2 DEF StartSession, SendPrompt
<1>3. CASE OtherStep
  BY <1>3, OthersKeepSessions
<1>4. CASE UNCHANGED vars
  BY <1>4 DEF vars, workspaceVars
<1> QED
  BY <1>2, <1>3, <1>4 DEF Next, OtherStep

\* A row that names a session keeps it until it is deleted.
LEMMA BindingStays ==
    ASSUME NobodyUnbinds, TypeOK, ClaimInv, [Next]_vars,
           NEW t \in TaskId, status'[t] # Deleted
    PROVE  status[t] # Deleted /\ (ws[t] \in SessionId => ws'[t] = ws[t])
<1> USE StoreAssumption
        DEF Deleted, Exists, TypeOK, TaskTypeOK, DispatchTypeOK, taskVars
<1>0. ws[t] \in SessionId => ws[t] # NULL /\ ws[t] # Claim
  BY DEF Claim, NULL
<1>1. ASSUME NEW d \in Dispatchers, Dispatching(d) \/ DispatchingOnce(d)
      PROVE  status[t] # Deleted /\ (ws[t] \in SessionId => ws'[t] = ws[t])
  <2>1. CASE UnclaimRow(d) \/ BindSession(d)
    BY <1>0, <2>1
       DEF UnclaimRow, BindSession, SetWorkspace, NoRow, ClaimInv, ClaimIsExclusive
  <2>2. CASE ClaimRow(d)
    BY <1>0, <2>2 DEF ClaimRow, ClaimWorkspace, Claimable, NoRow
  <2>3. CASE MarkRunning(d) \/ MarkFailed(d)
    BY <2>3 DEF MarkRunning, MarkFailed, MarkFailedWithReason, UpdateStatus, NoRow
  <2>4. CASE LockRow(d) \/ ReleaseRow(d) \/ StampStart(d)
    BY <2>4
       DEF LockRow, AcquireLock, ReleaseRow, ReleaseLock, StampStart, SetStartedAt,
           NoRow
  <2> QED
    BY <1>1, <2>1, <2>2, <2>3, <2>4 DEF Dispatching, DispatchingOnce, DispatcherStep,
           DispatcherFault, ListPending,
       RunReturns, TakeCandidate, RunOne, StartReady, StartNotReady, RecordStart, SendSucceeds,
              SendFails,
       MakeDirFails, StartFails, DispatcherCrashes
<1>2. CASE OtherStep
  BY <1>2, OthersKeepClaims DEF ClaimInv
<1>3. CASE UNCHANGED vars
  BY <1>3 DEF vars
<1> QED
  BY <1>1, <1>2, <1>3 DEF Next, OtherStep

\* Every step keeps what the reapers remember true.
LEMMA SnapshotHoldsStep ==
    ASSUME NobodyUnbinds, TypeOK, ClaimInv, AuditInv, BoundInv, SnapshotHolds, [Next]_vars
    PROVE  SnapshotHolds'
<1> USE DEF TypeOK, ReaperTypeOK
<1>1. ASSUME NEW r \in Reapers, NEW p \in rrows[r]
      PROVE  /\ p[1] \in TaskId
             /\ status'[p[1]] # Deleted => ws'[p[1]] = p[2]
             /\ p[2] \in SessionId /\ owner'[p[2]] # NULL
             /\ p[2] \notin LiveSessions => p[2] \notin LiveSessions'
  <2>1. p[1] \in TaskId /\ p[2] \in SessionId /\ owner[p[2]] # NULL /\ (status[p[1]] # Deleted => ws[p[1]] = p[2])
    BY DEF SnapshotHolds
  <2>2. owner'[p[2]] # NULL /\ (p[2] \notin LiveSessions => p[2] \notin LiveSessions')
    BY <2>1, DeadStaysDead
  <2>3. ASSUME status'[p[1]] # Deleted PROVE ws'[p[1]] = p[2]
    BY <2>1, <2>3, BindingStays
  <2> QED
    BY <2>1, <2>2, <2>3
<1>2. ASSUME NEW q \in Reapers, Reaping(q) PROVE SnapshotHolds'
  <2>1. CASE ReapRows(q)
    <3>1. \A t \in Bound(RowsIn("running")) : ws[t] \in SessionId /\ owner[ws[t]] # NULL /\ t \in TaskId
      BY TaskIdAssumption DEF BoundInv, RunningIsBound, Bound, RowsIn
    <3>2. UNCHANGED <<status, ws, owner>>
      BY <2>1 DEF ReapRows, taskVars, workspaceVars
    <3> QED
      BY <1>1, <2>1, <3>1, <3>2 DEF ReapRows, SnapshotHolds
  <2>2. CASE ReapSessions(q)
    BY <1>1, <2>2 DEF ReapSessions, SnapshotHolds, workspaceVars, LiveSessions
  <2>3. CASE ReapReturns(q) \/ \E t \in TaskId : MarkDisappeared(q, t)
    BY <1>1, <2>3 DEF ReapReturns, MarkDisappeared, SnapshotHolds
  <2> QED
    BY <1>2, <2>1, <2>2, <2>3 DEF Reaping, ReaperStep
<1>3. CASE UNCHANGED reaperVars
  BY <1>1, <1>3 DEF SnapshotHolds, reaperVars
<1>4. ~ \E c \in Cleaners : Cleaning(c)
  BY DEF NobodyUnbinds
<1> QED
  BY <1>2, <1>3, <1>4
     DEF Next, vars, Dispatching, DispatchingOnce, Working, Disappearing,
         Watching, Operating, Requesting

\* The sweep never fails a row whose session is alive, for any number of
\* reapers, dispatchers and watchers and whatever fails: that the sessions are
\* listed after the rows is enough, as long as nobody empties the column.
THEOREM ReaperAlwaysSparesLive ==
    ASSUME NobodyUnbinds
    PROVE  Spec => ReaperSparesLive
<1> DEFINE AllInv == ClaimInv /\ AuditInv /\ BoundInv /\ SnapshotHolds
<1> DEFINE Spares == \A r \in Reapers, t \in TaskId : Reaps(r, t) => ws[t] \notin LiveSessions
<1>1. Init => ClaimInv /\ AuditInv /\ BoundInv
  BY StartsBound
<1>2. Init => SnapshotHolds
  BY DEF Init, ReaperInit, SnapshotHolds
<1>3. TypeOK /\ AllInv /\ [Next]_vars => AllInv'
  BY ClaimInvStep, AuditInvStep, BoundInvStep, SnapshotHoldsStep
<1>4. TypeOK /\ AllInv /\ [Next]_vars => [Spares]_vars
  <2> SUFFICES ASSUME TypeOK, AllInv, [Next]_vars, NEW r \in Reapers, NEW t \in TaskId, Reaps(r, t)
               PROVE  ws[t] \notin LiveSessions
    OBVIOUS
  <2> USE DEF TypeOK, ReaperTypeOK
  <2>1. ASSUME NEW q \in Reapers, Reaping(q) PROVE q = r /\ \E u \in TaskId : MarkDisappeared(r, u)
    BY <2>1
       DEF Reaps, Reaping, ReaperStep, ReapRows, ReapSessions, ReapReturns,
           MarkDisappeared
  <2>2. ~ UNCHANGED reaperVars
    BY DEF Reaps, reaperVars
  <2>3. PICK u \in TaskId : MarkDisappeared(r, u)
    BY <2>1, <2>2 DEF Next, vars, Dispatching, DispatchingOnce, Working, Disappearing,
           Watching, Cleaning, CleanerStep,
       CleanSessions, CleanRows, ClearOrphan, CleanReturns, Operating, Requesting, reaperVars
  <2>4. u = t
    BY <2>3 DEF MarkDisappeared, MarkFailedFromRunningWithReason, UpdateStatus, Reaps,
           taskVars, TaskTypeOK
  <2>5. PICK p \in rrows[r] : p[1] = t
    BY <2>3, <2>4 DEF MarkDisappeared
  <2> QED
    BY <2>5 DEF SnapshotHolds, Reaps, Deleted
<1> QED
  BY <1>1, <1>2, <1>3, <1>4, TypeCorrect, PTL DEF Spec, ReaperSparesLive

---------------------------------------------------------------------------
(***************************************************************************)
(* The Act phase implements the abstract queue.  Every statement does one  *)
(* of four things to the rows and the owners of sessions: nothing, start a *)
(* session for a claimed row, set that row running, or end a row that has  *)
(* run (or that dispatchOne rejects).  The second is Assign, the last      *)
(* Settle, and the other two are invisible.                                *)
(***************************************************************************)

\* A queue nobody edits: the abstract queue knows no way back.
NobodyEdits == Cleaners = {} /\ Operators = {} /\ Commands = {}

\* A row that was given to its session, whatever became of it.
HasRun(t) == status[t] \in {"running", "done", "failed"}

\* From its claim until it sets the row running a dispatcher works on a
\* pending row, afterwards on one that has run; it fails no other row, except
\* one it rejected.
AttemptIsPending ==
    \A d \in Dispatchers :
        /\ pc[d] \in {"start", "unclaim", "bind", "stamp", "run"} => status[cur[d]] = "pending"
        /\ pc[d] \in {"record", "send"} => HasRun(cur[d])
        /\ pc[d] = "fail" => HasRun(cur[d]) \/ cur[d] \in Unroutable

\* A row dispatchOne rejects is never claimed.
ClaimIsRoutable ==
    \A d \in Dispatchers : pc[d] \notin {"idle", "next", "fail"} => cur[d] \notin Unroutable

\* The watcher's snapshot holds rows that have run.
WatchedHasRun ==
    \A w \in Watchers :
        /\ \A t \in wqueue[w] : HasRun(t)
        /\ wpc[w] \in {"done", "failed"} => HasRun(wcur[w])

\* No two dispatchers are at work for the same session.
SessionsAreDistinct ==
    \A d, e \in Dispatchers :
        {pc[d], pc[e]} \subseteq {"bind", "stamp", "run", "record", "send"} /\ sess[d] = sess[e] => d = e

\* The inductive invariant of the refinement, besides ClaimInv and AuditInv.
QueueInv ==
    /\ \A t \in TaskId : Exists(t)
    /\ AttemptIsPending /\ ClaimIsRoutable /\ WatchedHasRun
    /\ SessionsAreDistinct /\ OwnedIsUsed

\* The four kinds of steps, by what they do to the rows and to who works for
\* them.
Keeps == UNCHANGED <<status, owner>>

Starts(d) ==
    /\ \E s \in SessionId :
           /\ pc[d] = "start" /\ session[s] = "unused"
           /\ owner' = [owner EXCEPT ![s] = cur[d]]
    /\ UNCHANGED status

Runs(d) ==
    /\ pc[d] = "run" /\ status' = [status EXCEPT ![cur[d]] = "running"]
    /\ UNCHANGED owner

Ends ==
    /\ \E t \in TaskId, s \in {"done", "failed"} :
           (HasRun(t) \/ t \in Unroutable) /\ status' = [status EXCEPT ![t] = s]
    /\ UNCHANGED owner

\* Every step of a dispatcher is of one of these kinds.
LEMMA StepOfDispatcher ==
    ASSUME TypeOK, QueueInv, NEW d \in Dispatchers, Dispatching(d) \/ DispatchingOnce(d)
    PROVE  Keeps \/ Starts(d) \/ Runs(d) \/ Ends
<1> USE DEF QueueInv, Keeps, TypeOK, DispatchTypeOK, taskVars, workspaceVars
<1>1. CASE ListPending(d) \/ RunReturns(d) \/ \E t \in TaskId : TakeCandidate(d, t) \/ RunOne(d, t)
  BY <1>1 DEF ListPending, RunReturns, TakeCandidate, RunOne
<1>2. CASE LockRow(d) \/ ClaimRow(d) \/ ReleaseRow(d) \/ UnclaimRow(d)
  BY <1>2 DEF LockRow, AcquireLock, ClaimRow, ClaimWorkspace, ReleaseRow, ReleaseLock,
         UnclaimRow, SetWorkspace, NoRow
<1>3. CASE BindSession(d) \/ StampStart(d) \/ RecordStart(d) \/ SendSucceeds(d) \/ SendFails(d)
  BY <1>3
     DEF BindSession, SetWorkspace, StampStart, SetStartedAt, RecordStart,
         SendSucceeds,
         SendPrompt, SendFails, NoRow
<1>4. CASE StartReady(d) \/ StartNotReady(d)
  BY <1>4 DEF StartReady, StartNotReady, StartSession, Starts
<1>5. CASE MarkRunning(d)
  BY <1>5 DEF MarkRunning, UpdateStatus, NoRow, Runs
<1>6. CASE MarkFailed(d)
  BY <1>6
     DEF MarkFailed, MarkFailedWithReason, UpdateStatus, NoRow, Ends, AttemptIsPending
<1>7. CASE MakeDirFails(d) \/ StartFails(d) \/ DispatcherCrashes(d)
  BY <1>7 DEF MakeDirFails, StartFails, DispatcherCrashes
<1> QED
  BY <1>1, <1>2, <1>3, <1>4, <1>5, <1>6, <1>7
     DEF Dispatching, DispatchingOnce, DispatcherStep,
         DispatcherFault

\* Every step of the others is of the first kind or the last, and touches no
\* dispatcher.
LEMMA StepOfOthers ==
    ASSUME NobodyEdits, TypeOK, QueueInv, OtherStep
    PROVE  (Keeps \/ Ends) /\ UNCHANGED dispatchVars
<1> USE DEF QueueInv, Keeps, TypeOK, TaskTypeOK, taskVars
<1>1. UNCHANGED <<dispatchVars, owner>>
  BY OthersKeepSessions
<1>2. ASSUME NEW s \in SessionId, Working(s) \/ Disappearing(s) PROVE Keeps
  BY <1>1, <1>2 DEF Working, Disappearing
<1>3. ASSUME NEW w \in Watchers, Watching(w) PROVE Keeps \/ Ends
  BY <1>1, <1>3
     DEF Watching, WatcherStep, WatchList, WatchReturns, ReadSentinel, WriteOutcome,
     MarkDoneWithSummary, MarkFailedWithReason, UpdateStatus, NoRow, Ends, WatchedHasRun,
            CompletionTypeOK
<1>4. ASSUME NEW r \in Reapers, Reaping(r) PROVE Keeps \/ Ends
  BY <1>1, <1>4
     DEF Reaping, ReaperStep, ReapRows, ReapSessions, ReapReturns, MarkDisappeared,
     MarkFailedFromRunningWithReason, UpdateStatus, Ends, HasRun
<1>5. ~ Requesting
  BY DEF NobodyEdits, Requesting, OperatorRequest, Invoke, WebPromote, WebReopen,
         DeleteTask
<1> QED
  BY <1>1, <1>2, <1>3, <1>4, <1>5 DEF NobodyEdits, OtherStep

\* No row goes away, or back once it has run, and a row that another
\* dispatcher is at work on is not touched.
LEMMA RowsGoForward ==
    ASSUME TypeOK, ClaimInv, AuditInv, QueueInv,
           NEW d \in Dispatchers, Keeps \/ Starts(d) \/ Runs(d) \/ Ends
    PROVE  /\ \A t \in TaskId : Exists(t)' /\ (HasRun(t) => HasRun(t)')
           /\ \A e \in Dispatchers \ {d} :
                  pc[e] \in {"start", "unclaim", "bind", "stamp", "run"} => status'[cur[e]] = "pending"
<1> USE DEF QueueInv, AttemptIsPending, HasRun, Exists, Deleted, TypeOK, TaskTypeOK,
            DispatchTypeOK
<1>1. CASE Keeps \/ Starts(d)
  BY <1>1 DEF Keeps, Starts
<1>2. CASE Ends
  BY <1>2 DEF Ends, ClaimIsRoutable
<1>3. CASE Runs(d)
  <2>1. sess[d] \in SessionId /\ owner[sess[d]] = cur[d] /\ cur[d] \in TaskId
    BY <1>3 DEF AuditInv, OwnsSession, Runs
  <2>2. ASSUME NEW e \in Dispatchers, pc[e] \in {"start", "unclaim"} PROVE cur[e] # cur[d]
    BY <2>1, <2>2 DEF ClaimInv, SessionIsFirst
  <2>3. ASSUME NEW e \in Dispatchers \ {d}, pc[e] \in {"bind", "stamp", "run"} PROVE cur[e] # cur[d]
    <3>1. sess[e] \in SessionId /\ owner[sess[e]] = cur[e] /\ cur[e] \in TaskId
      BY <2>3 DEF AuditInv, OwnsSession
    <3> QED
      BY <1>3, <2>1, <2>3, <3>1, TaskIdAssumption DEF ClaimInv, OneSessionPerTask,
             SessionsAreDistinct, Runs
  <2> QED
    BY <1>3, <2>1, <2>2, <2>3 DEF Runs
<1> QED
  BY <1>1, <1>2, <1>3

\* Each dispatcher has its own session.
LEMMA SessionsStayDistinct ==
    ASSUME TypeOK, AuditInv, QueueInv, NEW d \in Dispatchers, Dispatching(d) \/ DispatchingOnce(d)
    PROVE  SessionsAreDistinct' /\ OwnedIsUsed' /\ ClaimIsRoutable'
<1> USE StoreAssumption
    DEF QueueInv, SessionsAreDistinct, OwnedIsUsed, ClaimIsRoutable, AuditInv, OwnsSession,
        TypeOK, DispatchTypeOK, WorkspaceTypeOK, Steps,
        Goto, Leave, BackToQueue, Advance, AfterFailedAttempt, workspaceVars
<1>1. CASE ListPending(d) \/ RunReturns(d) \/ \E t \in TaskId : TakeCandidate(d, t) \/ RunOne(d, t)
  BY <1>1 DEF ListPending, RunReturns, TakeCandidate, RunOne
<1>2. CASE LockRow(d) \/ ClaimRow(d) \/ ReleaseRow(d) \/ UnclaimRow(d)
  BY <1>2 DEF LockRow, ClaimRow, ReleaseRow, UnclaimRow
<1>3. CASE BindSession(d) \/ StampStart(d) \/ MarkRunning(d) \/ RecordStart(d) \/ SendFails(d) \/ MarkFailed(d)
  BY <1>3 DEF BindSession, StampStart, MarkRunning, RecordStart, SendFails, MarkFailed
<1>4. CASE SendSucceeds(d)
  BY <1>4 DEF SendSucceeds, SendPrompt
<1>5. CASE StartReady(d) \/ StartNotReady(d)
  BY <1>5 DEF StartReady, StartNotReady, StartSession
<1>6. CASE MakeDirFails(d) \/ StartFails(d) \/ DispatcherCrashes(d)
  BY <1>6 DEF MakeDirFails, StartFails, DispatcherCrashes
<1> QED
  BY <1>1, <1>2, <1>3, <1>4, <1>5, <1>6
     DEF Dispatching, DispatchingOnce, DispatcherStep,
         DispatcherFault

\* The dispatcher that takes the step finds its row as the next one expects it.
LEMMA AttemptStaysPending ==
    ASSUME TypeOK, ClaimInv, AuditInv, QueueInv,
           NEW d \in Dispatchers, Dispatching(d) \/ DispatchingOnce(d)
    PROVE  AttemptIsPending'
<1> USE DEF QueueInv, AttemptIsPending, ClaimIsRoutable, HasRun, Exists, TypeOK,
            TaskTypeOK,
       DispatchTypeOK, Steps,
        Goto, Leave, BackToQueue, Advance, AfterFailedAttempt, taskVars
<1> DEFINE Fits(e) ==
        /\ pc[e] \in {"start", "unclaim", "bind", "stamp", "run"} => status[cur[e]] = "pending"
        /\ pc[e] \in {"record", "send"} => HasRun(cur[e])
        /\ pc[e] = "fail" => HasRun(cur[e]) \/ cur[e] \in Unroutable
<1>0. ASSUME NEW e \in Dispatchers \ {d} PROVE Fits(e)'
  <2>1. pc'[e] = pc[e] /\ cur'[e] = cur[e]
    BY <1>0
       DEF Dispatching, DispatchingOnce, DispatcherStep, DispatcherFault, ListPending,
           RunReturns, TakeCandidate,
       RunOne, LockRow, ClaimRow, ReleaseRow, StartReady, StartNotReady, UnclaimRow,
              BindSession, StampStart, MarkRunning,
       RecordStart, SendSucceeds, SendFails, MarkFailed, MakeDirFails, StartFails, DispatcherCrashes
  <2> QED
    BY <1>0, <2>1, StepOfDispatcher, RowsGoForward
<1>1. CASE ListPending(d) \/ RunReturns(d) \/ \E t \in TaskId : TakeCandidate(d, t) \/ RunOne(d, t)
  BY <1>1 DEF ListPending, RunReturns, TakeCandidate, RunOne
<1>2. CASE LockRow(d) \/ ReleaseRow(d) \/ UnclaimRow(d)
  BY <1>2
     DEF LockRow, ReleaseRow, UnclaimRow, AcquireLock, ReleaseLock, SetWorkspace,
         NoRow
<1>3. CASE ClaimRow(d)
  BY <1>3 DEF ClaimRow, ClaimWorkspace, Claimable, NoRow
<1>4. CASE StartReady(d) \/ StartNotReady(d)
  BY <1>4 DEF StartReady, StartNotReady
<1>5. CASE BindSession(d) \/ StampStart(d)
  BY <1>5 DEF BindSession, SetWorkspace, StampStart, SetStartedAt, NoRow
<1>6. CASE MarkRunning(d)
  BY <1>0, <1>6 DEF MarkRunning, UpdateStatus, NoRow
<1>7. CASE RecordStart(d) \/ SendSucceeds(d) \/ SendFails(d)
  BY <1>7 DEF RecordStart, SendSucceeds, SendFails
<1>8. CASE MarkFailed(d)
  BY <1>0, <1>8 DEF MarkFailed, MarkFailedWithReason, UpdateStatus, NoRow
<1>9. CASE MakeDirFails(d) \/ StartFails(d) \/ DispatcherCrashes(d)
  BY <1>9 DEF MakeDirFails, StartFails, DispatcherCrashes
<1> QED
  BY <1>1, <1>2, <1>3, <1>4, <1>5, <1>6, <1>7, <1>8, <1>9
     DEF Dispatching, DispatchingOnce,
         DispatcherStep, DispatcherFault

\* The steps of everybody else only settle rows that have run.
LEMMA OthersKeepQueue ==
    ASSUME NobodyEdits, TypeOK, QueueInv, OtherStep
    PROVE  QueueInv'
<1> USE DEF QueueInv
<1>1. UNCHANGED <<dispatchVars, owner>>
  BY OthersKeepSessions
<1>2. Keeps \/ Ends
  BY StepOfOthers
<1>3. \A t \in TaskId : Exists(t)' /\ (HasRun(t) => HasRun(t)') /\ (status[t] = "pending" /\ t \notin Unroutable => status'[t] = "pending")
  BY <1>2 DEF Keeps, Ends, Exists, HasRun, Deleted, TypeOK, TaskTypeOK
<1>4. AttemptIsPending'
  BY <1>1, <1>3
     DEF AttemptIsPending, ClaimIsRoutable, HasRun, dispatchVars, TypeOK,
         DispatchTypeOK
<1>5. ClaimIsRoutable' /\ SessionsAreDistinct'
  BY <1>1 DEF ClaimIsRoutable, SessionsAreDistinct, dispatchVars
<1>6. OwnedIsUsed'
  BY <1>1, OthersKeepSessions DEF OwnedIsUsed, TypeOK, WorkspaceTypeOK
<1>7. WatchedHasRun'
  <2>1. ASSUME NEW w \in Watchers, Watching(w) PROVE WatchedHasRun'
    BY <1>3, <2>1 DEF Watching, WatcherStep, WatchList, WatchReturns, ReadSentinel,
           WriteOutcome, WatchedHasRun,
       HasRun, RowsIn, TypeOK, CompletionTypeOK
  <2>2. CASE UNCHANGED completionVars
    BY <1>3, <2>2 DEF WatchedHasRun, completionVars, TypeOK, CompletionTypeOK
  <2> QED
    BY <2>1, <2>2
       DEF OtherStep, Working, Disappearing, Reaping, Cleaning, Operating, Requesting
<1> QED
  BY <1>3, <1>4, <1>5, <1>6, <1>7

\* Every step preserves the invariant.
LEMMA QueueInvStep ==
    ASSUME NobodyEdits, TypeOK, ClaimInv, AuditInv, QueueInv, [Next]_vars
    PROVE  QueueInv'
<1>1. ASSUME NEW d \in Dispatchers, Dispatching(d) \/ DispatchingOnce(d) PROVE QueueInv'
  <2>1. \A t \in TaskId : Exists(t)' /\ (HasRun(t) => HasRun(t)')
    BY <1>1, StepOfDispatcher, RowsGoForward
  <2>2. UNCHANGED completionVars
    BY <1>1 DEF Dispatching, DispatchingOnce
  <2>3. WatchedHasRun'
    BY <2>1, <2>2 DEF WatchedHasRun, completionVars, QueueInv, TypeOK, CompletionTypeOK
  <2> QED
    BY <1>1, <2>1, <2>3, AttemptStaysPending, SessionsStayDistinct DEF QueueInv
<1>2. CASE OtherStep
  BY <1>2, OthersKeepQueue
<1>3. CASE UNCHANGED vars
  BY <1>3
     DEF vars, taskVars, workspaceVars, dispatchVars, completionVars, QueueInv,
         Exists,
         AttemptIsPending, HasRun,
     ClaimIsRoutable, WatchedHasRun, SessionsAreDistinct, OwnedIsUsed
<1> QED
  BY <1>1, <1>2, <1>3 DEF Next, OtherStep

\* Starting a session assigns the row, an outcome settles it, and every other
\* statement is invisible to the abstract queue.
LEMMA StepRefines ==
    ASSUME NobodyEdits, TypeOK, ClaimInv, QueueInv, [Next]_vars
    PROVE  [Assignment!Next]_Assignment!vars
<1> USE DEF TypeOK, TaskTypeOK, WorkspaceTypeOK, DispatchTypeOK, RowsIn
<1> DEFINE Goal == [Assignment!Next]_Assignment!vars
<1>1. ASSUME Keeps PROVE Goal
  BY <1>1 DEF Keeps, Assignment!vars, Assigned, Settled
<1>2. ASSUME NEW d \in Dispatchers, Runs(d) PROVE Goal
  <2>1. cur[d] \in TaskId /\ status[cur[d]] = "pending"
    BY <1>2 DEF Runs, QueueInv, AttemptIsPending
  <2> QED
    BY <1>2, <2>1 DEF Runs, Assignment!vars, Assigned, Settled
<1>3. ASSUME Ends PROVE Goal
  <2> PICK t \in TaskId, s \in {"done", "failed"} : status' = [status EXCEPT ![t] = s]
    BY <1>3 DEF Ends
  <2>1. Assigned' = Assigned
    BY <1>3 DEF Ends, Assigned
  <2>2. Settled' = Settled \cup {t}
    BY DEF Settled
  <2> QED
    BY <2>1, <2>2 DEF Assignment!Next, Assignment!Settle
<1>4. ASSUME NEW d \in Dispatchers, Starts(d) PROVE Goal
  <2> PICK s \in SessionId : session[s] = "unused" /\ owner' = [owner EXCEPT ![s] = cur[d]]
    BY <1>4 DEF Starts
  <2>1. pc[d] = "start" /\ cur[d] \in TaskId /\ status[cur[d]] = "pending" /\ UNCHANGED status
    BY <1>4 DEF Starts, QueueInv, AttemptIsPending
  <2>2. Assigned[cur[d]] = {}
    BY <2>1 DEF Assigned, ClaimInv, SessionIsFirst
  <2>3. \A u \in TaskId : s \notin Assigned[u]
    BY TaskIdAssumption DEF Assigned, QueueInv, OwnedIsUsed
  <2>4. Assigned' = [Assigned EXCEPT ![cur[d]] = {s}]
    <3>1. ASSUME NEW t \in TaskId PROVE Assigned'[t] = IF t = cur[d] THEN {s} ELSE Assigned[t]
      BY <2>1, <2>2, <2>3 DEF Assigned
    <3>2. /\ Assigned' = [t \in TaskId |-> Assigned'[t]]
          /\ Assigned = [t \in TaskId |-> Assigned[t]]
      BY DEF Assigned
    <3> QED
      BY <3>1, <3>2
  <2>5. cur[d] \notin Settled /\ Settled' = Settled
    BY <2>1 DEF Settled
  <2> QED
    BY <2>1, <2>2, <2>3, <2>4, <2>5 DEF Assignment!Next, Assignment!Assign
<1>5. ASSUME NEW d \in Dispatchers, Dispatching(d) \/ DispatchingOnce(d) PROVE Goal
  BY <1>1, <1>2, <1>3, <1>4, <1>5, StepOfDispatcher
<1>6. CASE OtherStep
  BY <1>1, <1>3, <1>6, StepOfOthers
<1>7. CASE UNCHANGED vars
  BY <1>1, <1>7 DEF vars, taskVars, workspaceVars, Keeps
<1> QED
  BY <1>5, <1>6, <1>7 DEF Next, OtherStep

\* A queue nobody edits implements the abstract one, for any number of rows,
\* dispatchers, watchers and reapers, whatever fails and wherever they crash:
\* a task is given to one session at most, before it has an outcome, and
\* never again.
THEOREM QueueImplementsAssignment ==
    ASSUME NobodyEdits
    PROVE  Spec => ImplementsAssignment
<1> DEFINE AllInv == ClaimInv /\ AuditInv /\ QueueInv
<1>1. Init => AllInv /\ Assignment!Init
  <2> SUFFICES ASSUME Init PROVE AllInv /\ Assignment!Init
    OBVIOUS
  <2> USE StoreAssumption, TaskIdAssumption
          DEF Init, TaskInit, WorkspaceInit, DispatchInit,
         CompletionInit, TaskOpsInit
  <2>1. ClaimInv /\ AuditInv /\ OwnedIsUsed
    BY StartsBound DEF BoundInv
  <2>2. QueueInv
    BY <2>1
       DEF QueueInv, Exists, Deleted, AttemptIsPending, ClaimIsRoutable,
           WatchedHasRun,
           SessionsAreDistinct
  <2>3. Assignment!Init
    BY DEF Assignment!Init, Assigned, Settled, RowsIn
  <2> QED
    BY <2>1, <2>2, <2>3
<1>2. NobodyUnbinds
  BY DEF NobodyEdits, NobodyUnbinds
<1>3. TypeOK /\ AllInv /\ [Next]_vars => AllInv' /\ [Assignment!Next]_Assignment!vars
  BY <1>2, ClaimInvStep, AuditInvStep, QueueInvStep, StepRefines
<1> QED
  BY <1>1, <1>3, TypeCorrect, PTL DEF Spec, ImplementsAssignment, Assignment!Spec
=============================================================================
