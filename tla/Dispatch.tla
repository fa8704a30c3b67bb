------------------------------ MODULE Dispatch -------------------------------
(***************************************************************************)
(* internal/dispatch: Dispatcher.Run and dispatchOne, one step per access   *)
(* to the tasks table, to the backend or to audit.log.  Every dispatcher is *)
(* a process of its own.  A scanner runs over the pending rows (the loop's  *)
(* ticks, `marunage dispatch`), a requester dispatches one row by its id    *)
(* (`marunage dispatch <id>`, the web server's button).  Nothing but the    *)
(* table coordinates them.                                                  *)
(*                                                                         *)
(* Candidates are taken in any order; the order of the list and its LIMIT   *)
(* of 4 * MaxParallel are in Ordering.                                      *)
(***************************************************************************)
EXTENDS Workspaces

CONSTANTS
    Scanners,     \* processes that call Dispatcher.Run without an id
    Requesters,   \* processes that call it with one
    MaxParallel,  \* rows one Run may dispatch (execution.max_parallel)
    Unroutable    \* rows whose cwd or notes dispatchOne rejects

Dispatchers == Scanners \cup Requesters

ASSUME DispatchAssumption ==
    /\ MaxParallel \in Nat \ {0}
    /\ Unroutable \subseteq TaskId

VARIABLES
    pc,     \* pc[d]: the step of dispatchOne dispatcher d is about to take
    queue,  \* queue[d]: candidates of its snapshot not yet tried
    left,   \* left[d]: how many more rows this Run may dispatch
    cur,    \* cur[d]: the row being dispatched
    sess,   \* sess[d]: the session Start returned for it, or NULL
    audit   \* the dispatch.start records of audit.log: <<row, session>>

dispatchVars == <<pc, queue, left, cur, sess, audit>>

Steps == {"idle", "next", "lock", "claim", "start", "unclaim", "release",
          "bind", "stamp", "run", "record", "send", "fail"}

DispatchTypeOK ==
    /\ pc \in [Dispatchers -> Steps]
    /\ queue \in [Dispatchers -> SUBSET TaskId]
    /\ left \in [Dispatchers -> 0..MaxParallel]
    /\ cur \in [Dispatchers -> TaskId \cup {NULL}]
    /\ sess \in [Dispatchers -> SessionId \cup {NULL}]
    /\ audit \subseteq TaskId \X SessionId
    /\ \A d \in Dispatchers :
           pc[d] \notin {"idle", "next"} => cur[d] \in TaskId /\ left[d] > 0
    /\ \A d \in Dispatchers :
           pc[d] \in {"bind", "stamp", "run", "record", "send"} => sess[d] \in SessionId

DispatchInit ==
    /\ pc = [d \in Dispatchers |-> "idle"]
    /\ queue = [d \in Dispatchers |-> {}]
    /\ left = [d \in Dispatchers |-> 0]
    /\ cur = [d \in Dispatchers |-> NULL]
    /\ sess = [d \in Dispatchers |-> NULL]
    /\ audit = {}

Goto(d, step) == pc' = [pc EXCEPT ![d] = step]

\* Run returns, or its process dies: nothing local survives.
Leave(d) ==
    /\ Goto(d, "idle")
    /\ queue' = [queue EXCEPT ![d] = {}]
    /\ left' = [left EXCEPT ![d] = 0]
    /\ cur' = [cur EXCEPT ![d] = NULL]
    /\ sess' = [sess EXCEPT ![d] = NULL]
    /\ UNCHANGED audit

\* dispatchOne returns to Run's loop; n says how much budget it used.
BackToQueue(d, n) ==
    /\ Goto(d, "next")
    /\ left' = [left EXCEPT ![d] = @ - n]
    /\ cur' = [cur EXCEPT ![d] = NULL]
    /\ sess' = [sess EXCEPT ![d] = NULL]
    /\ UNCHANGED <<queue, audit>>

Advance(d, step) == Goto(d, step) /\ UNCHANGED <<queue, left, cur, sess, audit>>

HasLock(t) == LockKeyOf[t] # NULL

\* Where a failed attempt continues: ReleaseLock only if a key was taken.
AfterFailedAttempt(d) ==
    IF HasLock(cur[d]) THEN Advance(d, "release") ELSE BackToQueue(d, 0)

-----------------------------------------------------------------------------
\* Run without an id: a snapshot of the pending rows.
ListPending(d) ==
    /\ d \in Scanners
    /\ pc[d] = "idle"
    /\ Goto(d, "next")
    /\ queue' = [queue EXCEPT ![d] = RowsIn("pending")]
    /\ left' = [left EXCEPT ![d] = MaxParallel]
    /\ UNCHANGED <<cur, sess, audit, taskVars, workspaceVars>>

\* Run with an id: that row alone, read once and found pending.
RunOne(d, t) ==
    /\ d \in Requesters
    /\ pc[d] = "idle"
    /\ status[t] = "pending"
    /\ Goto(d, "next")
    /\ queue' = [queue EXCEPT ![d] = {t}]
    /\ left' = [left EXCEPT ![d] = 1]
    /\ UNCHANGED <<cur, sess, audit, taskVars, workspaceVars>>

RunReturns(d) ==
    /\ pc[d] = "next"
    /\ queue[d] = {} \/ left[d] = 0
    /\ Leave(d)
    /\ UNCHANGED <<taskVars, workspaceVars>>

\* dispatchOne begins: cwd and lock key are resolved from the snapshot.
TakeCandidate(d, t) ==
    /\ pc[d] = "next" /\ left[d] > 0 /\ t \in queue[d]
    /\ Goto(d, CASE t \in Unroutable -> "fail"
                 [] t \notin Unroutable /\ HasLock(t) -> "lock"
                 [] OTHER -> "claim")
    /\ queue' = [queue EXCEPT ![d] = @ \ {t}]
    /\ cur' = [cur EXCEPT ![d] = t]
    /\ UNCHANGED <<left, sess, audit, taskVars, workspaceVars>>

LockRow(d) ==
    /\ pc[d] = "lock"
    /\ \/ AcquireLock(cur[d], LockKeyOf[cur[d]]) /\ Advance(d, "claim")
       \/ \* ErrLockHeld: the row stays pending for a later Run
          /\ Exists(cur[d]) /\ LockConflicts(cur[d], LockKeyOf[cur[d]]) # {}
          /\ BackToQueue(d, 0)
          /\ UNCHANGED taskVars
       \/ NoRow(cur[d]) /\ Leave(d)
    /\ UNCHANGED workspaceVars

\* MkdirAll or Chmod of the control directory fails.  Success changes
\* nothing here: a .exit_code of an earlier run stays where it is.
MakeDirFails(d) ==
    /\ "mkdir" \in Faults
    /\ pc[d] = "claim"
    /\ AfterFailedAttempt(d)
    /\ UNCHANGED <<taskVars, workspaceVars>>

ClaimRow(d) ==
    /\ pc[d] = "claim"
    /\ \/ ClaimWorkspace(cur[d], Claim) /\ Advance(d, "start")
       \/ \* claimed = false
          /\ Exists(cur[d]) /\ ~Claimable(cur[d])
          /\ AfterFailedAttempt(d)
          /\ UNCHANGED taskVars
       \/ NoRow(cur[d]) /\ Leave(d)
    /\ UNCHANGED workspaceVars

ReleaseRow(d) ==
    /\ pc[d] = "release"
    /\ ReleaseLock(cur[d]) \/ NoRow(cur[d])
    /\ BackToQueue(d, 0)
    /\ UNCHANGED workspaceVars

\* Mutant: SetWorkspace is skipped, the row keeps the claim.
StartReadyUnbound(d) ==
    /\ pc[d] = "start"
    /\ \E s \in SessionId :
           /\ StartSession(s, cur[d], "ready")
           /\ sess' = [sess EXCEPT ![d] = s]
    /\ Goto(d, "stamp")
    /\ UNCHANGED <<queue, left, cur, audit, taskVars>>

StartReady(d) ==
    /\ pc[d] = "start"
    /\ \E s \in SessionId :
           /\ StartSession(s, cur[d], "ready")
           /\ sess' = [sess EXCEPT ![d] = s]
    /\ Goto(d, "bind")
    /\ UNCHANGED <<queue, left, cur, audit, taskVars>>

\* Mutant: any error of Start is taken for "nothing was created".
StartNotReadyRetried(d) ==
    /\ "not_ready" \in Faults
    /\ pc[d] = "start"
    /\ \E s \in SessionId :
           /\ StartSession(s, cur[d], "unready")
           /\ sess' = [sess EXCEPT ![d] = s]
    /\ Goto(d, "unclaim")
    /\ UNCHANGED <<queue, left, cur, audit, taskVars>>

\* Start returns an error and a session: created, never ready.
StartNotReady(d) ==
    /\ "not_ready" \in Faults
    /\ pc[d] = "start"
    /\ \E s \in SessionId :
           /\ StartSession(s, cur[d], "unready")
           /\ sess' = [sess EXCEPT ![d] = s]
    /\ Goto(d, "bind")
    /\ UNCHANGED <<queue, left, cur, audit, taskVars>>

\* Mutant: a failed Start leaves its claim behind.
StartFailsKeepingClaim(d) ==
    /\ "start" \in Faults
    /\ pc[d] = "start"
    /\ AfterFailedAttempt(d)
    /\ UNCHANGED <<taskVars, workspaceVars>>

\* Start returns an error and no session.
StartFails(d) ==
    /\ "start" \in Faults
    /\ pc[d] = "start"
    /\ Advance(d, "unclaim")
    /\ UNCHANGED <<taskVars, workspaceVars>>

\* The error of SetWorkspace is discarded: the row then keeps the claim.
UnclaimRow(d) ==
    /\ pc[d] = "unclaim"
    /\ \/ SetWorkspace(cur[d], NULL) \/ NoRow(cur[d])
       \/ "unclaim" \in Faults /\ UNCHANGED taskVars
    /\ AfterFailedAttempt(d)
    /\ UNCHANGED workspaceVars

\* Mutant: the row runs before it is stamped.
BindSessionUnstamped(d) ==
    /\ pc[d] = "bind"
    /\ \/ SetWorkspace(cur[d], sess[d]) /\ Advance(d, "run")
       \/ NoRow(cur[d]) /\ Leave(d)
    /\ UNCHANGED workspaceVars

\* From here on a missing row aborts the whole Run and leaks the session.
BindSession(d) ==
    /\ pc[d] = "bind"
    /\ \/ SetWorkspace(cur[d], sess[d]) /\ Advance(d, "stamp")
       \/ NoRow(cur[d]) /\ Leave(d)
    /\ UNCHANGED workspaceVars

StampStart(d) ==
    /\ pc[d] = "stamp"
    /\ \/ SetStartedAt(cur[d]) /\ Advance(d, "run")
       \/ NoRow(cur[d]) /\ Leave(d)
    /\ UNCHANGED workspaceVars

\* Mutant: the prompt is sent without a dispatch.start record.
MarkRunningUnaudited(d) ==
    /\ pc[d] = "run"
    /\ \/ UpdateStatus(cur[d], "running") /\ Advance(d, "send")
       \/ NoRow(cur[d]) /\ Leave(d)
    /\ UNCHANGED workspaceVars

\* Unguarded: whatever the status has become, it is running now.
MarkRunning(d) ==
    /\ pc[d] = "run"
    /\ \/ UpdateStatus(cur[d], "running") /\ Advance(d, "record")
       \/ NoRow(cur[d]) /\ Leave(d)
    /\ UNCHANGED workspaceVars

\* Mutant: the budget is charged here and again when the row is finished.
RecordStartCharged(d) ==
    /\ pc[d] = "record"
    /\ audit' = audit \cup {<<cur[d], sess[d]>>}
    /\ Goto(d, IF session[sess[d]] = "unready" THEN "fail" ELSE "send")
    /\ left' = [left EXCEPT ![d] = @ - 1]
    /\ UNCHANGED <<queue, cur, sess, taskVars, workspaceVars>>

\* recordAuditStart; then dispatchOne looks at Start's error, which is the
\* unready session's.  (One that disappeared meanwhile fails in Send: the
\* row ends up failed either way.)
RecordStart(d) ==
    /\ pc[d] = "record"
    /\ audit' = audit \cup {<<cur[d], sess[d]>>}
    /\ Goto(d, IF session[sess[d]] = "unready" THEN "fail" ELSE "send")
    /\ UNCHANGED <<queue, left, cur, sess, taskVars, workspaceVars>>

\* Mutant: the lock is given back as soon as the prompt is sent.
SendSucceedsUnlocking(d) ==
    /\ pc[d] = "send"
    /\ SendPrompt(sess[d])
    /\ lock_key' = [lock_key EXCEPT ![cur[d]] = NULL]
    /\ BackToQueue(d, 1)
    /\ UNCHANGED <<status, ws, started_at>>

SendSucceeds(d) ==
    /\ pc[d] = "send"
    /\ SendPrompt(sess[d])
    /\ BackToQueue(d, 1)
    /\ UNCHANGED taskVars

SendFails(d) ==
    /\ pc[d] = "send"
    /\ "send" \in Faults \/ session[sess[d]] # "ready"
    /\ Advance(d, "fail")
    /\ UNCHANGED <<taskVars, workspaceVars>>

\* markFailed: its error is swallowed.  The row counts against MaxParallel
\* only if a session was created for it.
MarkFailed(d) ==
    /\ pc[d] = "fail"
    /\ MarkFailedWithReason(cur[d]) \/ NoRow(cur[d])
    /\ BackToQueue(d, IF sess[d] = NULL THEN 0 ELSE 1)
    /\ UNCHANGED workspaceVars

\* The process is killed between two statements, or its context is cancelled
\* (SIGTERM, the HTTP client hangs up): then every later statement fails too.
DispatcherCrashes(d) ==
    /\ "crash" \in Faults
    /\ pc[d] # "idle"
    /\ Leave(d)
    /\ UNCHANGED <<taskVars, workspaceVars>>

-----------------------------------------------------------------------------
\* The steps a running dispatcher takes by itself.
DispatcherStep(d) ==
    \/ ListPending(d) \/ RunReturns(d)
    \/ \E t \in TaskId : TakeCandidate(d, t)
    \/ LockRow(d) \/ ClaimRow(d) \/ ReleaseRow(d)
    \/ StartReady(d) \/ UnclaimRow(d)
    \/ BindSession(d) \/ StampStart(d) \/ MarkRunning(d)
    \/ RecordStart(d) \/ SendSucceeds(d) \/ SendFails(d) \/ MarkFailed(d)

DispatcherFault(d) ==
    \/ MakeDirFails(d) \/ StartNotReady(d) \/ StartFails(d) \/ DispatcherCrashes(d)
=============================================================================
