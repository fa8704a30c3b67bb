------------------------------ MODULE TaskStore ------------------------------
(***************************************************************************)
(* The tasks table of internal/store: one function per column, one action  *)
(* per SQL statement of TaskRepo.  SQLite runs each statement atomically    *)
(* across processes, so a statement is one step; whatever a caller does     *)
(* between two statements can interleave with every other process.          *)
(*                                                                         *)
(* Columns that no property here tells apart (title, body, judgment_reason, *)
(* priority, the plan columns, the timestamps other than started_at) are    *)
(* left out.  A row of this table is always one the dispatcher may list:    *)
(* plan_label is NULL or 'ready'.                                           *)
(***************************************************************************)
EXTENDS Naturals, FiniteSets

CONSTANTS
    TaskId,           \* ids of the rows that exist at the start; never reused
    SessionId,        \* ids an execution backend can return from Start
    LockKey,          \* lock keys a row's notes can resolve to
    LockKeyOf,        \* row -> the key ResolveLockKey derives from its notes
    InitialStatuses   \* the statuses discovery may have left a row in

NULL     == ""                  \* an empty column: SQL NULL, "" in Go
Claim    == "__dispatching__"   \* dispatchClaimSentinel
Deleted  == "deleted"           \* the row is gone

ValidStatuses ==
    {"pending", "running", "done", "failed", "skipped", "waiting_human"}

ASSUME StoreAssumption ==
    /\ {NULL, Claim} \cap SessionId = {}
    /\ NULL \notin LockKey
    /\ LockKeyOf \in [TaskId -> LockKey \cup {NULL}]
    /\ InitialStatuses \subseteq {"pending", "skipped", "waiting_human"}

VARIABLES
    status,      \* status[t]: the status column, or Deleted
    lock_key,    \* lock_key[t]: the soft lock the row holds
    ws,          \* ws[t]: the session the row is bound to, or the claim
    started_at   \* started_at[t]: whether the column has been stamped

taskVars == <<status, lock_key, ws, started_at>>

TaskTypeOK ==
    /\ status \in [TaskId -> ValidStatuses \cup {Deleted}]
    /\ lock_key \in [TaskId -> LockKey \cup {NULL}]
    /\ ws \in [TaskId -> SessionId \cup {NULL, Claim}]
    /\ started_at \in [TaskId -> BOOLEAN]

\* A freshly discovered table: no row has been claimed or locked yet.
TaskInit ==
    /\ status \in [TaskId -> InitialStatuses]
    /\ lock_key = [t \in TaskId |-> NULL]
    /\ ws = [t \in TaskId |-> NULL]
    /\ started_at = [t \in TaskId |-> FALSE]

Exists(t) == status[t] # Deleted

\* Rows a List with a one-status filter returns.
RowsIn(s) == {t \in TaskId : status[t] = s}

-----------------------------------------------------------------------------
\* Each statement below is enabled exactly when it affects a row; NoRow is
\* the other outcome, RowsAffected = 0, where the caller gets ErrNotFound.

NoRow(t) == ~Exists(t) /\ UNCHANGED taskVars

UpdateStatus(t, s) ==
    /\ Exists(t)
    /\ status' = [status EXCEPT ![t] = s]
    /\ UNCHANGED <<lock_key, ws, started_at>>

\* Mutant: without `id != ?` a row that still carries the key blocks itself.
LockConflictsWithSelf(t, k) ==
    {o \in TaskId : lock_key[o] = k /\ status[o] \in {"pending", "running"}}

\* Mutant: a holder counts whatever its status.
LockConflictsAnyStatus(t, k) ==
    {o \in TaskId \ {t} : lock_key[o] = k}

\* Rows other than t that make AcquireLock's NOT EXISTS fail.
LockConflicts(t, k) ==
    {o \in TaskId \ {t} : lock_key[o] = k /\ status[o] \in {"pending", "running"}}

\* There is no guard on the row's own status, and a second call of the same
\* row succeeds again.
AcquireLock(t, k) ==
    /\ Exists(t)
    /\ LockConflicts(t, k) = {}
    /\ lock_key' = [lock_key EXCEPT ![t] = k]
    /\ UNCHANGED <<status, ws, started_at>>

ReleaseLock(t) ==
    /\ Exists(t)
    /\ lock_key' = [lock_key EXCEPT ![t] = NULL]
    /\ UNCHANGED <<status, ws, started_at>>

\* Mutant: a pending row is claimed over an earlier claim.
ClaimablePending(t) == status[t] = "pending"

Claimable(t) == status[t] = "pending" /\ ws[t] = NULL

ClaimWorkspace(t, w) ==
    /\ Claimable(t)
    /\ ws' = [ws EXCEPT ![t] = w]
    /\ UNCHANGED <<status, lock_key, started_at>>

SetWorkspace(t, w) ==
    /\ Exists(t)
    /\ ws' = [ws EXCEPT ![t] = w]
    /\ UNCHANGED <<status, lock_key, started_at>>

SetStartedAt(t) ==
    /\ Exists(t)
    /\ started_at' = [started_at EXCEPT ![t] = TRUE]
    /\ UNCHANGED <<status, lock_key, ws>>

\* Deliberately unguarded in the source: any status is overwritten.
MarkDoneWithSummary(t) == UpdateStatus(t, "done")

MarkFailedWithReason(t) == UpdateStatus(t, "failed")

\* Mutant: a vanished row is put back into the queue instead of failed.
RequeueFromRunning(t) ==
    /\ status[t] = "running"
    /\ status' = [status EXCEPT ![t] = "pending"]
    /\ ws' = [ws EXCEPT ![t] = NULL]
    /\ UNCHANGED <<lock_key, started_at>>

\* The guarded variant the reaper uses.
MarkFailedFromRunningWithReason(t) ==
    /\ status[t] = "running"
    /\ UpdateStatus(t, "failed")

Delete(t) ==
    /\ Exists(t)
    /\ status' = [status EXCEPT ![t] = Deleted]
    /\ lock_key' = [lock_key EXCEPT ![t] = NULL]
    /\ ws' = [ws EXCEPT ![t] = NULL]
    /\ started_at' = [started_at EXCEPT ![t] = FALSE]

\* The CLI's policy matrix, read before the unguarded UpdateStatus.
allowedTransitions ==
    [s \in ValidStatuses |->
        CASE s \in {"pending", "running", "waiting_human"} -> {"done", "failed"}
          [] s \in {"done", "failed", "skipped"} -> {"pending"}]
=============================================================================
