------------------------------ MODULE Marunage -------------------------------
(***************************************************************************)
(* The Act phase as one system: dispatchers, Claude sessions, completion    *)
(* watchers, reapers, `clean` and the operator, all meeting in the tasks    *)
(* table.  Which of them take part is a matter of the constants: an empty   *)
(* set of Operators, say, is a queue nobody edits.                          *)
(***************************************************************************)
EXTENDS Dispatch, Completion, Reaper, TaskOps

vars == <<taskVars, workspaceVars, dispatchVars, completionVars,
          reaperVars, cleanVars, operatorVars>>

TypeOK ==
    /\ TaskTypeOK /\ WorkspaceTypeOK /\ DispatchTypeOK
    /\ CompletionTypeOK /\ ReaperTypeOK /\ TaskOpsTypeOK

Init ==
    /\ TaskInit /\ WorkspaceInit /\ DispatchInit
    /\ CompletionInit /\ ReaperInit /\ TaskOpsInit

-----------------------------------------------------------------------------
Dispatching(d) ==
    /\ DispatcherStep(d)
    /\ UNCHANGED <<completionVars, reaperVars, cleanVars, operatorVars>>

Starting(d) ==
    /\ StartReady(d)
    /\ UNCHANGED <<completionVars, reaperVars, cleanVars, operatorVars>>

\* A fault, or a request for one row: nothing makes these happen.
DispatchingOnce(d) ==
    /\ DispatcherFault(d) \/ \E t \in TaskId : RunOne(d, t)
    /\ UNCHANGED <<completionVars, reaperVars, cleanVars, operatorVars>>

Working(s) ==
    /\ SessionReports(s)
    /\ UNCHANGED <<taskVars, dispatchVars, completionVars, reaperVars, cleanVars, operatorVars>>

Disappearing(s) ==
    /\ SessionDisappears(s)
    /\ UNCHANGED <<taskVars, dispatchVars, completionVars, reaperVars, cleanVars, operatorVars>>

Watching(w) ==
    /\ WatcherStep(w)
    /\ UNCHANGED <<dispatchVars, reaperVars, cleanVars, operatorVars>>

Reaping(r) ==
    /\ ReaperStep(r)
    /\ UNCHANGED <<dispatchVars, completionVars, operatorVars>>

Cleaning(c) ==
    /\ CleanerStep(c)
    /\ UNCHANGED <<dispatchVars, completionVars, operatorVars>>

Operating(o) ==
    /\ OperatorStep(o)
    /\ UNCHANGED <<dispatchVars, completionVars, reaperVars, cleanVars>>

Requesting ==
    /\ OperatorRequest
    /\ UNCHANGED <<dispatchVars, completionVars, reaperVars, cleanVars>>

Next ==
    \/ \E d \in Dispatchers : Dispatching(d) \/ DispatchingOnce(d)
    \/ \E s \in SessionId : Working(s) \/ Disappearing(s)
    \/ \E w \in Watchers : Watching(w)
    \/ \E r \in Reapers : Reaping(r)
    \/ \E c \in Cleaners : Cleaning(c)
    \/ \E o \in Operators : Operating(o)
    \/ Requesting

Spec == Init /\ [][Next]_vars

\* The loop ticks for ever, the web server's watcher polls for ever, every
\* tick ends with the reaper, a CLI invocation runs to its end, a prompted
\* session reports unless it disappears, and Start does not fail for ever.
FairSpec ==
    /\ Spec
    /\ \A d \in Dispatchers : WF_vars(Dispatching(d)) /\ SF_vars(Starting(d))
    /\ \A s \in SessionId : WF_vars(Working(s))
    /\ \A w \in Watchers : WF_vars(Watching(w))
    /\ \A r \in Reapers : WF_vars(Reaping(r))
    /\ \A o \in Operators : WF_vars(Operating(o))

-----------------------------------------------------------------------------
\* "1 task = 1 workspace = 1 interactive Claude session": no row ever gets a
\* second session, whatever other dispatchers race for it and crash.
OneSessionPerTask ==
    \A s1, s2 \in SessionId : owner[s1] = owner[s2] /\ owner[s1] # NULL => s1 = s2

\* No session is lost from sight: while one lives its row names it, or still
\* carries the claim of the dispatcher that died before it could, so that
\* nobody starts the row a second time beside it.
SessionIsKnown ==
    \A s \in LiveSessions : Exists(owner[s]) => ws[owner[s]] \in {s, Claim}

\* Rows with the same lock key run one after the other.
SameKeyIsSequential ==
    \A t1, t2 \in RowsIn("running") :
        HasLock(t1) /\ LockKeyOf[t1] = LockKeyOf[t2] => t1 = t2

\* status=running implies started_at stamped: otherwise the reaper's probe
\* for stuck rows would never see the row.
RunningIsStamped == \A t \in RowsIn("running") : started_at[t]

\* A running row names the session that was started for it; the reaper never
\* looks at one that names none.
RunningIsBound ==
    \A t \in RowsIn("running") : ws[t] \in SessionId /\ owner[ws[t]] = t

\* No silent run: a session only has a prompt once audit.log has its
\* dispatch.start.
PromptIsAudited ==
    \A s \in SessionId : session[s] \in {"working", "reported"} => <<owner[s], s>> \in audit

\* Nothing starts off the record: the row has its start time before it is
\* running, and audit.log has the start before the session has its prompt.
StartIsRecorded == RunningIsStamped /\ PromptIsAudited

\* While no dispatcher dies or fails to take a claim back, a claimed row is one
\* that a dispatcher is working on, so that no row stays claimed for ever.
ClaimHasDispatcher ==
    \A t \in TaskId : ws[t] = Claim =>
        \E d \in Dispatchers : cur[d] = t /\ pc[d] \in {"start", "unclaim", "bind"}

\* Reaper r fails row t in this step.
Reaps(r, t) ==
    /\ rpc[r] = "judge" /\ rrows'[r] # rrows[r]
    /\ status[t] = "running" /\ status'[t] = "failed"

\* The sweep never fails a row whose session is alive.
ReaperSparesLive ==
    [][\A r \in Reapers, t \in TaskId : Reaps(r, t) => ws[t] \notin LiveSessions]_vars

\* Every pending row is dispatched and gets an outcome, and so does every
\* running one whatever becomes of its session.
EveryTaskSettles ==
    \A t \in TaskId :
        status[t] \in {"pending", "running"} ~> status[t] \in {"done", "failed"}

\* The queue cannot block itself: when nothing runs and no dispatcher is at
\* work, some pending row could take its lock.
SomeRowCanRun ==
    LET waiting == RowsIn("pending")
        free(t) == HasLock(t) => LockConflicts(t, LockKeyOf[t]) = {}
    IN  (RowsIn("running") = {} /\ waiting # {} /\ \A d \in Dispatchers : pc[d] = "idle")
            => \E t \in waiting : free(t)

\* The abstract queue: who works for whom, and which rows have an outcome.
Assigned == [t \in TaskId |-> {s \in SessionId : owner[s] = t}]

Settled == RowsIn("done") \cup RowsIn("failed")

Assignment ==
    INSTANCE TaskAssignment WITH
        Task <- TaskId, Agent <- SessionId, assigned <- Assigned, settled <- Settled

ImplementsAssignment == Assignment!Spec
=============================================================================
