----------------------------- MODULE Completion ------------------------------
(***************************************************************************)
(* internal/completion: the Watcher's Tick.  It lists the running rows once *)
(* and then, row by row, reads workspaces/<id>/.exit_code and writes the    *)
(* outcome, without looking at the row again.  Only `marunage web` runs it. *)
(***************************************************************************)
EXTENDS Workspaces

CONSTANT Watchers    \* processes that run a Watcher

VARIABLES
    wpc,     \* wpc[w]: the step of watcher w
    wqueue,  \* wqueue[w]: rows of its snapshot not yet checked
    wcur     \* wcur[w]: the row whose sentinel it has just read

completionVars == <<wpc, wqueue, wcur>>

CompletionTypeOK ==
    /\ wpc \in [Watchers -> {"idle", "check", "done", "failed"}]
    /\ wqueue \in [Watchers -> SUBSET TaskId]
    /\ wcur \in [Watchers -> TaskId \cup {NULL}]
    /\ \A w \in Watchers : wpc[w] \in {"done", "failed"} => wcur[w] \in TaskId

CompletionInit ==
    /\ wpc = [w \in Watchers |-> "idle"]
    /\ wqueue = [w \in Watchers |-> {}]
    /\ wcur = [w \in Watchers |-> NULL]

\* Tick: snapshot of the running rows.
WatchList(w) ==
    /\ wpc[w] = "idle"
    /\ wqueue' = [wqueue EXCEPT ![w] = RowsIn("running")]
    /\ wpc' = [wpc EXCEPT ![w] = "check"]
    /\ UNCHANGED <<wcur, taskVars, workspaceVars>>

WatchReturns(w) ==
    /\ wpc[w] = "check" /\ wqueue[w] = {}
    /\ wpc' = [wpc EXCEPT ![w] = "idle"]
    /\ UNCHANGED <<wqueue, wcur, taskVars, workspaceVars>>

\* checkOne reads the sentinel; an absent one leaves the row alone.  A file
\* that is malformed, too large or a symlink counts as a failure: "nonzero".
ReadSentinel(w, t) ==
    /\ wpc[w] = "check" /\ t \in wqueue[w]
    /\ wqueue' = [wqueue EXCEPT ![w] = @ \ {t}]
    /\ \/ sentinel[t] = "absent" /\ UNCHANGED <<wpc, wcur>>
       \/ /\ sentinel[t] # "absent"
          /\ wpc' = [wpc EXCEPT ![w] = IF sentinel[t] = "zero" THEN "done" ELSE "failed"]
          /\ wcur' = [wcur EXCEPT ![w] = t]
    /\ UNCHANGED <<taskVars, workspaceVars>>

\* MarkDoneWithSummary or markFailed; an error is only audited.
WriteOutcome(w) ==
    /\ \/ wpc[w] = "done" /\ MarkDoneWithSummary(wcur[w])
       \/ wpc[w] = "failed" /\ MarkFailedWithReason(wcur[w])
       \/ wpc[w] \in {"done", "failed"} /\ NoRow(wcur[w])
    /\ wpc' = [wpc EXCEPT ![w] = "check"]
    /\ wcur' = [wcur EXCEPT ![w] = NULL]
    /\ UNCHANGED <<wqueue, workspaceVars>>

WatcherStep(w) ==
    \/ WatchList(w) \/ WatchReturns(w)
    \/ \E t \in TaskId : ReadSentinel(w, t)
    \/ WriteOutcome(w)
=============================================================================
