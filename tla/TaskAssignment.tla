--------------------------- MODULE TaskAssignment ----------------------------
(***************************************************************************)
(* What the dispatcher, the completion watcher and the reaper promise       *)
(* together about a queue nobody edits by hand: a task is given to at most  *)
(* one session, ever, however many dispatchers compete for it and wherever  *)
(* they crash; a session works for one task; and once a task is settled it  *)
(* is never given out again.                                                *)
(***************************************************************************)
CONSTANTS Task, Agent

VARIABLES
    assigned,  \* assigned[t]: the sessions task t was given to, at most one
    settled    \* the tasks with an outcome

vars == <<assigned, settled>>

Init ==
    /\ assigned = [t \in Task |-> {}]
    /\ settled = {}

\* A session nobody works for is given an open task.
Assign(t, a) ==
    /\ assigned[t] = {} /\ t \notin settled
    /\ \A u \in Task : a \notin assigned[u]
    /\ assigned' = [assigned EXCEPT ![t] = {a}]
    /\ UNCHANGED settled

\* The task gets its outcome, with or without a session.
Settle(t) ==
    /\ settled' = settled \cup {t}
    /\ UNCHANGED assigned

Next == \E t \in Task : Settle(t) \/ \E a \in Agent : Assign(t, a)

Spec == Init /\ [][Next]_vars
=============================================================================
