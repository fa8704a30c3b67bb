----------------------------- MODULE Workspaces ------------------------------
(***************************************************************************)
(* What lies outside the database: the sessions of an execution backend     *)
(* (internal/exec) and the control directory workspaces/<id>/ of each task, *)
(* into which the prompt tells Claude to write .exit_code when it is done.  *)
(*                                                                         *)
(* A session is created by Start, may be ready or not, is prompted by Send, *)
(* reports by an atomic rename of .exit_code, and can disappear at any      *)
(* time (the user closes it, the machine reboots).  Session ids are fresh.  *)
(***************************************************************************)
EXTENDS TaskStore

\* What the environment may do to the processes of this model: a control
\* directory cannot be made, Start creates nothing, the claim is not taken
\* back, a session never becomes ready, Send fails, the live sessions cannot
\* be listed, a process dies.
CONSTANT Faults

FaultKinds == {"mkdir", "start", "unclaim", "not_ready", "send", "list", "crash"}

ASSUME FaultAssumption == Faults \subseteq FaultKinds

VARIABLES
    session,   \* session[s]: the state of the backend's session s
    owner,     \* owner[s]: the row it was started for, or NULL
    sentinel   \* sentinel[t]: what workspaces/<t>/.exit_code holds

workspaceVars == <<session, owner, sentinel>>

Alive == {"unready", "ready", "working", "reported"}

SessionStates == {"unused", "gone"} \cup Alive

ASSUME TaskIdAssumption == NULL \notin TaskId

WorkspaceTypeOK ==
    /\ session \in [SessionId -> SessionStates]
    /\ owner \in [SessionId -> TaskId \cup {NULL}]
    /\ sentinel \in [TaskId -> {"absent", "zero", "nonzero"}]

WorkspaceInit ==
    /\ session = [s \in SessionId |-> "unused"]
    /\ owner = [s \in SessionId |-> NULL]
    /\ sentinel = [t \in TaskId |-> "absent"]

\* exec.Lister: every session the backend considers live, prompted or not.
LiveSessions == {s \in SessionId : session[s] \in Alive}

\* exec.Executor.Start created s for t; st tells whether it became ready.
StartSession(s, t, st) ==
    /\ session[s] = "unused"
    /\ session' = [session EXCEPT ![s] = st]
    /\ owner' = [owner EXCEPT ![s] = t]
    /\ UNCHANGED sentinel

\* exec.Executor.Send delivered the prompt.
SendPrompt(s) ==
    /\ session[s] = "ready"
    /\ session' = [session EXCEPT ![s] = "working"]
    /\ UNCHANGED <<owner, sentinel>>

\* Claude finishes and renames .exit_code.tmp to .exit_code in its own
\* task's directory, over whatever an earlier session left there.
SessionReports(s) ==
    /\ session[s] = "working"
    /\ session' = [session EXCEPT ![s] = "reported"]
    /\ \E code \in {"zero", "nonzero"} :
           sentinel' = [sentinel EXCEPT ![owner[s]] = code]
    /\ UNCHANGED owner

SessionDisappears(s) ==
    /\ session[s] \in Alive
    /\ session' = [session EXCEPT ![s] = "gone"]
    /\ UNCHANGED <<owner, sentinel>>
=============================================================================
