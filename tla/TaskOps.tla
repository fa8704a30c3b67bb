------------------------------- MODULE TaskOps -------------------------------
(***************************************************************************)
(* What an operator does to existing rows: the transition subcommands of    *)
(* the CLI (done, fail, promote, reopen: internal/cli/task_transition.go),  *)
(* `rm`, and the same operations of the web server (task_ops_store.go).     *)
(* The CLI reads the row, checks it, and writes without a guard in          *)
(* statements of their own; the web server's are single guarded UPDATEs.    *)
(***************************************************************************)
EXTENDS Workspaces

CONSTANTS
    Operators,  \* CLI invocations that may be under way at once
    Commands    \* what they and the web server are asked to do

CliCommands == {"done", "fail", "promote", "reopen"}

WebCommands == {"web promote", "web reopen", "delete"}

ASSUME TaskOpsAssumption == Commands \subseteq CliCommands \cup WebCommands

VARIABLES
    opc,   \* opc[o]: the step of the CLI invocation o
    ocmd,  \* ocmd[o]: its subcommand, or NULL
    ocur   \* ocur[o]: the row it was given

operatorVars == <<opc, ocmd, ocur>>

TaskOpsTypeOK ==
    /\ opc \in [Operators -> {"idle", "check", "get", "update", "clear"}]
    /\ ocmd \in [Operators -> CliCommands \cup {NULL}]
    /\ ocur \in [Operators -> TaskId \cup {NULL}]
    /\ \A o \in Operators : opc[o] # "idle" => ocur[o] \in TaskId /\ ocmd[o] # NULL

TaskOpsInit ==
    /\ opc = [o \in Operators |-> "idle"]
    /\ ocmd = [o \in Operators |-> NULL]
    /\ ocur = [o \in Operators |-> NULL]

\* The status a subcommand asks for, and the ones it accepts by itself
\* before the store's matrix is consulted (done and fail rely on the matrix).
Target(command) ==
    CASE command = "done" -> "done"
      [] command = "fail" -> "failed"
      [] OTHER -> "pending"

AllowedFrom(command) ==
    CASE command = "promote" -> {"skipped"}
      [] command = "reopen" -> {"done", "failed"}
      [] OTHER -> {}

Finish(o) ==
    /\ opc' = [opc EXCEPT ![o] = "idle"]
    /\ ocmd' = [ocmd EXCEPT ![o] = NULL]
    /\ ocur' = [ocur EXCEPT ![o] = NULL]

Continue(o, step) == opc' = [opc EXCEPT ![o] = step] /\ UNCHANGED <<ocmd, ocur>>

-----------------------------------------------------------------------------
Invoke(o, command, t) ==
    /\ opc[o] = "idle"
    /\ command \in Commands \cap CliCommands
    /\ opc' = [opc EXCEPT ![o] = IF AllowedFrom(command) = {} THEN "get" ELSE "check"]
    /\ ocmd' = [ocmd EXCEPT ![o] = command]
    /\ ocur' = [ocur EXCEPT ![o] = t]
    /\ UNCHANGED <<taskVars, workspaceVars>>

\* transitionRunner's own Get; a row that is gone or not allowed ends it.
CheckAllowedFrom(o) ==
    /\ opc[o] = "check"
    /\ \/ status[ocur[o]] \in AllowedFrom(ocmd[o]) /\ Continue(o, "get")
       \/ status[ocur[o]] \notin AllowedFrom(ocmd[o]) /\ Finish(o)
    /\ UNCHANGED <<taskVars, workspaceVars>>

\* TransitionStatus: Get and the matrix ...
CheckMatrix(o) ==
    /\ opc[o] = "get"
    /\ LET from == status[ocur[o]]
           allowed == from # Deleted /\ Target(ocmd[o]) \in allowedTransitions[from]
       IN  IF allowed THEN Continue(o, "update") ELSE Finish(o)
    /\ UNCHANGED <<taskVars, workspaceVars>>

\* ... and the UPDATE, which does not repeat the check.
TransitionStatus(o) ==
    /\ opc[o] = "update"
    /\ \/ /\ UpdateStatus(ocur[o], Target(ocmd[o]))
          /\ IF Target(ocmd[o]) = "pending" THEN Continue(o, "clear") ELSE Finish(o)
       \/ NoRow(ocur[o]) /\ Finish(o)
    /\ UNCHANGED workspaceVars

\* The stale workspace reference is cleared in a statement of its own.
ClearWorkspace(o) ==
    /\ opc[o] = "clear"
    /\ SetWorkspace(ocur[o], NULL) \/ NoRow(ocur[o])
    /\ Finish(o)
    /\ UNCHANGED workspaceVars

OperatorStep(o) ==
    CheckAllowedFrom(o) \/ CheckMatrix(o) \/ TransitionStatus(o) \/ ClearWorkspace(o)

-----------------------------------------------------------------------------
\* The web server's statements; the workspace reference is left as it is.
WebPromote(t) ==
    /\ "web promote" \in Commands
    /\ status[t] = "skipped"
    /\ UpdateStatus(t, "pending")
    /\ UNCHANGED <<operatorVars, workspaceVars>>

WebReopen(t) ==
    /\ "web reopen" \in Commands
    /\ status[t] \in {"done", "failed"}
    /\ UpdateStatus(t, "pending")
    /\ UNCHANGED <<operatorVars, workspaceVars>>

\* `marunage rm` and DELETE /api/tasks/{id}: any status.
DeleteTask(t) ==
    /\ "delete" \in Commands
    /\ Delete(t)
    /\ UNCHANGED <<operatorVars, workspaceVars>>

OperatorRequest ==
    \E t \in TaskId :
        \/ \E o \in Operators, command \in CliCommands : Invoke(o, command, t)
        \/ WebPromote(t) \/ WebReopen(t) \/ DeleteTask(t)
=============================================================================
