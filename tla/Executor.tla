------------------------------- MODULE Executor -------------------------------
(***************************************************************************)
(* What exec.Executor promises the dispatcher about the sessions of one     *)
(* row, whichever backend runs them.  Start answers with a session that is  *)
(* ready for its prompt, or with one that never became ready and that the   *)
(* row keeps for the reaper, or with none, and then none is left behind     *)
(* unless the reply of a command line was lost.  Send turns a ready session *)
(* into a working one or fails, and AwaitExit answers a code only for a     *)
(* session that is over or has said that it is done.                        *)
(***************************************************************************)
CONSTANTS Session, NULL

VARIABLES
    session,   \* session[s]: how far s has come
    row, ws,   \* the row's status and the session it names
    answer,    \* what AwaitExit has answered
    lost       \* some reply was lost

vars == <<session, row, ws, answer, lost>>

Becomes(s, st) == session' = [session EXCEPT ![s] = st]

\* No session but s is being started.
OnlyStarting(s) == \A r \in Session \ {s} : session[r] # "starting"

Init ==
    /\ session = [s \in Session |-> "unused"]
    /\ row = "pending" /\ ws = NULL /\ answer = "none" /\ lost = FALSE

\* Start has created s and waits for it to become ready.
Begin(s) ==
    /\ row = "pending" /\ session[s] = "unused" /\ OnlyStarting(s)
    /\ Becomes(s, "starting") /\ UNCHANGED <<row, ws, answer, lost>>

\* Start returns s and no error.
StartIsReady(s) ==
    /\ row = "pending" /\ session[s] \in {"unused", "starting"} /\ OnlyStarting(s)
    /\ Becomes(s, "ready") /\ row' = "running" /\ ws' = s
    /\ UNCHANGED <<answer, lost>>

\* Start returns s and an error: the row fails and names s, which may be gone.
StartFails(s) ==
    /\ row = "pending" /\ session[s] \in {"starting", "gone"} /\ OnlyStarting(s)
    /\ Becomes(s, IF session[s] = "gone" THEN "gone" ELSE "kept")
    /\ row' = "failed" /\ ws' = s
    /\ UNCHANGED <<answer, lost>>

\* The only way to a session nobody knows of.
StartLoses(s) ==
    /\ row = "pending" /\ session[s] \in {"unused", "starting"} /\ lost'
    /\ Becomes(s, "orphan") /\ UNCHANGED <<row, ws, answer>>

\* A reply is lost that made no difference.
ReplyIsLost == lost' /\ UNCHANGED <<session, row, ws, answer>>

Send(s) ==
    /\ row = "running" /\ ws = s /\ session[s] = "ready"
    /\ Becomes(s, "working") /\ UNCHANGED <<row, ws, answer, lost>>

\* The row fails.  Its session never got the prompt, unless the reply was lost.
SendFails(s) ==
    /\ row = "running" /\ ws = s /\ answer = "none"
    /\ \/ session[s] = "ready" /\ Becomes(s, "kept")
       \/ session[s] = "ready" /\ Becomes(s, "working") /\ lost'
       \/ session[s] = "gone" /\ UNCHANGED session
    /\ row' = "failed" /\ (lost => lost')
    /\ UNCHANGED <<ws, answer>>

\* AwaitExit may kill the session it gives up, and answer for a killed one.
AwaitExit(s) ==
    /\ row = "running" /\ ws = s /\ answer = "none"
    /\ \/ answer' = "code" /\ session[s] \in {"ended", "gone"} /\ UNCHANGED session
       \/ answer' = "error" /\ session[s] \in {"working", "ended", "gone"} /\ UNCHANGED session
       \/ answer' = "error" /\ session[s] = "working" /\ Becomes(s, "gone")
    /\ UNCHANGED <<row, ws, lost>>

\* Claude writes its exit code, which only one that was prompted does.
Ends(s) ==
    /\ session[s] = "working" /\ Becomes(s, "ended")
    /\ UNCHANGED <<row, ws, answer, lost>>

\* A session disappears, or is closed by a Start that answers with none.
Disappears(s) ==
    /\ session[s] \in {"starting", "ready", "kept", "working", "orphan"}
    /\ Becomes(s, "gone") /\ UNCHANGED <<row, ws, answer, lost>>

Next ==
    \/ ReplyIsLost
    \/ \E s \in Session :
           \/ Begin(s) \/ StartIsReady(s) \/ StartFails(s) \/ StartLoses(s)
           \/ Send(s) \/ SendFails(s) \/ AwaitExit(s) \/ Ends(s) \/ Disappears(s)

Spec == Init /\ [][Next]_vars
=============================================================================
