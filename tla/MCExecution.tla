----------------------------- MODULE MCExecution -----------------------------
(***************************************************************************)
(* The components on the execution side that share no state with one        *)
(* another, checked in one run: the executor backends, the web server and   *)
(* the order of the dispatcher's list.  `part' says which of them runs; the *)
(* others stay in one initial state.                                        *)
(***************************************************************************)
EXTENDS Backends, WebServer, Ordering

VARIABLE part

OneKey == [r \in 1..Ranks |-> IF r \in {1, 2} THEN "k" ELSE NoKey]

Init ==
    /\ part \in {"backend", "web", "order"}
    /\ BackendInit /\ (part # "backend" => backend = "local" /\ wired)
    /\ WebInit
    /\ OrderingInit /\ (part # "order" => state = [r \in Rank |-> "done"])

vars == <<part, backendVars, webVars, orderingVars>>

OnBackend(A) == part = "backend" /\ A /\ UNCHANGED <<part, webVars, orderingVars>>
OnWeb(A) == part = "web" /\ A /\ UNCHANGED <<part, backendVars, orderingVars>>
OnOrder(A) == part = "order" /\ A /\ UNCHANGED <<part, backendVars, webVars>>

Next == OnBackend(BackendNext) \/ OnWeb(WebNext) \/ OnOrder(OrderingNext)

\* A command line that was started returns, time passes, the hub and the
\* server's main goroutine are scheduled, and `marunage loop' calls Run again.
\* No fairness for Claude, users or success.
Fairness ==
    /\ WF_vars(OnBackend(Create \/ CreateFails))
    /\ WF_vars(OnBackend(Launch \/ CloseWorkspace))
    /\ WF_vars(OnBackend(DeadlinePasses)) /\ WF_vars(OnBackend(StartupTimeout))
    /\ WF_vars(OnBackend(SendStep))
    /\ WF_vars(OnWeb(Shutdown)) /\ \A e \in Event : WF_vars(OnWeb(PublishStep(e)))
    /\ \A c \in Client : WF_vars(OnWeb(PollOutput(c)))
    /\ WF_vars(OnOrder(DispatchRun)) /\ \A r \in Rank : WF_vars(OnOrder(Ends(r)))

Spec == Init /\ [][Next]_vars /\ Fairness

\* Start and Send return, Publish ends although no tab reads, a signalled server
\* comes to its end although streams stay open, and a stream catches up.
NobodyWaitsForEver == CallsReturn /\ PublishEnds /\ ShutdownEnds /\ StreamCatchesUp
=============================================================================
