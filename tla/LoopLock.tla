------------------------------ MODULE LoopLock -------------------------------
(***************************************************************************)
(* internal/loop: the ticks of the `marunage loop` processes and the lock   *)
(* row loop.lock.default of kv_state they share.  A full tick (plan,        *)
(* dispatch, render, reap) runs under the lock or is skipped; the shorter   *)
(* dispatch tick takes no lock at all.                                      *)
(*                                                                         *)
(* The lock has no expiry: only the process whose token it holds deletes    *)
(* it, in a deferred call that uses the context of the tick.  What a phase  *)
(* does to the tasks table is the business of other modules; here it may    *)
(* succeed or return an error.                                              *)
(***************************************************************************)
EXTENDS Naturals, FiniteSets

CONSTANTS
    LoopId,     \* processes `marunage loop` that can be started, one token each
    LoopFaults  \* what may happen to them: see LoopFaultKinds

\* A phase, a kv_state statement or the start of a daemon fails; somebody
\* sends SIGTERM or SIGKILL.
LoopFaultKinds == {"phase", "store", "start", "term", "kill"}

Nobody == "nobody"   \* no row

ASSUME LoopAssumption == Nobody \notin LoopId /\ LoopFaults \subseteq LoopFaultKinds

VARIABLES
    kvlock,     \* the value of the row loop.lock.default, or Nobody
    step,       \* step[p]: what process p is doing
    cancelled,  \* cancelled[p]: its context is cancelled
    once        \* once[p]: it was started with --once

loopVars == <<kvlock, step, cancelled, once>>

\* The phases of RunOnce that run with the lock held, and dispatchOnly's.
Locked == {"plan", "dispatch", "render", "reap", "release"}

DispatchTick == {"dispatch only", "render only", "reap only"}

LoopSteps == {"unborn", "idle", "acquire", "dead"} \cup Locked \cup DispatchTick

LoopTypeOK ==
    /\ kvlock \in LoopId \cup {Nobody}
    /\ step \in [LoopId -> LoopSteps]
    /\ cancelled \in [LoopId -> BOOLEAN]
    /\ once \in [LoopId -> BOOLEAN]

LoopInit ==
    /\ kvlock = Nobody
    /\ step = [p \in LoopId |-> "unborn"]
    /\ cancelled = [p \in LoopId |-> FALSE]
    /\ once \in [LoopId -> BOOLEAN]

Running(p) == step[p] \notin {"unborn", "dead"}

Enter(p, s) == step' = [step EXCEPT ![p] = s]

\* RunOnce returns: --once exits, Run goes back to its select.
Rest(p) == IF once[p] THEN "dead" ELSE "idle"

-----------------------------------------------------------------------------
\* Run and --once both begin with a full tick.
StartLoop(p) ==
    /\ step[p] = "unborn"
    /\ Enter(p, "acquire")
    /\ UNCHANGED <<kvlock, cancelled, once>>

\* One of the two tickers fires.  A tick that finds its context cancelled
\* returns at once; Run leaves its select when the context is done.
FullTick(p) ==
    /\ step[p] = "idle" /\ ~cancelled[p]
    /\ Enter(p, "acquire")
    /\ UNCHANGED <<kvlock, cancelled, once>>

ShortTick(p) ==
    /\ step[p] = "idle" /\ ~cancelled[p]
    /\ Enter(p, "dispatch only")
    /\ UNCHANGED <<kvlock, cancelled, once>>

LeaveRun(p) ==
    /\ step[p] = "idle" /\ cancelled[p]
    /\ Enter(p, "dead")
    /\ UNCHANGED <<kvlock, cancelled, once>>

\* Mutant: the row is overwritten when it is already there (Get, then Set).
AcquireLoopLockAnyway(p) ==
    /\ step[p] = "acquire" /\ ~cancelled[p]
    /\ kvlock' = p
    /\ Enter(p, "plan")
    /\ UNCHANGED <<cancelled, once>>

\* acquireLock: InsertIfAbsent of the token, one statement.
AcquireLoopLock(p) ==
    /\ step[p] = "acquire" /\ ~cancelled[p]
    /\ kvlock = Nobody
    /\ kvlock' = p
    /\ Enter(p, "plan")
    /\ UNCHANGED <<cancelled, once>>

\* ErrLockBusy, a cancelled context or a failed statement: the tick is
\* skipped, and the deferred release has not been installed yet.
SkipTick(p) ==
    /\ step[p] = "acquire"
    /\ kvlock # Nobody \/ cancelled[p] \/ "store" \in LoopFaults
    /\ Enter(p, Rest(p))
    /\ UNCHANGED <<kvlock, cancelled, once>>

\* Mutant: the early return of a failed phase skips the release.
PhaseFailsUnreleased(p) ==
    /\ cancelled[p] \/ "phase" \in LoopFaults
    /\ \/ step[p] \in {"dispatch", "render"} /\ Enter(p, Rest(p))
       \/ step[p] \in {"dispatch only", "render only"} /\ Enter(p, "idle")
    /\ UNCHANGED <<kvlock, cancelled, once>>

\* planAll and the reaper swallow their errors.
PhaseEnds(p) ==
    /\ Enter(p, CASE step[p] = "plan" -> "dispatch"
                  [] step[p] = "dispatch" -> "render"
                  [] step[p] = "render" -> "reap"
                  [] step[p] = "reap" -> "release"
                  [] step[p] = "dispatch only" -> "render only"
                  [] step[p] = "render only" -> "reap only"
                  [] OTHER -> "idle")
    /\ step[p] \in (Locked \ {"release"}) \cup DispatchTick
    /\ UNCHANGED <<kvlock, cancelled, once>>

\* A dispatch or render error ends the tick; the reaper does not run.
PhaseFails(p) ==
    /\ cancelled[p] \/ "phase" \in LoopFaults
    /\ \/ step[p] \in {"dispatch", "render"} /\ Enter(p, "release")
       \/ step[p] \in {"dispatch only", "render only"} /\ Enter(p, "idle")
    /\ UNCHANGED <<kvlock, cancelled, once>>

\* The deferred releaseLock: DeleteIfValue of the own token.  With the tick's
\* context cancelled the statement is not executed at all; the error is only
\* audited.
ReleaseLoopLock(p) ==
    /\ step[p] = "release"
    /\ \/ ~cancelled[p] /\ kvlock' = IF kvlock = p THEN Nobody ELSE kvlock
       \/ (cancelled[p] \/ "store" \in LoopFaults) /\ UNCHANGED kvlock
    /\ Enter(p, Rest(p))
    /\ UNCHANGED <<cancelled, once>>

\* SIGTERM or SIGINT: `loop` cancels its context, --once has no handler.
Terminate(p) ==
    /\ Running(p)
    /\ IF once[p]
       THEN Enter(p, "dead") /\ UNCHANGED cancelled
       ELSE cancelled' = [cancelled EXCEPT ![p] = TRUE] /\ UNCHANGED step
    /\ UNCHANGED <<kvlock, once>>

\* SIGKILL, a crash, a power failure.
Kill(p) ==
    /\ Running(p)
    /\ Enter(p, "dead")
    /\ UNCHANGED <<kvlock, cancelled, once>>

-----------------------------------------------------------------------------
LoopStep(p) ==
    \/ FullTick(p) \/ ShortTick(p) \/ LeaveRun(p)
    \/ AcquireLoopLock(p) \/ SkipTick(p)
    \/ PhaseEnds(p) \/ PhaseFails(p) \/ ReleaseLoopLock(p)

LoopSignal(p) ==
    \/ "term" \in LoopFaults /\ Terminate(p)
    \/ "kill" \in LoopFaults /\ Kill(p)
=============================================================================
