------------------------------- MODULE Daemon --------------------------------
(***************************************************************************)
(* internal/cli/daemon.go: `marunage daemon start` and `daemon stop`, which *)
(* keep at most one background `marunage loop` by means of a pidfile, beside *)
(* the loops somebody runs in the foreground.  Looking at the pidfile and   *)
(* its process, removing, spawning, writing and signalling are steps of     *)
(* their own.  Pids are not reused, and nobody edits the pidfile by hand.   *)
(***************************************************************************)
EXTENDS LoopLock

CONSTANTS
    Controllers,   \* `daemon start` / `daemon stop` invocations at one time
    Foreground     \* the processes of LoopId that are started by hand

ASSUME DaemonAssumption == Foreground \subseteq LoopId

VARIABLES
    pidfile,  \* the process daemon.pid names, or Nobody
    ctl,      \* ctl[c]: the step of controller c
    target    \* target[c]: the process it spawned, or is stopping

daemonVars == <<pidfile, ctl, target>>

vars == <<loopVars, daemonVars>>

CtlSteps == {"idle", "remove stale", "spawn", "write", "term", "wait", "wait killed", "remove"}

TypeOK ==
    /\ LoopTypeOK
    /\ pidfile \in LoopId \cup {Nobody}
    /\ ctl \in [Controllers -> CtlSteps]
    /\ target \in [Controllers -> LoopId \cup {Nobody}]
    /\ \A c \in Controllers :
           ctl[c] \in {"write", "term", "wait", "wait killed"} => target[c] \in LoopId

Init ==
    /\ LoopInit
    /\ \A p \in LoopId \ Foreground : ~once[p]
    /\ pidfile = Nobody
    /\ ctl = [c \in Controllers |-> "idle"]
    /\ target = [c \in Controllers |-> Nobody]

Goto(c, s) == ctl' = [ctl EXCEPT ![c] = s]

Return(c) == Goto(c, "idle") /\ target' = [target EXCEPT ![c] = Nobody]

\* Status: the pidfile names a process that exists.
DaemonRuns == pidfile # Nobody /\ Running(pidfile)

-----------------------------------------------------------------------------
\* Mutant: a recorded process is not probed.
StartCommandUnprobed(c) ==
    /\ ctl[c] = "idle"
    /\ Goto(c, IF pidfile = Nobody THEN "spawn" ELSE "remove stale")
    /\ UNCHANGED <<pidfile, target, loopVars>>

\* Start: an error if the recorded daemon runs.
StartCommand(c) ==
    /\ ctl[c] = "idle"
    /\ ~DaemonRuns
    /\ Goto(c, IF pidfile = Nobody THEN "spawn" ELSE "remove stale")
    /\ UNCHANGED <<pidfile, target, loopVars>>

RemoveStale(c) ==
    /\ ctl[c] = "remove stale"
    /\ pidfile' = Nobody
    /\ Goto(c, "spawn")
    /\ UNCHANGED <<target, loopVars>>

Spawn(c) ==
    /\ ctl[c] = "spawn"
    /\ \E p \in LoopId \ Foreground :
           StartLoop(p) /\ target' = [target EXCEPT ![c] = p]
    /\ Goto(c, "write")
    /\ UNCHANGED pidfile

SpawnFails(c) ==
    /\ "start" \in LoopFaults
    /\ ctl[c] = "spawn"
    /\ Return(c)
    /\ UNCHANGED <<pidfile, loopVars>>

WritePid(c) ==
    /\ ctl[c] = "write"
    /\ pidfile' = target[c]
    /\ Return(c)
    /\ UNCHANGED loopVars

\* The pidfile cannot be written: the child is killed.
WritePidFails(c) ==
    /\ "start" \in LoopFaults
    /\ ctl[c] = "write"
    /\ step' = [step EXCEPT ![target[c]] = "dead"]
    /\ Return(c)
    /\ UNCHANGED <<pidfile, kvlock, cancelled, once>>

\* Mutant: the process that was found is not remembered.
StopCommandForgetting(c) ==
    /\ ctl[c] = "idle"
    /\ pidfile # Nobody
    /\ Goto(c, IF DaemonRuns THEN "term" ELSE "remove")
    /\ UNCHANGED <<target, pidfile, loopVars>>

\* Stop: a stale pidfile is removed and reported.
StopCommand(c) ==
    /\ ctl[c] = "idle"
    /\ pidfile # Nobody
    /\ IF DaemonRuns
       THEN Goto(c, "term") /\ target' = [target EXCEPT ![c] = pidfile]
       ELSE Goto(c, "remove") /\ UNCHANGED target
    /\ UNCHANGED <<pidfile, loopVars>>

\* SIGTERM; a process that is gone by now is an error, the pidfile stays.
SendTerm(c) ==
    /\ ctl[c] = "term"
    /\ \/ Terminate(target[c]) /\ Goto(c, "wait") /\ UNCHANGED target
       \/ ~Running(target[c]) /\ Return(c) /\ UNCHANGED loopVars
    /\ UNCHANGED pidfile

SeesExit(c) ==
    /\ ctl[c] \in {"wait", "wait killed"}
    /\ ~Running(target[c])
    /\ Goto(c, "remove")
    /\ UNCHANGED <<pidfile, target, loopVars>>

\* Mutant: the timeout gives up instead of killing.
StopTimesOutQuietly(c) ==
    /\ ctl[c] = "wait"
    /\ Running(target[c])
    /\ Goto(c, "wait killed")
    /\ UNCHANGED <<pidfile, target, loopVars>>

\* The deadline passed with the process still there: SIGKILL.
StopTimesOut(c) ==
    /\ ctl[c] = "wait"
    /\ Kill(target[c])
    /\ Goto(c, "wait killed")
    /\ UNCHANGED <<pidfile, target>>

\* The file is removed whatever it names by now.
RemovePidfile(c) ==
    /\ ctl[c] = "remove"
    /\ pidfile' = Nobody
    /\ Return(c)
    /\ UNCHANGED loopVars

ControllerStep(c) ==
    \/ RemoveStale(c) \/ Spawn(c) \/ WritePid(c)
    \/ SendTerm(c) \/ SeesExit(c) \/ StopTimesOut(c) \/ RemovePidfile(c)

\* What nothing forces to happen: a command is given, or fails.
ControllerRequest(c) ==
    StartCommand(c) \/ StopCommand(c) \/ SpawnFails(c) \/ WritePidFails(c)

-----------------------------------------------------------------------------
Next ==
    \/ \E p \in LoopId :
           /\ LoopStep(p) \/ LoopSignal(p) \/ (p \in Foreground /\ StartLoop(p))
           /\ UNCHANGED daemonVars
    \/ \E c \in Controllers :
           ControllerRequest(c) \/ ControllerStep(c)

Spec == Init /\ [][Next]_vars

\* An invocation of the CLI runs to its end.  Nothing is assumed of the
\* loops: a tick may hang for ever.
FairSpec == Spec /\ \A c \in Controllers : WF_vars(ControllerStep(c))

-----------------------------------------------------------------------------
\* Mutual exclusion of full ticks (loop.go, "Concurrency"): two processes
\* never gather, plan and reap at once, whoever else is killed or stopped.
FullTicksExclude ==
    \A p, q \in LoopId : step[p] \in Locked /\ step[q] \in Locked => p = q

\* No error path of a tick keeps the lock: a process that is neither dead nor
\* told to stop holds it only while in its tick.  (With failing statements
\* the release itself may fail: run without "store".)
LockOnlyInTick ==
    \A p \in LoopId :
        kvlock = p /\ Running(p) /\ ~cancelled[p] => step[p] \in Locked

\* While one invocation runs at a time, every background loop is the one the
\* pidfile names or the one being recorded, so `daemon stop` can find it.
DaemonIsRecorded ==
    \A p \in LoopId \ Foreground :
        Running(p) => pidfile = p \/ \E c \in Controllers : ctl[c] = "write" /\ target[c] = p

\* `daemon stop` ends the process it found, even one that never looks at its
\* context again.
StopEndsTheDaemon ==
    \A c \in Controllers, p \in LoopId :
        (ctl[c] = "wait" /\ target[c] = p) ~> step[p] = "dead"
=============================================================================
