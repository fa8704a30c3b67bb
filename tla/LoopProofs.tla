----------------------------- MODULE LoopProofs ------------------------------
(***************************************************************************)
(* What holds of the loop's lock and of the daemon's pidfile for any number *)
(* of processes and controllers.                                            *)
(***************************************************************************)
EXTENDS Daemon, TLAPS

\* Every variable always has its type.
THEOREM LoopTypeCorrect == Spec => []TypeOK
<1>1. Init => TypeOK
  BY DEF Init, LoopInit, TypeOK, LoopTypeOK, LoopSteps, CtlSteps
<1>2. TypeOK /\ [Next]_vars => TypeOK'
  <2> SUFFICES ASSUME TypeOK, [Next]_vars PROVE TypeOK'
    OBVIOUS
  <2> USE DEF TypeOK, LoopTypeOK, LoopSteps, Locked, DispatchTick, CtlSteps
  <2>1. ASSUME NEW p \in LoopId, LoopStep(p), UNCHANGED daemonVars PROVE TypeOK'
    <3>1. CASE FullTick(p) \/ ShortTick(p) \/ LeaveRun(p) \/ AcquireLoopLock(p) \/ SkipTick(p)
      BY <2>1, <3>1
      DEF FullTick, ShortTick, LeaveRun, AcquireLoopLock, SkipTick, Enter, Rest, daemonVars
    <3>2. CASE PhaseEnds(p) \/ PhaseFails(p) \/ ReleaseLoopLock(p)
      BY <2>1, <3>2 DEF PhaseEnds, PhaseFails, ReleaseLoopLock, Enter, Rest, daemonVars
    <3> QED BY <2>1, <3>1, <3>2 DEF LoopStep
  <2>2. ASSUME NEW p \in LoopId, LoopSignal(p) \/ StartLoop(p), UNCHANGED daemonVars
        PROVE TypeOK'
    <3>1. CASE Terminate(p)
      BY <2>2, <3>1 DEF Terminate, Enter, daemonVars
    <3>2. CASE Kill(p) \/ StartLoop(p)
      BY <2>2, <3>2 DEF Kill, StartLoop, Enter, daemonVars
    <3> QED BY <2>2, <3>1, <3>2 DEF LoopSignal
  <2>3. ASSUME NEW c \in Controllers, ControllerRequest(c)
        PROVE TypeOK'
    <3>1. CASE StartCommand(c) \/ SpawnFails(c)
      BY <2>3, <3>1 DEF StartCommand, SpawnFails, Goto, Return, loopVars
    <3>2. CASE StopCommand(c)
      BY <2>3, <3>2 DEF StopCommand, Goto, DaemonRuns, loopVars
    <3>3. CASE WritePidFails(c)
      BY <2>3, <3>3 DEF WritePidFails, Goto, Return
    <3> QED BY <2>3, <3>1, <3>2, <3>3 DEF ControllerRequest
  <2>4. ASSUME NEW c \in Controllers, ControllerStep(c) PROVE TypeOK'
    <3>1. CASE RemoveStale(c) \/ WritePid(c) \/ SeesExit(c) \/ RemovePidfile(c)
      BY <2>4, <3>1
      DEF RemoveStale, WritePid, SeesExit, RemovePidfile, Goto, Return, loopVars
    <3>2. CASE Spawn(c)
      <4>1. PICK p \in LoopId \ Foreground :
                StartLoop(p) /\ target' = [target EXCEPT ![c] = p]
        BY <3>2 DEF Spawn
      <4>2. pidfile' = pidfile /\ ctl' = [ctl EXCEPT ![c] = "write"]
        BY <3>2 DEF Spawn, Goto
      <4> QED BY <4>1, <4>2 DEF StartLoop, Enter
    <3>3. CASE SendTerm(c)
      BY <2>4, <3>3 DEF SendTerm, Terminate, Enter, Goto, Return, loopVars
    <3>4. CASE StopTimesOut(c)
      BY <2>4, <3>4 DEF StopTimesOut, Kill, Enter, Goto
    <3> QED BY <2>4, <3>1, <3>2, <3>3, <3>4 DEF ControllerStep
  <2>5. CASE UNCHANGED vars
    BY <2>5 DEF vars, loopVars, daemonVars
  <2> QED BY <2>1, <2>2, <2>3, <2>4, <2>5 DEF Next
<1> QED BY <1>1, <1>2, PTL DEF Spec

-----------------------------------------------------------------------------
\* A process in a full tick holds the lock.
HolderInv == \A p \in LoopId : step[p] \in Locked => kvlock = p

\* A step of a controller leaves the lock alone and puts nobody into a tick.
LEMMA ControllersKeepLock ==
    ASSUME TypeOK, NEW c \in Controllers,
           ControllerRequest(c) \/ ControllerStep(c)
    PROVE  /\ kvlock' = kvlock
           /\ \A p \in LoopId : step'[p] \in Locked => step[p] \in Locked
<1> USE DEF TypeOK, LoopTypeOK, Locked
<1>1. CASE ControllerRequest(c)
  BY <1>1 DEF ControllerRequest, StartCommand, StopCommand, SpawnFails, WritePidFails, loopVars
<1>2. CASE RemoveStale(c) \/ WritePid(c) \/ SeesExit(c) \/ RemovePidfile(c)
  BY <1>2 DEF RemoveStale, WritePid, SeesExit, RemovePidfile, loopVars
<1>3. CASE Spawn(c)
  BY <1>3 DEF Spawn, StartLoop, Enter
<1>4. CASE SendTerm(c)
  BY <1>4 DEF SendTerm, Terminate, Enter, loopVars
<1>5. CASE StopTimesOut(c)
  BY <1>5 DEF StopTimesOut, Kill, Enter
<1> QED BY <1>1, <1>2, <1>3, <1>4, <1>5 DEF ControllerStep

\* Two processes are never both in a full tick, under every fault and signal.
THEOREM FullTicksAlwaysExclude == Spec => []FullTicksExclude
<1>1. Init => HolderInv
  BY DEF Init, LoopInit, HolderInv, Locked
<1>2. HolderInv /\ TypeOK /\ [Next]_vars => HolderInv'
  <2> SUFFICES ASSUME HolderInv, TypeOK, [Next]_vars PROVE HolderInv'
    OBVIOUS
  <2> USE LoopAssumption DEF HolderInv, TypeOK, LoopTypeOK, Locked, DispatchTick
  <2>1. ASSUME NEW p \in LoopId, LoopStep(p) PROVE HolderInv'
    <3>1. CASE FullTick(p) \/ ShortTick(p) \/ LeaveRun(p) \/ SkipTick(p)
      BY <3>1 DEF FullTick, ShortTick, LeaveRun, SkipTick, Enter, Rest
    <3>2. CASE AcquireLoopLock(p)
      BY <3>2 DEF AcquireLoopLock, Enter
    <3>3. CASE PhaseEnds(p) \/ PhaseFails(p)
      BY <3>3 DEF PhaseEnds, PhaseFails, Enter
    <3>4. CASE ReleaseLoopLock(p)
      BY <3>4 DEF ReleaseLoopLock, Enter, Rest
    <3> QED BY <2>1, <3>1, <3>2, <3>3, <3>4 DEF LoopStep
  <2>2. ASSUME NEW p \in LoopId, LoopSignal(p) \/ StartLoop(p) PROVE HolderInv'
    BY <2>2 DEF LoopSignal, Terminate, Kill, StartLoop, Enter
  <2>3. ASSUME NEW c \in Controllers,
               ControllerRequest(c) \/ ControllerStep(c)
        PROVE HolderInv'
    BY <2>3, ControllersKeepLock
  <2>4. CASE UNCHANGED vars
    BY <2>4 DEF vars, loopVars
  <2> QED BY <2>1, <2>2, <2>3, <2>4 DEF Next
<1>3. HolderInv => FullTicksExclude
  BY DEF HolderInv, FullTicksExclude
<1> QED BY <1>1, <1>2, <1>3, LoopTypeCorrect, PTL DEF Spec
-----------------------------------------------------------------------------
\* The row cannot name a process that was never started.
TokenInv == \A p \in LoopId : kvlock = p => step[p] # "unborn"

\* As long as the kv_state statements themselves work, a process that has not
\* been told to stop holds the lock only while it is in a full tick: no early
\* return keeps it.
THEOREM LockIsOnlyInTick ==
    ASSUME "store" \notin LoopFaults
    PROVE  Spec => []LockOnlyInTick
<1> DEFINE Inv == LockOnlyInTick /\ TokenInv
<1>1. Init => Inv
  BY LoopAssumption DEF Init, LoopInit, LockOnlyInTick, TokenInv
<1>2. Inv /\ TypeOK /\ [Next]_vars => Inv'
  <2> SUFFICES ASSUME Inv, TypeOK, [Next]_vars PROVE Inv'
    OBVIOUS
  <2> USE LoopAssumption
      DEF LockOnlyInTick, TokenInv, TypeOK, LoopTypeOK, Locked, DispatchTick, Running
  <2>1. ASSUME NEW p \in LoopId, LoopStep(p) PROVE Inv'
    <3>1. CASE FullTick(p) \/ ShortTick(p) \/ LeaveRun(p)
      BY <3>1 DEF FullTick, ShortTick, LeaveRun, Enter
    <3>2. CASE AcquireLoopLock(p) \/ SkipTick(p)
      BY <3>2 DEF AcquireLoopLock, SkipTick, Enter, Rest
    <3>3. CASE PhaseEnds(p) \/ PhaseFails(p)
      BY <3>3 DEF PhaseEnds, PhaseFails, Enter
    <3>4. CASE ReleaseLoopLock(p)
      BY <3>4 DEF ReleaseLoopLock, Enter, Rest
    <3> QED BY <2>1, <3>1, <3>2, <3>3, <3>4 DEF LoopStep
  <2>2. ASSUME NEW p \in LoopId, LoopSignal(p) \/ StartLoop(p) PROVE Inv'
    BY <2>2 DEF LoopSignal, Terminate, Kill, StartLoop, Enter
  <2>3. ASSUME NEW c \in Controllers,
               ControllerRequest(c) \/ ControllerStep(c)
        PROVE Inv'
    <3>1. CASE ControllerRequest(c)
      BY <3>1 DEF ControllerRequest, StartCommand, StopCommand, SpawnFails, WritePidFails, loopVars
    <3>2. CASE RemoveStale(c) \/ WritePid(c) \/ SeesExit(c) \/ RemovePidfile(c)
      BY <3>2 DEF RemoveStale, WritePid, SeesExit, RemovePidfile, loopVars
    <3>3. CASE Spawn(c)
      BY <3>3 DEF Spawn, StartLoop, Enter
    <3>4. CASE SendTerm(c)
      BY <3>4 DEF SendTerm, Terminate, Enter, loopVars
    <3>5. CASE StopTimesOut(c)
      BY <3>5 DEF StopTimesOut, Kill, Enter
    <3> QED BY <2>3, <3>1, <3>2, <3>3, <3>4, <3>5 DEF ControllerStep
  <2>4. CASE UNCHANGED vars
    BY <2>4 DEF vars, loopVars
  <2> QED BY <2>1, <2>2, <2>3, <2>4 DEF Next
<1>3. Inv => LockOnlyInTick
  OBVIOUS
<1> QED BY <1>1, <1>2, <1>3, LoopTypeCorrect, PTL DEF Spec

-----------------------------------------------------------------------------
\* What the steps of the only controller know about the background loops.
ControllerInv ==
    \A c \in Controllers :
        /\ ctl[c] \in {"remove stale", "spawn", "remove"} =>
               \A p \in LoopId \ Foreground : ~Running(p)
        /\ ctl[c] = "write" =>
               \A p \in LoopId \ Foreground : Running(p) => p = target[c]
        /\ ctl[c] \in {"term", "wait", "wait killed"} => pidfile = target[c]

\* With at most one invocation of `daemon start` or `daemon stop` at a time,
\* no background loop runs that the pidfile does not lead to, whatever is
\* killed and whenever.
THEOREM DaemonIsAlwaysRecorded ==
    ASSUME \A c1, c2 \in Controllers : c1 = c2
    PROVE  Spec => []DaemonIsRecorded
<1> DEFINE Inv == DaemonIsRecorded /\ ControllerInv
<1>1. Init => Inv
  BY DEF Init, LoopInit, DaemonIsRecorded, ControllerInv, Running
<1>2. Inv /\ TypeOK /\ [Next]_vars => Inv'
  <2> SUFFICES ASSUME Inv, TypeOK, [Next]_vars PROVE Inv'
    OBVIOUS
  <2> USE LoopAssumption, DaemonAssumption
      DEF DaemonIsRecorded, ControllerInv, TypeOK, LoopTypeOK, Running
  <2>1. ASSUME NEW p \in LoopId, LoopStep(p), UNCHANGED daemonVars PROVE Inv'
    <3>1. \A q \in LoopId : Running(q)' => Running(q)
      <4>1. CASE FullTick(p) \/ ShortTick(p) \/ LeaveRun(p) \/ AcquireLoopLock(p) \/ SkipTick(p)
        BY <4>1 DEF FullTick, ShortTick, LeaveRun, AcquireLoopLock, SkipTick, Enter
      <4>2. CASE PhaseEnds(p) \/ PhaseFails(p) \/ ReleaseLoopLock(p)
        BY <4>2 DEF PhaseEnds, PhaseFails, ReleaseLoopLock, Enter, Locked, DispatchTick
      <4> QED BY <2>1, <4>1, <4>2 DEF LoopStep
    <3> QED BY <2>1, <3>1 DEF daemonVars
  <2>2. ASSUME NEW p \in LoopId, LoopSignal(p), UNCHANGED daemonVars PROVE Inv'
    <3>1. \A q \in LoopId : Running(q)' => Running(q)
      <4>1. CASE Terminate(p)
        BY <4>1 DEF Terminate, Enter
      <4>2. CASE Kill(p)
        BY <4>2 DEF Kill, Enter
      <4> QED BY <2>2, <4>1, <4>2 DEF LoopSignal
    <3> QED BY <2>2, <3>1 DEF daemonVars
  <2>3. ASSUME NEW p \in Foreground, StartLoop(p), UNCHANGED daemonVars PROVE Inv'
    <3>1. \A q \in LoopId \ Foreground : Running(q)' => Running(q)
      BY <2>3 DEF StartLoop, Enter
    <3> QED BY <2>3, <3>1 DEF daemonVars
  <2>4. ASSUME NEW c \in Controllers,
               ControllerRequest(c) \/ ControllerStep(c)
        PROVE Inv'
    <3>1. \A e \in Controllers : e = c
      OBVIOUS
    <3>2. CASE StartCommand(c)
      <4>1. ctl[c] = "idle" /\ ~DaemonRuns /\ UNCHANGED <<pidfile, step>>
        BY <3>2 DEF StartCommand, loopVars
      <4>2. ctl' = [ctl EXCEPT ![c] = "spawn"] \/ ctl' = [ctl EXCEPT ![c] = "remove stale"]
        BY <3>2 DEF StartCommand, Goto
      <4>3. \A p \in LoopId \ Foreground : ~Running(p)
        <5> SUFFICES ASSUME NEW p \in LoopId \ Foreground, Running(p) PROVE FALSE
          OBVIOUS
        <5>1. pidfile = p
          BY <3>1, <4>1
        <5> QED BY <4>1, <5>1 DEF DaemonRuns
      <4> QED BY <3>1, <4>1, <4>2, <4>3
    <3>3. CASE StopCommand(c)
      <4>1. ctl[c] = "idle" /\ pidfile # Nobody /\ UNCHANGED <<pidfile, step>>
        BY <3>3 DEF StopCommand, loopVars
      <4>2. CASE DaemonRuns
        <5>1. ctl' = [ctl EXCEPT ![c] = "term"] /\ target' = [target EXCEPT ![c] = pidfile]
          BY <3>3, <4>2 DEF StopCommand, Goto
        <5> QED BY <3>1, <4>1, <5>1
      <4>3. CASE ~DaemonRuns
        <5>1. ctl' = [ctl EXCEPT ![c] = "remove"]
          BY <3>3, <4>3 DEF StopCommand, Goto
        <5>2. \A p \in LoopId \ Foreground : ~Running(p)
          BY <3>1, <4>1, <4>3 DEF DaemonRuns
        <5> QED BY <3>1, <4>1, <5>1, <5>2
      <4> QED BY <4>2, <4>3
    <3>4. CASE SpawnFails(c)
      BY <3>1, <3>4 DEF SpawnFails, Goto, Return, loopVars
    <3>12. CASE WritePidFails(c)
      <4>1. /\ ctl[c] = "write" /\ pidfile' = pidfile
            /\ step' = [step EXCEPT ![target[c]] = "dead"]
            /\ ctl' = [ctl EXCEPT ![c] = "idle"]
        BY <3>12 DEF WritePidFails, Goto, Return
      <4>2. \A p \in LoopId \ Foreground : ~Running(p)'
        BY <4>1
      <4>3. ctl'[c] = "idle"
        BY <4>1
      <4>4. ControllerInv'
        BY <3>1, <4>2, <4>3
      <4> QED BY <4>2, <4>4
    <3>5. CASE RemoveStale(c)
      BY <3>1, <3>5 DEF RemoveStale, Goto, loopVars
    <3>6. CASE SeesExit(c)
      <4>1. /\ ctl[c] \in {"wait", "wait killed"} /\ ~Running(target[c])
            /\ ctl' = [ctl EXCEPT ![c] = "remove"] /\ UNCHANGED <<pidfile, step>>
        BY <3>6 DEF SeesExit, Goto, loopVars
      <4>2. \A p \in LoopId \ Foreground : ~Running(p)
        BY <3>1, <4>1
      <4> QED BY <3>1, <4>1, <4>2
    <3>7. CASE RemovePidfile(c)
      BY <3>1, <3>7 DEF RemovePidfile, Goto, Return, loopVars
    <3>8. CASE Spawn(c)
      <4>1. PICK p \in LoopId \ Foreground :
                StartLoop(p) /\ target' = [target EXCEPT ![c] = p]
        BY <3>8 DEF Spawn
      <4>2. pidfile' = pidfile /\ ctl' = [ctl EXCEPT ![c] = "write"] /\ ctl[c] = "spawn"
        BY <3>8 DEF Spawn, Goto
      <4> QED BY <3>1, <4>1, <4>2 DEF StartLoop, Enter
    <3>9. CASE WritePid(c)
      <4>1. /\ ctl[c] = "write" /\ pidfile' = target[c] /\ step' = step
            /\ ctl' = [ctl EXCEPT ![c] = "idle"]
        BY <3>9 DEF WritePid, Goto, Return, loopVars
      <4> QED BY <3>1, <4>1
    <3>10. CASE SendTerm(c)
      <4>1. ctl[c] = "term" /\ pidfile' = pidfile
        BY <3>10 DEF SendTerm
      <4>2. \A q \in LoopId : Running(q)' => Running(q)
        BY <3>10 DEF SendTerm, Terminate, Enter, loopVars
      <4>3. \/ ctl' = [ctl EXCEPT ![c] = "wait"] /\ target' = target
            \/ ctl' = [ctl EXCEPT ![c] = "idle"]
        BY <3>10 DEF SendTerm, Goto, Return
      <4>4. \A p \in LoopId \ Foreground : Running(p)' => pidfile' = p
        BY <3>1, <4>1, <4>2
      <4>5. ControllerInv'
        <5>1. CASE ctl' = [ctl EXCEPT ![c] = "wait"] /\ target' = target
          BY <3>1, <4>1, <5>1
        <5>2. CASE ctl' = [ctl EXCEPT ![c] = "idle"]
          BY <3>1, <5>2
        <5> QED BY <4>3, <5>1, <5>2
      <4> QED BY <4>4, <4>5
    <3>11. CASE StopTimesOut(c)
      BY <3>1, <3>11 DEF StopTimesOut, Kill, Enter, Goto
    <3> QED BY <2>4, <3>2, <3>3, <3>4, <3>5, <3>6, <3>7, <3>8, <3>9, <3>10, <3>11,
               <3>12
            DEF ControllerStep, ControllerRequest
  <2>5. CASE UNCHANGED vars
    BY <2>5 DEF vars, loopVars, daemonVars
  <2> QED BY <2>1, <2>2, <2>3, <2>4, <2>5 DEF Next
<1>3. Inv => DaemonIsRecorded
  OBVIOUS
<1> QED BY <1>1, <1>2, <1>3, LoopTypeCorrect, PTL DEF Spec
=============================================================================
