----------------------------- MODULE PartsProofs -----------------------------
(***************************************************************************)
(* The components MCParts runs side by side, each proved by itself: what   *)
(* survives a crash (schema, journal, log, dispatch agent), the secrets,   *)
(* the calls of the remote sources and their feeds, the notes of a row, the*)
(* scoring pass, the skills and the settings.  The conversions, which no   *)
(* step changes, are proved in FormatProofs.                               *)
(***************************************************************************)
EXTENDS MCParts, MarkdownProofs, FormatProofs

---------------------------------------------------------------------------
(* Schema migration *)

\* A process applies migrations up to the version it knows of and no further.
OpenersFollowVersion ==
    \A o \in Opener :
        /\ opener[o].step # "closed" => opener[o].next <= version + 1
        /\ opener[o].step = "open" => opener[o].next > opener[o].has

MigrationInv == MigrationTypeOK /\ VersionIsTrue /\ OpenersFollowVersion

\* An empty database has version 0 and no migration.
LEMMA MigrationInitInv == MigrationInit => MigrationInv
BY MigrationAssumption
   DEF MigrationInit, MigrationInv, MigrationTypeOK, VersionIsTrue, OpenersFollowVersion

\* Changing step and next of one opener.
LEMMA OpenerMoves ==
    ASSUME MigrationTypeOK, NEW o \in Opener, NEW to \in {"closed", "migrate", "open"},
           NEW n \in 1..(Newest + 1),
           opener' = [opener EXCEPT ![o].step = to, ![o].next = n]
    PROVE  /\ opener'[o].step = to /\ opener'[o].next = n /\ opener'[o].has = opener[o].has
           /\ \A p \in Opener : p # o => opener'[p] = opener[p]
           /\ opener' \in [Opener -> [step : {"closed", "migrate", "open"},
                                    has : 1..Newest, next : 1..(Newest + 1)]]
<1> DEFINE State == [step : {"closed", "migrate", "open"},
                     has : 1..Newest, next : 1..(Newest + 1)]
<1> DEFINE moved == [opener[o] EXCEPT !.step = to, !.next = n]
<1>1. opener \in [Opener -> State] /\ opener[o] \in State
  BY DEF MigrationTypeOK
<1>2. opener' = [opener EXCEPT ![o] = moved]
  BY <1>1
<1>3. moved \in State /\ moved.step = to /\ moved.next = n /\ moved.has = opener[o].has
  BY <1>1
<1> HIDE DEF State, moved
<1>4. opener'[o] = moved /\ \A p \in Opener : p # o => opener'[p] = opener[p]
  BY <1>1, <1>2
<1>5. opener' \in [Opener -> State]
  BY <1>1, <1>2, <1>3
<1> QED BY <1>3, <1>4, <1>5 DEF State

\* A process that gives up leaves the database as it was.
LEMMA ClosedKeepsInv ==
    ASSUME MigrationInv, NEW o \in Opener, CloseStore(o), UNCHANGED <<version, applied>>
    PROVE  MigrationInv'
<1> USE MigrationAssumption DEF MigrationInv
<1>1. 1 \in 1..(Newest + 1)
  OBVIOUS
<1>2. /\ opener'[o].step = "closed" /\ \A p \in Opener : p # o => opener'[p] = opener[p]
      /\ opener' \in [Opener -> [step : {"closed", "migrate", "open"},
                               has : 1..Newest, next : 1..(Newest + 1)]]
  BY <1>1, OpenerMoves DEF CloseStore
<1>3. MigrationTypeOK' /\ VersionIsTrue'
  BY <1>2 DEF VersionIsTrue, MigrationTypeOK
<1>4. OpenersFollowVersion'
  BY <1>2 DEF OpenersFollowVersion
<1> QED BY <1>3, <1>4

\* The transaction moves the version by one, and only a process that has read
\* the version before it can be behind.
LEMMA MigrationInvStep == MigrationInv /\ [MigrationNext]_migrationVars => MigrationInv'
<1> SUFFICES ASSUME MigrationInv, [MigrationNext]_migrationVars PROVE MigrationInv'
  OBVIOUS
<1> USE MigrationAssumption
    DEF MigrationInv, MigrationTypeOK, VersionIsTrue, OpenersFollowVersion, CloseStore
<1>1. ASSUME NEW o \in Opener, OpenDatabase(o) PROVE MigrationInv'
  <2>1. version + 1 \in 1..(Newest + 1)
    OBVIOUS
  <2>2. /\ opener'[o].step = "migrate" /\ opener'[o].next = version + 1
        /\ \A p \in Opener : p # o => opener'[p] = opener[p]
        /\ opener' \in [Opener -> [step : {"closed", "migrate", "open"},
                                 has : 1..Newest, next : 1..(Newest + 1)]]
    BY <1>1, <2>1, OpenerMoves DEF OpenDatabase
  <2> QED BY <1>1, <2>2 DEF OpenDatabase
<1>2. ASSUME NEW o \in Opener, ApplyMigration(o) PROVE MigrationInv'
  <2> DEFINE m == opener[o].next
  <2>1. CASE applied[m] = 0
    <3>0. m \in 1..Newest /\ m <= version + 1 /\ version \in 0..Newest
      <4>1. opener[o] \in [step : {"closed", "migrate", "open"},
                          has : 1..Newest, next : 1..(Newest + 1)]
        OBVIOUS
      <4>2. m \in 1..(Newest + 1) /\ opener[o].has \in 1..Newest /\ m <= opener[o].has
        BY <1>2, <4>1 DEF ApplyMigration
      <4> QED BY <1>2, <4>2 DEF ApplyMigration
    <3>1. m = version + 1 /\ m \in 1..Newest
      BY <2>1, <3>0
    <3>2. /\ applied' = [applied EXCEPT ![m] = 1] /\ version' = version + 1
          /\ opener' = [opener EXCEPT ![o].next = m + 1]
      BY <1>2, <2>1, <3>1 DEF ApplyMigration
    <3>3. VersionIsTrue'
      BY <3>1, <3>2
    <3>4. MigrationTypeOK'
      BY <1>2, <3>1, <3>2 DEF ApplyMigration
    <3>5. OpenersFollowVersion'
      BY <1>2, <3>1, <3>2 DEF ApplyMigration
    <3> QED BY <3>3, <3>4, <3>5
  <2>2. CASE applied[m] # 0
    <3>1. CloseStore(o) /\ UNCHANGED <<version, applied>>
      BY <1>2, <2>2 DEF ApplyMigration
    <3> QED BY <3>1, ClosedKeepsInv
  <2> QED BY <2>1, <2>2
<1>3. ASSUME NEW o \in Opener, Opened(o) PROVE MigrationInv'
  BY <1>3 DEF Opened
<1>4. ASSUME NEW o \in Opener, OpenerEnds(o) PROVE MigrationInv'
  BY <1>4, ClosedKeepsInv DEF OpenerEnds
<1>5. CASE UNCHANGED migrationVars
  BY <1>5 DEF migrationVars
<1> QED BY <1>1, <1>2, <1>3, <1>4, <1>5 DEF MigrationNext

\* Any number of processes of any releases: the version says what took effect,
\* and an open store has what its process needs.
LEMMA MigrationIsSafe ==
    MigrationSpec => [](MigrationTypeOK /\ VersionIsTrue /\ OpenIsMigrated)
<1>1. MigrationInv => MigrationTypeOK /\ VersionIsTrue /\ OpenIsMigrated
  BY MigrationAssumption
     DEF MigrationInv, MigrationTypeOK, VersionIsTrue, OpenersFollowVersion, OpenIsMigrated
<1> QED BY <1>1, MigrationInitInv, MigrationInvStep, PTL DEF MigrationSpec

---------------------------------------------------------------------------
(* The dispatch agent *)

Starting(s) == step[s] \in {"check", "create", "record"}

\* Where the agents are that are up, while no Start overlapped another.
AgentIsKnown ==
    /\ \A s \in Server : step[s] = "record" <=> mine[s] # NoAgent
    /\ ~doubt =>
           /\ \A s, o \in Server : Starting(s) /\ Starting(o) => s = o
           /\ \A s \in Server : step[s] = "create" => Up = {}
           /\ \A s \in Server : step[s] = "record" => Up \subseteq {mine[s]}
           /\ (\A s \in Server : step[s] # "record") => Up \subseteq {wsFile}

\* A request that is being dispatched is not counted as new.
DoingIsNotFresh ==
    \A a \in Agent, r \in Request :
        doing[a] = r /\ r # NoAgent => asked[r] # "fresh"

AgentInv == AgentTypeOK /\ AgentIsKnown /\ DoingIsNotFresh /\ RequestIsKept

\* No agent is up and no server has started.
LEMMA AgentInitInv == AgentInit => AgentInv
<1> SUFFICES ASSUME AgentInit PROVE AgentInv
  OBVIOUS
<1> USE AgentAssumption DEF AgentInit
<1>1. AgentTypeOK
  BY DEF AgentTypeOK
<1>2. AgentIsKnown
  BY DEF AgentIsKnown, Up, Starting
<1>3. DoingIsNotFresh /\ RequestIsKept
  BY DEF DoingIsNotFresh, RequestIsKept
<1> QED BY <1>1, <1>2, <1>3 DEF AgentInv

\* Every step writes values of the right kind.
LEMMA AgentTyped == AgentInv /\ [AgentNext]_agentVars => AgentTypeOK'
<1> SUFFICES ASSUME AgentInv, [AgentNext]_agentVars PROVE AgentTypeOK'
  OBVIOUS
<1> USE AgentAssumption DEF AgentInv, AgentTypeOK, Up, loopVars, askVars
<1>1. ASSUME NEW s \in Server, AgentStart(s) PROVE AgentTypeOK'
  BY <1>1 DEF AgentStart
<1>2. ASSUME NEW s \in Server, CheckAlive(s) PROVE AgentTypeOK'
  BY <1>2 DEF CheckAlive
<1>3. ASSUME NEW s \in Server, NewAgent(s) PROVE AgentTypeOK'
  BY <1>3 DEF NewAgent
<1>4. ASSUME NEW s \in Server, RecordAgent(s) PROVE AgentTypeOK'
  BY <1>4 DEF RecordAgent
<1>5. ASSUME NEW s \in Server, StartStops(s) PROVE AgentTypeOK'
  BY <1>5 DEF StartStops
<1>6. ASSUME NEW a \in Agent, AgentCloses(a) PROVE AgentTypeOK'
  BY <1>6 DEF AgentCloses
<1>7. ASSUME NEW a \in Agent, NEW r \in Request, DispatchFile(a, r) PROVE AgentTypeOK'
  BY <1>7 DEF DispatchFile
<1>8. ASSUME NEW a \in Agent, DispatchEnds(a) PROVE AgentTypeOK'
  BY <1>8 DEF DispatchEnds
<1>9. ASSUME NEW a \in Agent, NextRound(a) PROVE AgentTypeOK'
  BY <1>9 DEF NextRound
<1>10. ASSUME NEW r \in Request, Enqueue(r) PROVE AgentTypeOK'
  BY <1>10 DEF Enqueue
<1>11. CASE UNCHANGED agentVars
  BY <1>11 DEF agentVars
<1> QED BY <1>1, <1>2, <1>3, <1>4, <1>5, <1>6, <1>7, <1>8, <1>9, <1>10, <1>11
        DEF AgentNext, AgentRound

\* Who creates an agent found none alive, and is the only one at it.
LEMMA AgentStaysKnown == AgentInv /\ [AgentNext]_agentVars => AgentIsKnown'
<1> SUFFICES ASSUME AgentInv, [AgentNext]_agentVars PROVE AgentIsKnown'
  OBVIOUS
<1> USE AgentAssumption
        DEF AgentInv, AgentTypeOK, AgentIsKnown, Up, Starting, loopVars, askVars
<1>1. ASSUME NEW s \in Server, AgentStart(s) PROVE AgentIsKnown'
  <2>1. /\ step' = [step EXCEPT ![s] = "check"] /\ step[s] \in {"idle", "ready"}
        /\ UNCHANGED <<mine, agent, wsFile>>
    BY <1>1 DEF AgentStart
  <2>2. ~doubt' => ~doubt /\ \A o \in Server \ {s} : ~Starting(o)
    BY <1>1 DEF AgentStart
  <2>3. \A o \in Server : Starting(o)' => Starting(o) \/ o = s
    BY <2>1
  <2>4. \A o \in Server : step'[o] = "record" <=> step[o] = "record"
    BY <2>1
  <2>5. \A o \in Server : step'[o] = "create" => step[o] = "create"
    BY <2>1
  <2>6. ~doubt' => \A t, o \in Server : Starting(t)' /\ Starting(o)' => t = o
    BY <2>2, <2>3
  <2> QED BY <2>1, <2>2, <2>4, <2>5, <2>6
<1>2. ASSUME NEW s \in Server, CheckAlive(s) PROVE AgentIsKnown'
  BY <1>2 DEF CheckAlive
<1>3. ASSUME NEW s \in Server, NewAgent(s) PROVE AgentIsKnown'
  BY <1>3 DEF NewAgent
<1>4. ASSUME NEW s \in Server, RecordAgent(s) PROVE AgentIsKnown'
  BY <1>4 DEF RecordAgent
<1>5. ASSUME NEW s \in Server, StartStops(s) PROVE AgentIsKnown'
  BY <1>5 DEF StartStops
<1>6. ASSUME NEW a \in Agent, AgentCloses(a) PROVE AgentIsKnown'
  BY <1>6 DEF AgentCloses
<1>7. ASSUME NEW a \in Agent, NEW r \in Request, DispatchFile(a, r) PROVE AgentIsKnown'
  BY <1>7 DEF DispatchFile
<1>8. ASSUME NEW a \in Agent, DispatchEnds(a) PROVE AgentIsKnown'
  BY <1>8 DEF DispatchEnds
<1>9. ASSUME NEW a \in Agent, NextRound(a) PROVE AgentIsKnown'
  BY <1>9 DEF NextRound
<1>10. ASSUME NEW r \in Request, Enqueue(r) PROVE AgentIsKnown'
  BY <1>10 DEF Enqueue
<1>11. CASE UNCHANGED agentVars
  BY <1>11 DEF agentVars
<1> QED BY <1>1, <1>2, <1>3, <1>4, <1>5, <1>6, <1>7, <1>8, <1>9, <1>10, <1>11
        DEF AgentNext, AgentRound

\* A file is removed for a dispatch that began after it was written.
LEMMA RequestsStay == AgentInv /\ [AgentNext]_agentVars => (DoingIsNotFresh /\ RequestIsKept)'
<1> SUFFICES ASSUME AgentInv, [AgentNext]_agentVars
             PROVE  (DoingIsNotFresh /\ RequestIsKept)'
  OBVIOUS
<1> USE AgentAssumption
        DEF AgentInv, AgentTypeOK, DoingIsNotFresh, RequestIsKept, Up, loopVars,
            askVars
<1>1. ASSUME NEW s \in Server, AgentStart(s) PROVE (DoingIsNotFresh /\ RequestIsKept)'
  BY <1>1 DEF AgentStart
<1>2. ASSUME NEW s \in Server, CheckAlive(s) PROVE (DoingIsNotFresh /\ RequestIsKept)'
  BY <1>2 DEF CheckAlive
<1>3. ASSUME NEW s \in Server, NewAgent(s) PROVE (DoingIsNotFresh /\ RequestIsKept)'
  BY <1>3 DEF NewAgent
<1>4. ASSUME NEW s \in Server, RecordAgent(s) PROVE (DoingIsNotFresh /\ RequestIsKept)'
  BY <1>4 DEF RecordAgent
<1>5. ASSUME NEW s \in Server, StartStops(s) PROVE (DoingIsNotFresh /\ RequestIsKept)'
  BY <1>5 DEF StartStops
<1>6. ASSUME NEW a \in Agent, AgentCloses(a) PROVE (DoingIsNotFresh /\ RequestIsKept)'
  BY <1>6 DEF AgentCloses
<1>7. ASSUME NEW a \in Agent, NEW r \in Request, DispatchFile(a, r)
       PROVE (DoingIsNotFresh /\ RequestIsKept)'
  BY <1>7 DEF DispatchFile
<1>8. ASSUME NEW a \in Agent, DispatchEnds(a) PROVE (DoingIsNotFresh /\ RequestIsKept)'
  BY <1>8 DEF DispatchEnds
<1>9. ASSUME NEW a \in Agent, NextRound(a) PROVE (DoingIsNotFresh /\ RequestIsKept)'
  BY <1>9 DEF NextRound
<1>10. ASSUME NEW r \in Request, Enqueue(r) PROVE (DoingIsNotFresh /\ RequestIsKept)'
  BY <1>10 DEF Enqueue
<1>11. CASE UNCHANGED agentVars
  BY <1>11 DEF agentVars
<1> QED BY <1>1, <1>2, <1>3, <1>4, <1>5, <1>6, <1>7, <1>8, <1>9, <1>10, <1>11
        DEF AgentNext, AgentRound

\* The invariant of the dispatch agent is inductive.
LEMMA AgentInvStep == AgentInv /\ [AgentNext]_agentVars => AgentInv'
BY AgentTyped, AgentStaysKnown, RequestsStay DEF AgentInv

\* A set with at most one possible member has at most one.
LEMMA AtMostOne ==
    ASSUME NEW x, NEW S, S \subseteq {x}
    PROVE  IsFiniteSet(S) /\ Cardinality(S) <= 1
<1>1. S = {} \/ S = {x}
  OBVIOUS
<1>2. IsFiniteSet({}) /\ Cardinality({}) = 0
  BY FS_EmptySet
<1>3. IsFiniteSet({x}) /\ Cardinality({x}) = 1
  BY FS_Singleton
<1> QED BY <1>1, <1>2, <1>3

\* Any number of servers, agents and requests: one agent is shared while no two
\* Starts overlap, and no request is dropped before its dispatch.
LEMMA AgentIsSafe == AgentSpec => [](AgentTypeOK /\ OneAgentIsShared /\ RequestIsKept)
<1>1. AgentInv => OneAgentIsShared
  <2> SUFFICES ASSUME AgentInv, ~doubt
               PROVE  /\ Up \subseteq {wsFile} \cup {mine[s] : s \in Server}
                      /\ Cardinality(Up) <= 1
    BY DEF OneAgentIsShared
  <2>1. CASE \E s \in Server : step[s] = "record"
    <3>1. PICK s \in Server : step[s] = "record"
      BY <2>1
    <3>2. Up \subseteq {mine[s]}
      BY <3>1 DEF AgentInv, AgentIsKnown
    <3> QED BY <3>2, AtMostOne
  <2>2. CASE \A s \in Server : step[s] # "record"
    <3>1. Up \subseteq {wsFile}
      BY <2>2 DEF AgentInv, AgentIsKnown
    <3> QED BY <3>1, AtMostOne
  <2> QED BY <2>1, <2>2
<1>2. AgentInv => AgentTypeOK /\ RequestIsKept
  BY DEF AgentInv
<1> QED BY <1>1, <1>2, AgentInitInv, AgentInvStep, PTL DEF AgentSpec

---------------------------------------------------------------------------
(* The work journal *)

\* The seconds that nothing can be added to any more once a tick has taken
\* upto: git may be late by the second itself.
Settled(c, t, upto) == IF c = "git" THEN t < upto ELSE t <= upto

\* What a tick has taken or need not take, at each of its steps.
TickCovers(j) ==
    LET k == tick[j]
        done(c) == written[c] \cup unseen[c]
    IN /\ k.step # "idle" => k.at <= wall
       /\ k.step = "collect" =>
              \A c \in Collector : \A t \in happened[c] : Settled(c, t, k.at) =>
                  IF c \in k.todo THEN t \in After(c, k.since) \/ t \in done(c)
                  ELSE t \in done(c) \cup k.items[c]
       /\ k.step = "checkpoint" =>
              \A c \in Collector : \A t \in happened[c] :
                  Settled(c, t, k.at) => t \in done(c)

JournalCovers ==
    /\ checkpoint <= wall
    /\ \A c \in Collector : \A t \in happened[c] :
           t <= wall /\ (Settled(c, t, checkpoint) => t \in written[c] \cup unseen[c])
    /\ \A j \in Journaler : TickCovers(j)

JournalInv == JournalTypeOK /\ JournalCovers

\* Nothing has happened.
LEMMA JournalInitInv == JournalInit => JournalInv
<1> SUFFICES ASSUME JournalInit PROVE JournalInv
  OBVIOUS
<1> USE JournalAssumption DEF JournalInit, NoActivity, NoTick, NoCheckpoint, Time
<1>1. JournalTypeOK
  BY DEF JournalTypeOK, TickState
<1>2. JournalCovers
  BY DEF JournalCovers, TickCovers, Settled
<1> QED BY <1>1, <1>2 DEF JournalInv

\* What a tick starts as is a tick.
LEMMA BegunTick ==
    ASSUME NEW k \in TickState, NEW taken \in Time, NEW back \in (-Interval)..MaxSeconds
    PROVE  [k EXCEPT !.step = "collect", !.at = taken, !.since = back, !.todo = Collector]
               \in TickState
  BY DEF TickState

\* Every step writes values of the right kind.
LEMMA JournalTyped == JournalTypeOK /\ [JournalNext]_journalVars => JournalTypeOK'
<1> SUFFICES ASSUME JournalTypeOK, [JournalNext]_journalVars PROVE  JournalTypeOK'
  OBVIOUS
<1> USE JournalAssumption
        DEF JournalInv, JournalTypeOK, TickState, Time, NoCheckpoint, NoActivity,
            NoTick, activityVars, Stop, After
<1>1. CASE ClockTicks
  BY <1>1 DEF ClockTicks
<1>2. ASSUME NEW c \in Collector, Happens(c) PROVE  JournalTypeOK'
  BY <1>2 DEF Happens
<1>3. ASSUME NEW j \in Journaler, Tick(j) PROVE  JournalTypeOK'
  <2> DEFINE back == IF checkpoint = NoCheckpoint THEN wall - Interval ELSE checkpoint
  <2> DEFINE begun == [NoTick EXCEPT !.step = "collect", !.at = wall, !.since = back,
                                     !.todo = Collector]
  <2>1. tick' = [tick EXCEPT ![j] = begun]
    BY <1>3 DEF Tick
  <2>2. back \in (-Interval)..MaxSeconds
    OBVIOUS
  <2>3. begun \in TickState
    <3>1. NoTick \in TickState
      OBVIOUS
    <3> HIDE DEF NoTick, TickState, back
    <3> QED BY <2>2, <3>1, BegunTick
  <2>4. tick' \in [Journaler -> TickState]
    <3> HIDE DEF begun, TickState
    <3> QED BY <2>1, <2>3
  <2>5. unseen' \in [Collector -> SUBSET Time]
    BY <1>3 DEF Tick
  <2> QED BY <1>3, <2>4, <2>5 DEF Tick
<1>4. ASSUME NEW j \in Journaler, NEW c \in Collector, Collect(j, c) PROVE  JournalTypeOK'
  <2> DEFINE fresh == happened[c] \cap After(c, tick[j].since)
  <2> DEFINE moved == [tick[j] EXCEPT !.todo = @ \ {c}, !.items[c] = fresh]
  <2>1. tick[j] \in TickState /\ fresh \in SUBSET Time
    OBVIOUS
  <2>2. tick' = [tick EXCEPT ![j] = moved]
    BY <1>4 DEF Collect
  <2>3. moved \in TickState
    BY <2>1 DEF TickState
  <2>4. tick' \in [Journaler -> TickState]
    BY <2>2, <2>3
  <2> QED BY <1>4, <2>4 DEF Collect
<1>5. ASSUME NEW j \in Journaler, NEW c \in Collector, CollectFails(j, c) PROVE  JournalTypeOK'
  <2> DEFINE moved == [tick[j] EXCEPT !.todo = @ \ {c}]
  <2>1. tick[j] \in TickState
    OBVIOUS
  <2>2. tick' = [tick EXCEPT ![j] = moved]
    BY <1>5 DEF CollectFails
  <2>3. moved \in TickState
    BY <2>1 DEF TickState
  <2>4. tick' \in [Journaler -> TickState]
    BY <2>2, <2>3
  <2>5. unseen' \in [Collector -> SUBSET Time]
    BY <1>5 DEF CollectFails
  <2> QED BY <1>5, <2>4, <2>5 DEF CollectFails
<1>6. ASSUME NEW j \in Journaler, AppendEntry(j) PROVE  JournalTypeOK'
  <2> DEFINE moved == [tick[j] EXCEPT !.step = "checkpoint", !.items = NoActivity]
  <2>1. tick[j] \in TickState
    OBVIOUS
  <2>2. tick' = [tick EXCEPT ![j] = moved]
    BY <1>6 DEF AppendEntry
  <2>3. moved \in TickState
    BY <2>1 DEF TickState
  <2>4. tick' \in [Journaler -> TickState]
    BY <2>2, <2>3
  <2>5. written' \in [Collector -> SUBSET Time]
    <3>1. \A c \in Collector : written[c] \cup tick[j].items[c] \in SUBSET Time
      BY <2>1 DEF TickState
    <3> QED BY <1>6, <3>1 DEF AppendEntry
  <2> QED BY <1>6, <2>4, <2>5 DEF AppendEntry
<1>7. ASSUME NEW j \in Journaler, UpdateCheckpoint(j) PROVE  JournalTypeOK'
  BY <1>7 DEF UpdateCheckpoint
<1>8. ASSUME NEW j \in Journaler, TickFails(j) PROVE  JournalTypeOK'
  BY <1>8 DEF TickFails
<1>9. CASE UNCHANGED journalVars
  BY <1>9 DEF journalVars
<1> QED BY <1>1, <1>2, <1>3, <1>4, <1>5, <1>6, <1>7, <1>8, <1>9
        DEF JournalNext

\* No step uncovers a second that is settled.
LEMMA JournalStaysCovered == JournalInv /\ [JournalNext]_journalVars => JournalCovers'
<1> SUFFICES ASSUME JournalInv, [JournalNext]_journalVars PROVE  JournalCovers'
  OBVIOUS
<1> USE JournalAssumption
        DEF JournalInv, JournalTypeOK, TickState, JournalCovers, TickCovers, Settled,
            Time, NoCheckpoint, NoActivity, NoTick, activityVars, Stop, After
<1>1. CASE ClockTicks
  BY <1>1 DEF ClockTicks
<1>2. ASSUME NEW c \in Collector, Happens(c) PROVE  JournalCovers'
  <2>1. /\ happened' = [happened EXCEPT ![c] = @ \cup {wall}]
        /\ UNCHANGED <<wall, written, checkpoint, tick>>
    BY <1>2 DEF Happens
  <2>2. /\ \A d \in Collector : unseen[d] \subseteq unseen'[d]
        /\ \A d \in Collector : \A t \in happened'[d] : t \in happened[d] \/ (d = c /\ t = wall)
    BY <1>2 DEF Happens
  <2>3. /\ Settled(c, wall, checkpoint) => wall \in unseen'[c]
        /\ \A j \in Journaler :
               tick[j].step # "idle" /\ Settled(c, wall, tick[j].at) => wall \in unseen'[c]
    <3>1. wall \in Nat /\ checkpoint \in Int /\ checkpoint <= wall
      OBVIOUS
    <3>2. CASE c = "git"
      BY <3>1, <3>2
    <3>3. CASE c # "git" /\ (wall = checkpoint \/ \E j \in Journaler : tick[j].step # "idle" /\ tick[j].at = wall)
      <4>1. unseen'[c] = unseen[c] \cup {wall}
        BY <1>2, <3>3 DEF Happens
      <4> QED BY <4>1
    <3>4. CASE wall # checkpoint /\ \A j \in Journaler : tick[j].step = "idle" \/ tick[j].at # wall
      <4>1. ASSUME NEW j \in Journaler, tick[j].step # "idle" 
            PROVE  ~Settled(c, wall, tick[j].at)
        <5>1. tick[j].at \in Nat /\ tick[j].at <= wall
          BY <4>1
        <5>2. tick[j].at # wall
          BY <3>4, <4>1
        <5> QED BY <3>1, <5>1, <5>2
      <4>2. ~Settled(c, wall, checkpoint)
        BY <3>1, <3>4
      <4> QED BY <4>1, <4>2
    <3> QED BY <3>2, <3>3, <3>4
  <2>4. \A d \in Collector : \A t \in happened'[d] :
            t <= wall' /\ (Settled(d, t, checkpoint') => t \in written'[d] \cup unseen'[d])
    BY <2>1, <2>2, <2>3
  <2>5. ASSUME NEW j \in Journaler PROVE TickCovers(j)'
    BY <2>1, <2>2, <2>3
  <2> QED BY <2>1, <2>4, <2>5
<1>3. ASSUME NEW j \in Journaler, Tick(j) PROVE  JournalCovers'
  BY <1>3 DEF Tick
<1>4. ASSUME NEW j \in Journaler, NEW c \in Collector, Collect(j, c) PROVE  JournalCovers'
  BY <1>4 DEF Collect, Asked
<1>5. ASSUME NEW j \in Journaler, NEW c \in Collector, CollectFails(j, c) PROVE  JournalCovers'
  BY <1>5 DEF CollectFails, Asked
<1>6. ASSUME NEW j \in Journaler, AppendEntry(j) PROVE  JournalCovers'
  BY <1>6 DEF AppendEntry
<1>7. ASSUME NEW j \in Journaler, UpdateCheckpoint(j) PROVE  JournalCovers'
  BY <1>7 DEF UpdateCheckpoint
<1>8. ASSUME NEW j \in Journaler, TickFails(j) PROVE  JournalCovers'
  BY <1>8 DEF TickFails
<1>9. CASE UNCHANGED journalVars
  BY <1>9 DEF journalVars
<1> QED BY <1>1, <1>2, <1>3, <1>4, <1>5, <1>6, <1>7, <1>8, <1>9
        DEF JournalNext

\* With any journalers, collectors and interval, ticks overlapping and failing:
\* nothing that lies behind the checkpoint is missing without a known reason.
LEMMA JournalIsSafe == JournalSpec => [](JournalTypeOK /\ NothingLeftBehind)
<1>1. JournalInv /\ [JournalNext]_journalVars => JournalInv'
  BY JournalTyped, JournalStaysCovered DEF JournalInv
<1>2. JournalInv => JournalTypeOK /\ NothingLeftBehind
  BY DEF JournalInv, JournalCovers, NothingLeftBehind, Settled, JournalTypeOK, Time,
         NoCheckpoint
<1> QED BY <1>1, <1>2, JournalInitInv, PTL DEF JournalSpec

---------------------------------------------------------------------------
(* The daemon log *)

\* Files that follow one another without a gap, up to the line before next.
Chained(files, next) ==
    \A k \in 1..Len(files) :
        /\ files[k] # <<>> /\ NoGapIn(files[k])
        /\ Len(files[k]) > 1 => Bytes(files[k]) <= MaxBytes
        /\ files[k][Len(files[k])].number + 1
             = IF k < Len(files) THEN files[k + 1][1].number ELSE next

\* The first line that is not in the backups.
AfterOld == IF active = <<>> THEN accepted + 1 ELSE active[1].number

LogInv ==
    /\ RotatingLogTypeOK /\ Chained(old, AfterOld) /\ NoGapIn(active)
    /\ active # <<>> => active[Len(active)].number = accepted /\ Bytes(active) > 0
    /\ Len(active) > 1 => Bytes(active) <= MaxBytes
    /\ isOpen => size = Bytes(active)
    /\ accepted > 0 => active # <<>> \/ old # <<>>

\* Where a file ends is a length.
LEMMA BytesIsNat == ASSUME NEW one \in Seq(LogLine) PROVE Bytes(one) \in Nat
<1>1. CASE one = <<>>
  BY <1>1 DEF Bytes
<1>2. CASE one # <<>>
  <2>1. one[Len(one)] \in LogLine
    BY <1>2
  <2> QED BY <1>2, <2>1 DEF Bytes, LogLine
<1> QED BY <1>1, <1>2

\* A file that ends where the next one begins makes a longer chain.
LEMMA ChainGrows ==
    ASSUME NEW files \in Seq(Seq(LogLine)), NEW one \in Seq(LogLine), NEW next,
           one # <<>>, NoGapIn(one), Len(one) > 1 => Bytes(one) <= MaxBytes,
           one[Len(one)].number + 1 = next, Chained(files, one[1].number)
    PROVE  Chained(Append(files, one), next)
<1> DEFINE longer == Append(files, one)
<1>1. /\ Len(longer) = Len(files) + 1 /\ longer[Len(files) + 1] = one
      /\ \A k \in 1..Len(files) : longer[k] = files[k]
  OBVIOUS
<1> HIDE DEF longer
<1>2. ASSUME NEW k \in 1..Len(longer)
      PROVE  /\ longer[k] # <<>> /\ NoGapIn(longer[k])
             /\ Len(longer[k]) > 1 => Bytes(longer[k]) <= MaxBytes
             /\ longer[k][Len(longer[k])].number + 1
                  = IF k < Len(longer) THEN longer[k + 1][1].number ELSE next
  <2>1. CASE k = Len(files) + 1
    BY <1>1, <2>1
  <2>2. CASE k \in 1..Len(files)
    <3>1. longer[k] = files[k] /\ (k < Len(files) => longer[k + 1] = files[k + 1])
      <4>1. Len(files) \in Nat
        OBVIOUS
      <4>2. k < Len(files) => k + 1 \in 1..Len(files)
        BY <2>2, <4>1
      <4> QED BY <1>1, <2>2, <4>2
    <3>2. k < Len(longer) /\ (k = Len(files) => longer[k + 1] = one)
      BY <1>1, <2>2
    <3>3. Len(files) \in Nat
      OBVIOUS
    <3> QED BY <2>2, <3>1, <3>2, <3>3 DEF Chained
  <2> QED BY <1>1, <2>1, <2>2
<1>3. Chained(longer, next)
  BY <1>2 DEF Chained
<1> QED BY <1>3 DEF longer

\* Pruning leaves the newest backups, one of them at least.
LEMMA PruningKeepsTheNewest ==
    ASSUME NEW files \in Seq(Seq(LogLine)), NEW next, Chained(files, next), files # <<>>
    PROVE  /\ PruneBackups(files) \in Seq(Seq(LogLine)) /\ PruneBackups(files) # <<>>
           /\ Chained(PruneBackups(files), next)
<1> DEFINE fewer == Len(files) - MaxBackupFiles
<1>1. CASE MaxBackupFiles = 0 \/ Len(files) <= MaxBackupFiles
  BY <1>1 DEF PruneBackups
<1>2. CASE MaxBackupFiles # 0 /\ Len(files) > MaxBackupFiles
  <2> DEFINE newest == SubSeq(files, fewer + 1, Len(files))
  <2>1. PruneBackups(files) = newest
    <3>1. ~(MaxBackupFiles = 0 \/ Len(files) <= MaxBackupFiles)
      BY <1>2, RotatingLogAssumption
    <3> QED BY <3>1 DEF PruneBackups
  <2>2. fewer \in 1..Len(files) /\ fewer < Len(files) /\ MaxBackupFiles \in Nat \ {0}
    BY <1>2, RotatingLogAssumption
  <2>3. /\ newest \in Seq(Seq(LogLine)) /\ Len(newest) = MaxBackupFiles
        /\ \A k \in 1..Len(newest) : newest[k] = files[k + fewer]
    BY <2>2
  <2> HIDE DEF newest
  <2>4. Chained(newest, next)
    <3> SUFFICES ASSUME NEW k \in 1..Len(newest)
                 PROVE  /\ newest[k] # <<>> /\ NoGapIn(newest[k])
                        /\ Len(newest[k]) > 1 => Bytes(newest[k]) <= MaxBytes
                        /\ newest[k][Len(newest[k])].number + 1
                             = IF k < Len(newest) THEN newest[k + 1][1].number ELSE next
      BY DEF Chained
    <3>1. k + fewer \in 1..Len(files) /\ newest[k] = files[k + fewer]
      BY <2>2, <2>3
    <3>2. k < Len(newest) => newest[k + 1] = files[k + fewer + 1] /\ k + fewer < Len(files)
      BY <2>2, <2>3
    <3>3. k = Len(newest) => k + fewer = Len(files)
      BY <2>2, <2>3
    <3>4. /\ files[k + fewer] # <<>> /\ NoGapIn(files[k + fewer])
          /\ Len(files[k + fewer]) > 1 => Bytes(files[k + fewer]) <= MaxBytes
          /\ files[k + fewer][Len(files[k + fewer])].number + 1
               = IF k + fewer < Len(files) THEN files[k + fewer + 1][1].number ELSE next
      BY <3>1 DEF Chained
    <3>5. k < Len(newest) \/ k = Len(newest)
      BY <2>2, <2>3
    <3>6. k = Len(newest) => ~(k < Len(newest)) /\ ~(k + fewer < Len(files))
      BY <2>2, <3>3
    <3> HIDE DEF fewer
    <3> QED BY <3>1, <3>2, <3>4, <3>5, <3>6
  <2>5. newest # <<>>
    BY <2>2, <2>3
  <2> QED BY <2>1, <2>3, <2>4, <2>5
<1> QED BY <1>1, <1>2, RotatingLogAssumption

\* The file the writer closes joins the backups.
LEMMA ActiveJoins ==
    ASSUME LogInv, active # <<>>
    PROVE  /\ Append(old, active) \in Seq(Seq(LogLine)) /\ Append(old, active) # <<>>
           /\ Chained(Append(old, active), accepted + 1)
<1>1. /\ old \in Seq(Seq(LogLine)) /\ active \in Seq(LogLine) /\ NoGapIn(active)
      /\ Len(active) > 1 => Bytes(active) <= MaxBytes
      /\ active[Len(active)].number + 1 = accepted + 1 /\ Chained(old, active[1].number)
  BY DEF LogInv, RotatingLogTypeOK, AfterOld
<1>2. Chained(Append(old, active), accepted + 1)
  BY <1>1, ChainGrows
<1>3. Append(old, active) \in Seq(Seq(LogLine))
  BY <1>1
<1>4. Len(Append(old, active)) = Len(old) + 1 /\ Len(old) \in Nat
  BY <1>1
<1>5. Append(old, active) # <<>>
  BY <1>4
<1> QED BY <1>2, <1>3, <1>5

\* A line too many comes only after one that is there.
LEMMA OverflowsAfterALine ==
    ASSUME LogInv, isOpen, NEW n, Overflows(n) PROVE active # <<>>
  BY DEF LogInv, RotatingLogTypeOK, Overflows, Bytes

\* A line that the file has room for, or that is its first.
LEMMA LineFits ==
    ASSUME LogInv, NEW n \in Lengths, isOpen, accepted < MaxLines, ~Overflows(n),
           active' = Append(active, NextLine(active, n)), size' = size + n,
           accepted' = accepted + 1, UNCHANGED <<old, isOpen>>
    PROVE  LogInv'
<1> DEFINE line == NextLine(active, n)
<1>1. n \in Nat \ {0} /\ Bytes(active) \in Nat /\ accepted \in 0..MaxLines /\ MaxLines \in Nat
  BY RotatingLogAssumption, BytesIsNat DEF LogInv, RotatingLogTypeOK
<1>2. /\ line \in LogLine /\ line.number = accepted + 1 /\ line.upto = Bytes(active) + n
  BY <1>1 DEF NextLine, LogLine
<1>3. active \in Seq(LogLine)
  BY DEF LogInv, RotatingLogTypeOK
<1>4. active' = Append(active, line)
  OBVIOUS
<1> HIDE DEF line
<1>5. /\ active' \in Seq(LogLine) /\ Len(active') = Len(active) + 1 /\ active' # <<>>
      /\ active'[Len(active')] = line
      /\ \A i \in 1..Len(active) : active'[i] = active[i]
  BY <1>2, <1>3, <1>4
<1>6. Bytes(active') = Bytes(active) + n
  BY <1>2, <1>5 DEF Bytes
<1>7. RotatingLogTypeOK'
  BY <1>1, <1>5 DEF LogInv, RotatingLogTypeOK
<1>8. AfterOld' = AfterOld
  <2>1. CASE active = <<>>
    BY <1>2, <1>5, <2>1 DEF AfterOld
  <2>2. CASE active # <<>>
    <3>1. 1 \in 1..Len(active)
      BY <1>3, <2>2
    <3> QED BY <1>5, <2>2, <3>1 DEF AfterOld
  <2> QED BY <2>1, <2>2
<1>9. NoGapIn(active')
  <2> SUFFICES ASSUME NEW i \in 1..Len(active')
               PROVE  active'[i].number = active'[1].number + i - 1
    BY DEF NoGapIn
  <2>1. CASE active = <<>>
    BY <1>2, <1>1, <1>5, <2>1
  <2>2. CASE active # <<>>
    <3>1. Len(active) \in 1..Len(active) /\ 1 \in 1..Len(active)
      BY <1>3, <2>2
    <3>2. /\ active[Len(active)].number = accepted
          /\ \A m \in 1..Len(active) : active[m].number = active[1].number + m - 1
          /\ active[1].number \in Nat
      <4>1. active[1] \in LogLine
        BY <1>3, <3>1
      <4>2. active[1].number \in Nat
        BY <4>1, RotatingLogAssumption DEF LogLine
      <4> QED BY <2>2, <4>2 DEF LogInv, NoGapIn
    <3>3. CASE i \in 1..Len(active)
      BY <1>5, <3>1, <3>2, <3>3
    <3>4. CASE i = Len(active) + 1
      <4>1. active'[i] = line /\ active'[1] = active[1]
        BY <1>5, <3>1, <3>4
      <4>2. accepted = active[1].number + Len(active) - 1
        BY <3>1, <3>2
      <4>3. Len(active) \in Nat
        BY <1>3
      <4> QED BY <4>1, <4>2, <4>3, <1>2, <1>1, <3>2, <3>4
    <3> QED BY <1>5, <1>3, <3>3, <3>4
  <2> QED BY <2>1, <2>2
<1>10. Len(active') > 1 => Bytes(active') <= MaxBytes
  <2>1. Len(active') > 1 => active # <<>>
    BY <1>5, <1>3
  <2> QED BY <2>1, <1>1, <1>6, RotatingLogAssumption DEF LogInv, Overflows
<1>11. Chained(old', AfterOld')
  BY <1>8 DEF LogInv
<1>12. active' # <<>> => active'[Len(active')].number = accepted' /\ Bytes(active') > 0
  BY <1>1, <1>2, <1>5, <1>6
<1>13. isOpen' => size' = Bytes(active')
  BY <1>6 DEF LogInv
<1> QED BY <1>5, <1>7, <1>9, <1>10, <1>11, <1>12, <1>13 DEF LogInv

\* The line goes into a new file.
LEMMA LineRotates ==
    ASSUME LogInv, NEW n \in Lengths, isOpen, accepted < MaxLines, Overflows(n),
           active' = <<NextLine(<<>>, n)>>, size' = n,
           old' = PruneBackups(Append(old, active)),
           accepted' = accepted + 1, UNCHANGED isOpen
    PROVE  LogInv'
<1> DEFINE line == NextLine(<<>>, n)
<1>1. n \in Nat \ {0} /\ accepted \in 0..MaxLines /\ MaxLines \in Nat
  BY RotatingLogAssumption DEF LogInv, RotatingLogTypeOK
<1>2. line \in LogLine /\ line.number = accepted + 1 /\ line.upto = n
  BY <1>1 DEF NextLine, LogLine, Bytes
<1>3. /\ Append(old, active) \in Seq(Seq(LogLine)) /\ Append(old, active) # <<>>
      /\ Chained(Append(old, active), accepted + 1)
  BY ActiveJoins, OverflowsAfterALine
<1>4. /\ old' \in Seq(Seq(LogLine)) /\ Chained(old', accepted + 1)
  BY <1>3, PruningKeepsTheNewest
<1>5. active' = <<line>>
  OBVIOUS
<1> HIDE DEF line
<1>6. /\ active' \in Seq(LogLine) /\ Len(active') = 1 /\ active'[1] = line /\ active' # <<>>
  BY <1>2, <1>5
<1>7. RotatingLogTypeOK'
  BY <1>1, <1>4, <1>6 DEF LogInv, RotatingLogTypeOK
<1>8. Chained(old', AfterOld')
  BY <1>2, <1>4, <1>6 DEF AfterOld
<1>9. NoGapIn(active')
  BY <1>1, <1>2, <1>6 DEF NoGapIn
<1> QED BY <1>1, <1>2, <1>6, <1>7, <1>8, <1>9 DEF LogInv, Bytes

\* The file is a backup now and the new one has no line.
LEMMA FileIsMoved ==
    ASSUME LogInv, active # <<>>, old' = Append(old, active), active' = <<>>, size' = 0,
           isOpen' \in BOOLEAN, UNCHANGED accepted
    PROVE  LogInv'
<1>1. /\ Append(old, active) \in Seq(Seq(LogLine)) /\ Append(old, active) # <<>>
      /\ Chained(Append(old, active), accepted + 1)
  BY ActiveJoins
<1>2. RotatingLogTypeOK'
  BY <1>1 DEF LogInv, RotatingLogTypeOK
<1>3. Chained(old', AfterOld')
  BY <1>1 DEF AfterOld
<1> QED BY <1>1, <1>2, <1>3 DEF LogInv, NoGapIn, Bytes

\* The invariant is inductive.
LEMMA LogInvStep == LogInv /\ [RotatingLogNext]_logVars => LogInv'
<1> SUFFICES ASSUME LogInv, [RotatingLogNext]_logVars PROVE  LogInv'
  OBVIOUS
<1>1. CASE NewRotatingFile
  <2>1. Bytes(active) \in Nat
    BY BytesIsNat DEF LogInv, RotatingLogTypeOK
  <2> QED BY <1>1, <2>1 DEF NewRotatingFile, LogInv, RotatingLogTypeOK, AfterOld
<1>2. CASE CloseLog
  BY <1>2 DEF CloseLog, LogInv, RotatingLogTypeOK, AfterOld
<1>3. ASSUME NEW n \in Lengths, WriteLine(n) PROVE  LogInv'
  <2>1. CASE Overflows(n)
    BY <1>3, <2>1, LineRotates DEF WriteLine
  <2>2. CASE ~Overflows(n)
    BY <1>3, <2>2, LineFits DEF WriteLine
  <2> QED BY <2>1, <2>2
<1>4. ASSUME NEW n \in Lengths, PruneFails(n) PROVE  LogInv'
  <2>1. active # <<>> /\ isOpen' \in BOOLEAN
    BY <1>4, OverflowsAfterALine DEF PruneFails, LogInv, RotatingLogTypeOK
  <2> QED BY <1>4, <2>1, FileIsMoved DEF PruneFails
<1>5. ASSUME NEW n \in Lengths, NEW renamed \in BOOLEAN, RotateFails(n, renamed) PROVE  LogInv'
  <2>1. active # <<>>
    BY <1>5, OverflowsAfterALine DEF RotateFails
  <2>2. CASE renamed
    BY <1>5, <2>1, <2>2, FileIsMoved DEF RotateFails
  <2>3. CASE ~renamed
    BY <1>5, <2>3 DEF RotateFails, LogInv, RotatingLogTypeOK, AfterOld
  <2> QED BY <2>2, <2>3
<1>6. CASE UNCHANGED logVars
  BY <1>6 DEF logVars, LogInv, RotatingLogTypeOK, AfterOld
<1> QED BY <1>1, <1>2, <1>3, <1>4, <1>5, <1>6 DEF RotatingLogNext

\* Whatever the lengths, the limits, the failed rotations and the restarts: the
\* log is the newest accepted lines without a gap, in files of the allowed size.
LEMMA LogIsSafe ==
    RotatingLogSpec => [](RotatingLogTypeOK /\ NewestLinesRemain /\ FilesAreBounded)
<1>1. RotatingLogInit => LogInv
  BY RotatingLogAssumption
     DEF RotatingLogInit, LogInv, RotatingLogTypeOK, Chained, NoGapIn, Bytes, AfterOld
<1>2. LogInv => RotatingLogTypeOK /\ NewestLinesRemain /\ FilesAreBounded
  <2> SUFFICES ASSUME LogInv PROVE NewestLinesRemain /\ FilesAreBounded
    BY DEF LogInv
  <2>1. \A k \in 1..Len(old) : NumberAfter(k) = IF k < Len(old) THEN old[k + 1][1].number
                                                ELSE AfterOld
    BY DEF NumberAfter, AfterOld
  <2> QED BY <2>1 DEF LogInv, Chained, NewestLinesRemain, FilesAreBounded
<1> QED BY <1>1, <1>2, LogInvStep, PTL DEF RotatingLogSpec

---------------------------------------------------------------------------
(* The secret store *)

\* A call that is about to change the vault.
InVault(u) == use[u].step \in {"phrase", "load", "save"} /\ use[u].op # "get"

\* A call knows what it is about, in the backend it was made in.
CallIsComplete(u) ==
    LET c == use[u]
    IN /\ c.step # "idle" => c.name \in Secret
       /\ c.step \in {"phrase", "load", "save", "item"} => c.value \in SecretValue
       /\ c.step \in {"phrase", "load", "save"} => opened[u] = "age"
       /\ c.step = "item" => opened[u] \notin {"age", None}
       /\ c.step = "save" => c.op # "get"

\* What the call leaves for its secret.
Outcome(c) == IF c.op = "set" THEN c.value ELSE Absent

\* Until two changes overlap, the one that is under way has read the vault that
\* is there.
VaultIsCurrent ==
    ~contended =>
        /\ \A u, o \in User : InVault(u) /\ InVault(o) => u = o
        /\ \A u \in User : InVault(u) /\ use[u].step # "save" /\ use[u].fresh => vault = NoVault
        /\ \A u \in User : use[u].step = "save" =>
               use[u].loaded = [vault.values EXCEPT ![use[u].name] = Outcome(use[u])]

SecretInv ==
    /\ SecretsAreKept /\ VaultIsCurrent
    /\ \A u \in User : CallIsComplete(u)

\* Auto mode settles on a backend that can be opened, or on none.
LEMMA AutoBackendIsUsable ==
    ASSUME NEW usable \in SUBSET Installed
    PROVE  AutoBackend(usable) \in usable \cup {None}
<1> SUFFICES ASSUME usable # {} PROVE AutoBackend(usable) \in usable
  BY DEF AutoBackend
<1>1. DOMAIN AutoOrder = 1..4
  BY DEF AutoOrder
<1>2. PICK i \in 1..4 : AutoOrder[i] \in usable
  BY <1>1, SecretAssumption DEF Range
<1> HIDE DEF AutoOrder
<1> DEFINE First(k) == AutoOrder[k] \in usable /\ \A j \in 1..4 : j < k => AutoOrder[j] \notin usable
<1>3. \E k \in 1..4 : First(k)
  <2>1. CASE AutoOrder[1] \in usable
    BY <2>1
  <2>2. CASE AutoOrder[1] \notin usable /\ AutoOrder[2] \in usable
    BY <2>2
  <2>3. CASE AutoOrder[1] \notin usable /\ AutoOrder[2] \notin usable /\ AutoOrder[3] \in usable
    BY <2>3
  <2>4. CASE AutoOrder[1] \notin usable /\ AutoOrder[2] \notin usable /\ AutoOrder[3] \notin usable
    BY <1>2, <2>4
  <2> QED BY <2>1, <2>2, <2>3, <2>4
<1>4. First(CHOOSE k \in 1..4 : First(k))
  BY <1>3
<1> QED BY <1>1, <1>4 DEF AutoBackend

\* No store is open, and there is no vault.
LEMMA SecretInitInv == SecretInit => SecretInv
<1> SUFFICES ASSUME SecretInit PROVE SecretInv
  OBVIOUS
<1> USE SecretAssumption DEF SecretInit
<1>1. Nothing \in Stored
  BY DEF Nothing, Stored
<1>2. NotInUse \in Use
  BY <1>1 DEF NotInUse, Use
<1>3. NoVault \in [phrase : Phrase \cup {None}, values : Stored] /\ NoVault.values = Nothing
  BY <1>1 DEF NoVault, Nothing
<1>4. NotInUse.step = "idle"
  BY DEF NotInUse
<1>5. SecretTypeOK
  BY <1>1, <1>2, <1>3 DEF SecretTypeOK
<1>6. SetsAreKept /\ ChangesAreRecorded
  BY <1>3 DEF SetsAreKept, ChangesAreRecorded
<1>7. VaultIsCurrent /\ \A u \in User : CallIsComplete(u)
  BY <1>4 DEF VaultIsCurrent, CallIsComplete, InVault
<1> QED BY <1>5, <1>6, <1>7 DEF SecretInv, SecretsAreKept

---------------------------------------------------------------------------

\* The records that a call is made of.
LEMMA IdleIsUse == Nothing \in Stored /\ NotInUse \in Use /\ NotInUse.step = "idle"
<1>1. Nothing \in Stored
  BY DEF Nothing, Stored
<1> QED BY <1>1 DEF NotInUse, Use

LEMMA AuditIsUse ==
    ASSUME NEW o \in {"get", "set", "delete"}, NEW n \in Secret, NEW next,
           next = [NotInUse EXCEPT !.step = "audit", !.op = o, !.name = n]
    PROVE  next \in Use /\ next.step = "audit" /\ next.name = n
<1>1. NotInUse \in Use
  BY IdleIsUse
<1> QED BY <1>1 DEF Use

\* What a call comes to when it has the vault: an end, a line to record, or the
\* vault with its outcome to save.
LEMMA LoadedKinds ==
    ASSUME NEW c \in Use, NEW values \in Stored, c.name \in Secret, c.value \in SecretValue,
           NEW next, next = AfterLoad(c, values)
    PROVE  /\ next \in Use
           /\ \/ next = NotInUse
              \/ next.step = "audit" /\ next.name = c.name
              \/ /\ next.step = "save" /\ c.op # "get" /\ next.op = c.op
                 /\ next.name = c.name /\ next.value = c.value
                 /\ next.loaded = [values EXCEPT ![c.name] = Outcome(c)]
<1> DEFINE amended == [values EXCEPT ![c.name] = Outcome(c)]
<1>1. amended \in Stored
  BY DEF Stored, Outcome
<1>2. c.op \in {"get", "set", "delete"}
  BY DEF Use
<1>3. \/ next = NotInUse
      \/ next = [NotInUse EXCEPT !.step = "audit", !.op = c.op, !.name = c.name]
      \/ c.op # "get" /\ next = [c EXCEPT !.step = "save", !.loaded = amended]
  <2>1. CASE c.op = "get"
    BY <2>1 DEF AfterLoad
  <2>2. CASE c.op = "set"
    BY <2>2 DEF AfterLoad, Outcome
  <2>3. CASE c.op = "delete"
    BY <2>3 DEF AfterLoad, Outcome
  <2> QED BY <1>2, <2>1, <2>2, <2>3
<1> HIDE DEF amended
<1>4. CASE next = NotInUse
  BY <1>4, IdleIsUse
<1>5. CASE next = [NotInUse EXCEPT !.step = "audit", !.op = c.op, !.name = c.name]
  <2>1. NotInUse \in Use
    BY IdleIsUse
  <2> QED BY <1>2, <1>5, <2>1 DEF Use
<1>6. CASE c.op # "get" /\ next = [c EXCEPT !.step = "save", !.loaded = amended]
  <2>1. /\ next \in Use /\ next.step = "save" /\ next.op = c.op /\ next.name = c.name
        /\ next.value = c.value /\ next.loaded = amended
    BY <1>1, <1>6 DEF Use
  <2> QED BY <1>6, <2>1 DEF amended
<1> QED BY <1>3, <1>4, <1>5, <1>6

\* What LoadVault makes of the call that has asked for the vault.
LEMMA VaultIsLoaded ==
    ASSUME SecretInv, NEW u \in User, LoadVault(u)
    PROVE  \E next \in Use :
               /\ use' = [use EXCEPT ![u] = next]
               /\ \/ next = NotInUse
                  \/ next.step = "audit" /\ next.name = use[u].name
                  \/ /\ next.step = "save" /\ use[u].op # "get" /\ next.op = use[u].op
                     /\ next.name = use[u].name /\ next.value = use[u].value
                     /\ next.loaded = [Decrypted(u) EXCEPT ![use[u].name] = Outcome(use[u])]
<1> DEFINE values == Decrypted(u)
<1>1. use[u] \in Use /\ values \in Stored
  BY IdleIsUse DEF SecretInv, SecretsAreKept, SecretTypeOK, Decrypted
<1>2. use[u].name \in Secret /\ use[u].value \in SecretValue
  BY DEF SecretInv, CallIsComplete, LoadVault
<1>3. CASE Opens(u)
  <2>1. use' = [use EXCEPT ![u] = AfterLoad(use[u], values)]
    BY <1>3 DEF LoadVault
  <2> HIDE DEF values
  <2> DEFINE next == AfterLoad(use[u], values)
  <2>2. /\ next \in Use
        /\ \/ next = NotInUse
           \/ next.step = "audit" /\ next.name = use[u].name
           \/ /\ next.step = "save" /\ use[u].op # "get" /\ next.op = use[u].op
              /\ next.name = use[u].name /\ next.value = use[u].value
              /\ next.loaded = [values EXCEPT ![use[u].name] = Outcome(use[u])]
    BY <1>1, <1>2, LoadedKinds
  <2> HIDE DEF next
  <2> QED BY <2>1, <2>2 DEF next, values
<1>4. CASE ~Opens(u)
  BY <1>4, IdleIsUse DEF LoadVault, UseEnds
<1> QED BY <1>3, <1>4

\* What a call begins with.
LEMMA CallBegins ==
    ASSUME SecretInv, NEW u \in User, NEW what \in {"get", "set", "delete"}, NEW n \in Secret,
           NEW v \in SecretValue, BeginUse(u, what, n, v)
    PROVE  \E next \in Use :
               /\ use' = [use EXCEPT ![u] = next] /\ next.step \in {"phrase", "item", "audit"}
               /\ next.op = what /\ next.fresh = (vault = NoVault)
               /\ next.step = "phrase" => opened[u] = "age"
<1> DEFINE fresh == vault = NoVault
<1> DEFINE first == IF opened[u] # "age" THEN "item"
                    ELSE IF ~fresh \/ what = "set" THEN "phrase"
                    ELSE IF what = "delete" THEN "audit" ELSE "idle"
<1> DEFINE next == [NotInUse EXCEPT !.step = first, !.op = what, !.name = n, !.value = v,
                                    !.fresh = fresh]
<1>1. first # "idle" /\ use' = [use EXCEPT ![u] = next]
  BY DEF BeginUse
<1>2. first \in {"phrase", "item", "audit"} /\ (first = "phrase" => opened[u] = "age")
  BY <1>1
<1>3. fresh \in BOOLEAN
  OBVIOUS
<1> HIDE DEF first, fresh
<1>4. next \in Use /\ next.step = first /\ next.op = what /\ next.fresh = fresh
  <2>1. NotInUse \in Use
    BY IdleIsUse
  <2> QED BY <1>2, <1>3, <2>1 DEF Use
<1> HIDE DEF next
<1> QED BY <1>1, <1>2, <1>4 DEF fresh

\* Reading an item ends a call; changing one sets the item and what is to be kept.
LEMMA ItemIsTouched ==
    ASSUME SecretInv, NEW u \in User, TouchItem(u)
    PROVE  \/ use' = [use EXCEPT ![u] = NotInUse] /\ UNCHANGED <<item, kept, silent>>
           \/ \E next \in Use, b \in Installed \ {"age"}, to \in SecretValue \cup {Absent} :
                  /\ use' = [use EXCEPT ![u] = next]
                  /\ next.step = "audit" /\ next.name = use[u].name /\ use[u].name \in Secret
                  /\ item' = [item EXCEPT ![b] = [@ EXCEPT ![use[u].name] = to]]
                  /\ kept' = [kept EXCEPT ![b] = [@ EXCEPT ![use[u].name] = to]]
                  /\ silent' = silent \cup {use[u].name}
<1>1. CASE use[u].op = "get"
  BY <1>1 DEF TouchItem, UseEnds
<1>2. CASE use[u].op # "get"
  <2> DEFINE to == IF use[u].op = "set" THEN use[u].value ELSE Absent
  <2> DEFINE next == [NotInUse EXCEPT !.step = "audit", !.op = use[u].op, !.name = use[u].name]
  <2>1. /\ use[u].name \in Secret /\ use[u].value \in SecretValue
        /\ opened[u] \in Installed \ {"age"} /\ use[u].op \in {"get", "set", "delete"}
    BY DEF TouchItem, SecretInv, SecretsAreKept, SecretTypeOK, CallIsComplete, Use
  <2>2. to \in SecretValue \cup {Absent}
    BY <2>1
  <2>3. /\ item' = [item EXCEPT ![opened[u]] = [@ EXCEPT ![use[u].name] = to]]
        /\ Landed(u, opened[u], to)
    BY <1>2 DEF TouchItem
  <2> HIDE DEF to
  <2>4. /\ kept' = [kept EXCEPT ![opened[u]] = [@ EXCEPT ![use[u].name] = to]]
        /\ silent' = silent \cup {use[u].name} /\ use' = [use EXCEPT ![u] = next]
    BY <2>1, <2>3 DEF Landed
  <2>5. next \in Use /\ next.step = "audit" /\ next.name = use[u].name
    <3>1. NotInUse \in Use
      BY IdleIsUse
    <3> QED BY <2>1, <3>1 DEF Use
  <2> HIDE DEF next
  <2> QED BY <2>1, <2>2, <2>3, <2>4, <2>5
<1> QED BY <1>1, <1>2

\* Every step writes values of the right kind.
LEMMA SecretTyped == SecretInv /\ [SecretNext]_secretVars => SecretTypeOK'
<1> SUFFICES ASSUME SecretInv, [SecretNext]_secretVars PROVE SecretTypeOK'
  OBVIOUS
<1> USE SecretAssumption DEF SecretInv, SecretsAreKept, SecretTypeOK, CallIsComplete
<1>0. NotInUse \in Use /\ NotInUse.step = "idle"
  BY IdleIsUse
<1>1. ASSUME NEW u \in User, OpenStore(u)
      PROVE  SecretTypeOK'
  <2>1. PICK usable \in SUBSET Installed : opened' = [opened EXCEPT ![u] = AutoBackend(usable)]
    BY <1>1 DEF OpenStore
  <2>2. AutoBackend(usable) \in Installed \cup {None}
    BY AutoBackendIsUsable
  <2> QED BY <1>1, <2>1, <2>2 DEF OpenStore, storedVars
<1>2. ASSUME NEW u \in User, NoPassphrase(u)
      PROVE  SecretTypeOK'
  BY <1>0, <1>2 DEF NoPassphrase, UseEnds, storedVars, phraseVars
<1>3. ASSUME NEW u \in User, LoadVault(u)
      PROVE  SecretTypeOK'
  <2>1. PICK next \in Use : use' = [use EXCEPT ![u] = next]
    BY <1>3, VaultIsLoaded
  <2> HIDE DEF CallIsComplete
  <2> QED BY <1>3, <2>1 DEF LoadVault, storedVars, phraseVars
<1>4. ASSUME NEW u \in User, SaveVault(u)
      PROVE  SecretTypeOK'
  <2> DEFINE next == [NotInUse EXCEPT !.step = "audit", !.op = use[u].op, !.name = use[u].name]
  <2>1. /\ use[u] \in Use /\ use[u].name \in Secret /\ use[u].op \in {"get", "set", "delete"}
        /\ use[u].value \in SecretValue /\ use[u].phrase \in Phrase \cup {None}
        /\ use[u].loaded \in Stored
    BY <1>4 DEF SaveVault, Use
  <2>2. next \in Use /\ use' = [use EXCEPT ![u] = next]
    BY <1>4, <2>1, AuditIsUse DEF SaveVault, Landed
  <2> HIDE DEF next
  <2>3. use' \in [User -> Use]
    BY <2>2
  <2>4. vault' \in [phrase : Phrase \cup {None}, values : Stored]
    BY <1>4, <2>1 DEF SaveVault
  <2>5. kept' \in [Installed -> Stored] /\ silent' \subseteq Secret
    <3> DEFINE to == IF use[u].op = "set" THEN use[u].value ELSE Absent
    <3>1. to \in SecretValue \cup {Absent} /\ kept["age"] \in Stored
      BY <2>1
    <3>2. kept' = kept \/ kept' = [kept EXCEPT !["age"] = [@ EXCEPT ![use[u].name] = to]]
      BY <1>4 DEF SaveVault, Landed
    <3> HIDE DEF to
    <3>3. [kept["age"] EXCEPT ![use[u].name] = to] \in Stored
      BY <2>1, <3>1 DEF Stored
    <3>4. silent' = silent \cup {use[u].name}
      BY <1>4 DEF SaveVault, Landed
    <3> QED BY <2>1, <3>2, <3>3, <3>4
  <2> QED BY <1>4, <2>3, <2>4, <2>5 DEF SaveVault, phraseVars
<1>5. ASSUME NEW u \in User, SaveFails(u)
      PROVE  SecretTypeOK'
  BY <1>0, <1>5 DEF SaveFails, UseEnds, storedVars, phraseVars
<1>6. ASSUME NEW u \in User, TouchItem(u)
      PROVE  SecretTypeOK'
  <2>1. CASE use' = [use EXCEPT ![u] = NotInUse] /\ UNCHANGED <<item, kept, silent>>
    BY <1>0, <1>6, <2>1 DEF TouchItem, phraseVars
  <2>2. ASSUME NEW next \in Use, NEW b \in Installed \ {"age"},
               NEW to \in SecretValue \cup {Absent},
               use' = [use EXCEPT ![u] = next], use[u].name \in Secret,
               item' = [item EXCEPT ![b] = [@ EXCEPT ![use[u].name] = to]],
               kept' = [kept EXCEPT ![b] = [@ EXCEPT ![use[u].name] = to]],
               silent' = silent \cup {use[u].name}
        PROVE  SecretTypeOK'
    <3>1. /\ [item[b] EXCEPT ![use[u].name] = to] \in Stored
          /\ [kept[b] EXCEPT ![use[u].name] = to] \in Stored
      <4>1. item[b] \in Stored /\ kept[b] \in Stored
        OBVIOUS
      <4> QED BY <2>2, <4>1 DEF Stored
    <3>2. /\ use' \in [User -> Use] /\ item' \in [Installed \ {"age"} -> Stored]
          /\ kept' \in [Installed -> Stored] /\ silent' \subseteq Secret
      BY <2>2, <3>1
    <3> QED BY <1>6, <3>2 DEF TouchItem, phraseVars
  <2> HIDE DEF SecretInv, SecretsAreKept, SecretTypeOK, CallIsComplete
  <2> QED BY <1>6, <2>1, <2>2, ItemIsTouched
<1>7. ASSUME NEW u \in User, RecordChange(u)
      PROVE  SecretTypeOK'
  BY <1>0, <1>7 DEF RecordChange, UseEnds, storedVars, phraseVars
<1>8. ASSUME NEW u \in User, UserDies(u)
      PROVE  SecretTypeOK'
  BY <1>0, <1>8 DEF UserDies, UseEnds, storedVars
<1>9. ASSUME NEW u \in User, NEW p \in Phrase, PassphraseLocked(u, p)
      PROVE  SecretTypeOK'
  <2>1. [use[u] EXCEPT !.step = "load", !.phrase = p] \in Use
    <3>1. use[u] \in Use
      OBVIOUS
    <3> HIDE DEF SecretTypeOK, CallIsComplete
    <3> QED BY <3>1 DEF Use
  <2>2. use' \in [User -> Use]
    BY <1>9, <2>1 DEF PassphraseLocked
  <2> QED BY <1>9, <2>2 DEF PassphraseLocked, storedVars
<1>10. ASSUME NEW u \in User, NEW what \in {"get", "set", "delete"}, NEW n \in Secret,
             NEW v \in SecretValue, BeginUse(u, what, n, v)
      PROVE  SecretTypeOK'
  <2>1. use' \in [User -> Use]
    BY <1>10, CallBegins
  <2>2. kept' \in [Installed -> Stored] /\ contended' \in BOOLEAN
    BY <1>10, IdleIsUse DEF BeginUse
  <2> QED BY <1>10, <2>1, <2>2 DEF BeginUse, phraseVars
<1>11. CASE UNCHANGED secretVars
  BY <1>11 DEF secretVars, storedVars, phraseVars
<1> QED BY <1>1, <1>2, <1>3, <1>4, <1>5, <1>6, <1>7, <1>8, <1>9, <1>10, <1>11
        DEF SecretNext

\* A call keeps its name, its value and its backend until it is over.
LEMMA CallsStayComplete == SecretInv /\ [SecretNext]_secretVars => \A w \in User : CallIsComplete(w)'
<1> SUFFICES ASSUME SecretInv, [SecretNext]_secretVars
             PROVE  \A w \in User : CallIsComplete(w)'
  OBVIOUS
<1> USE SecretAssumption
        DEF SecretInv, SecretsAreKept, SecretTypeOK, CallIsComplete, Use
<1>0. NotInUse \in Use /\ NotInUse.step = "idle"
  BY IdleIsUse
<1>1. ASSUME NEW u \in User, OpenStore(u)
      PROVE  \A w \in User : CallIsComplete(w)'
  BY <1>0, <1>1 DEF OpenStore, storedVars
<1>2. ASSUME NEW u \in User, NoPassphrase(u)
      PROVE  \A w \in User : CallIsComplete(w)'
  BY <1>0, <1>2 DEF NoPassphrase, UseEnds, storedVars, phraseVars
<1>3. ASSUME NEW u \in User, LoadVault(u)
      PROVE  \A w \in User : CallIsComplete(w)'
  <2>1. PICK next \in Use :
            /\ use' = [use EXCEPT ![u] = next]
            /\ \/ next = NotInUse
               \/ next.step = "audit" /\ next.name = use[u].name
               \/ /\ next.step = "save" /\ use[u].op # "get" /\ next.op = use[u].op
                  /\ next.name = use[u].name /\ next.value = use[u].value
    <3> HIDE DEF SecretInv, Use
    <3> QED BY <1>3, VaultIsLoaded
  <2> QED BY <1>0, <1>3, <2>1 DEF LoadVault
<1>4. ASSUME NEW u \in User, SaveVault(u)
      PROVE  \A w \in User : CallIsComplete(w)'
  BY <1>0, <1>4 DEF SaveVault, Landed, phraseVars
<1>5. ASSUME NEW u \in User, SaveFails(u)
      PROVE  \A w \in User : CallIsComplete(w)'
  BY <1>0, <1>5 DEF SaveFails, UseEnds, storedVars, phraseVars
<1>6. ASSUME NEW u \in User, TouchItem(u)
      PROVE  \A w \in User : CallIsComplete(w)'
  <2>1. PICK next \in Use : /\ use' = [use EXCEPT ![u] = next]
                            /\ \/ next = NotInUse
                               \/ next.step = "audit" /\ next.name \in Secret
    BY <1>0, <1>6, ItemIsTouched
  <2> QED BY <1>0, <1>6, <2>1 DEF TouchItem
<1>7. ASSUME NEW u \in User, RecordChange(u)
      PROVE  \A w \in User : CallIsComplete(w)'
  BY <1>0, <1>7 DEF RecordChange, UseEnds, storedVars, phraseVars
<1>8. ASSUME NEW u \in User, UserDies(u)
      PROVE  \A w \in User : CallIsComplete(w)'
  BY <1>0, <1>8 DEF UserDies, UseEnds, storedVars
<1>9. ASSUME NEW u \in User, NEW p \in Phrase, PassphraseLocked(u, p)
      PROVE  \A w \in User : CallIsComplete(w)'
  BY <1>0, <1>9 DEF PassphraseLocked, storedVars
<1>10. ASSUME NEW u \in User, NEW what \in {"get", "set", "delete"}, NEW n \in Secret,
             NEW v \in SecretValue, BeginUse(u, what, n, v)
      PROVE  \A w \in User : CallIsComplete(w)'
  BY <1>0, <1>10 DEF BeginUse, phraseVars
<1>11. CASE UNCHANGED secretVars
  BY <1>11 DEF secretVars, storedVars, phraseVars
<1> QED BY <1>1, <1>2, <1>3, <1>4, <1>5, <1>6, <1>7, <1>8, <1>9, <1>10, <1>11
        DEF SecretNext

\* A call that leaves the vault alone disturbs no change of it.
LEMMA OtherCallsAreCurrent ==
    ASSUME SecretInv, NEW u \in User, NEW next \in Use, use' = [use EXCEPT ![u] = next],
           next.step \notin {"phrase", "load", "save"}, UNCHANGED <<vault, contended>>
    PROVE  VaultIsCurrent'
<1>1. use \in [User -> Use]
  BY DEF SecretInv, SecretsAreKept, SecretTypeOK
<1>2. /\ use'[u] = next /\ \A o \in User : o # u => use'[o] = use[o]
  BY <1>1
<1>3. /\ \A o \in User : InVault(o)' => InVault(o) /\ use'[o] = use[o]
      /\ \A o \in User : use'[o].step = "save" => use'[o] = use[o]
  BY <1>2 DEF InVault
<1> QED BY <1>3 DEF SecretInv, VaultIsCurrent

\* A change reads the vault that it will replace.
LEMMA VaultStaysCurrent == SecretInv /\ [SecretNext]_secretVars => VaultIsCurrent'
<1> SUFFICES ASSUME SecretInv, [SecretNext]_secretVars PROVE VaultIsCurrent'
  OBVIOUS
<1> USE SecretAssumption
        DEF SecretInv, SecretsAreKept, SecretTypeOK, CallIsComplete, Use,
            VaultIsCurrent, InVault, Outcome
<1>0. NotInUse \in Use /\ NotInUse.step = "idle"
  BY IdleIsUse
<1>1. ASSUME NEW u \in User, OpenStore(u)
      PROVE  VaultIsCurrent'
  BY <1>1 DEF OpenStore, storedVars
<1>2. ASSUME NEW u \in User, NoPassphrase(u)
      PROVE  VaultIsCurrent'
  <2>1. PICK next \in Use : next.step = "idle" /\ use' = [use EXCEPT ![u] = next]
    BY <1>0, <1>2 DEF NoPassphrase, UseEnds
  <2>2. UNCHANGED <<vault, contended>>
    BY <1>2 DEF NoPassphrase, storedVars
  <2> HIDE DEF VaultIsCurrent, SecretInv
  <2> QED BY <2>1, <2>2, OtherCallsAreCurrent
<1>3. ASSUME NEW u \in User, LoadVault(u)
      PROVE  VaultIsCurrent'
  <2>1. PICK next \in Use :
            /\ use' = [use EXCEPT ![u] = next]
            /\ \/ next = NotInUse
               \/ next.step = "audit" /\ next.name = use[u].name
               \/ /\ next.step = "save" /\ use[u].op # "get" /\ next.op = use[u].op
                  /\ next.name = use[u].name /\ next.value = use[u].value
                  /\ next.loaded = [Decrypted(u) EXCEPT ![use[u].name] = Outcome(use[u])]
    <3> HIDE DEF SecretInv, Use, Outcome
    <3> QED BY <1>3, VaultIsLoaded
  <2>2. UNCHANGED <<vault, contended>>
    BY <1>3 DEF LoadVault, storedVars
  <2>3. CASE next.step \notin {"phrase", "load", "save"}
    <3> HIDE DEF VaultIsCurrent, SecretInv
    <3> QED BY <2>1, <2>2, <2>3, OtherCallsAreCurrent
  <2>4. CASE /\ next.step = "save" /\ use[u].op # "get" /\ next.op = use[u].op
             /\ next.name = use[u].name /\ next.value = use[u].value
             /\ next.loaded = [Decrypted(u) EXCEPT ![use[u].name] = Outcome(use[u])]
    <3> SUFFICES ASSUME ~contended PROVE VaultIsCurrent'
      BY <2>2
    <3>1. use[u].step = "load" /\ InVault(u)
      BY <1>3, <2>4 DEF LoadVault
    <3>2. NoVault.values = Nothing
      BY DEF NoVault, Nothing
    <3>3. use[u].fresh => vault = NoVault
      BY <3>1
    <3>4. Decrypted(u) = vault.values
      BY <3>2, <3>3 DEF Decrypted
    <3>5. Outcome(next) = Outcome(use[u])
      BY <2>4
    <3>6. use'[u] = next /\ \A o \in User : o # u => use'[o] = use[o] /\ ~InVault(o)
      BY <2>1, <3>1
    <3>7. \A o \in User : InVault(o)' => o = u
      BY <3>6
    <3>8. \A o \in User : o # u => use'[o].step # "save"
      BY <3>6
    <3>9. use'[u].loaded = [vault'.values EXCEPT ![use'[u].name] = Outcome(use'[u])]
      <4> HIDE DEF Outcome
      <4> QED BY <2>2, <2>4, <3>4, <3>5, <3>6
    <3> HIDE DEF Outcome
    <3> QED BY <2>4, <3>6, <3>7, <3>8, <3>9
  <2> QED BY <1>0, <2>1, <2>3, <2>4
<1>4. ASSUME NEW u \in User, SaveVault(u)
      PROVE  VaultIsCurrent'
  BY <1>0, <1>4 DEF SaveVault, Landed, phraseVars
<1>5. ASSUME NEW u \in User, SaveFails(u)
      PROVE  VaultIsCurrent'
  <2>1. PICK next \in Use : next.step = "idle" /\ use' = [use EXCEPT ![u] = next]
    BY <1>0, <1>5 DEF SaveFails, UseEnds
  <2>2. UNCHANGED <<vault, contended>>
    BY <1>5 DEF SaveFails, storedVars
  <2> HIDE DEF VaultIsCurrent, SecretInv
  <2> QED BY <2>1, <2>2, OtherCallsAreCurrent
<1>6. ASSUME NEW u \in User, TouchItem(u)
      PROVE  VaultIsCurrent'
  <2>1. PICK next \in Use : next.step \in {"idle", "audit"} /\ use' = [use EXCEPT ![u] = next]
    <3> HIDE DEF SecretInv, Use
    <3> QED BY <1>0, <1>6, ItemIsTouched
  <2>2. UNCHANGED <<vault, contended>>
    BY <1>6 DEF TouchItem
  <2> HIDE DEF VaultIsCurrent, SecretInv
  <2> QED BY <2>1, <2>2, OtherCallsAreCurrent
<1>7. ASSUME NEW u \in User, RecordChange(u)
      PROVE  VaultIsCurrent'
  <2>1. PICK next \in Use : next.step = "idle" /\ use' = [use EXCEPT ![u] = next]
    BY <1>0, <1>7 DEF RecordChange, UseEnds
  <2>2. UNCHANGED <<vault, contended>>
    BY <1>7 DEF RecordChange, storedVars
  <2> HIDE DEF VaultIsCurrent, SecretInv
  <2> QED BY <2>1, <2>2, OtherCallsAreCurrent
<1>8. ASSUME NEW u \in User, UserDies(u)
      PROVE  VaultIsCurrent'
  <2>1. PICK next \in Use : next.step = "idle" /\ use' = [use EXCEPT ![u] = next]
    BY <1>0, <1>8 DEF UserDies, UseEnds
  <2>2. UNCHANGED <<vault, contended>>
    BY <1>8 DEF UserDies, storedVars
  <2> HIDE DEF VaultIsCurrent, SecretInv
  <2> QED BY <2>1, <2>2, OtherCallsAreCurrent
<1>9. ASSUME NEW u \in User, NEW p \in Phrase, PassphraseLocked(u, p)
      PROVE  VaultIsCurrent'
  <2>1. use'[u] = [use[u] EXCEPT !.step = "load", !.phrase = p]
    BY <1>9 DEF PassphraseLocked
  <2>2. /\ use'[u].step = "load" /\ use'[u].op = use[u].op /\ use'[u].fresh = use[u].fresh
        /\ \A o \in User : o # u => use'[o] = use[o]
    BY <1>9, <2>1 DEF PassphraseLocked
  <2>3. use[u].step = "phrase" /\ UNCHANGED <<vault, contended>>
    BY <1>9 DEF PassphraseLocked, storedVars
  <2>4. \A o \in User : InVault(o)' <=> InVault(o)
    BY <2>2, <2>3
  <2>5. \A o \in User : use'[o].step = "save" => use'[o] = use[o]
    BY <2>2
  <2>6. \A o \in User : use'[o].fresh = use[o].fresh
    BY <2>2
  <2> HIDE DEF Outcome
  <2>7. ASSUME ~contended'
        PROVE  /\ \A w, o \in User : InVault(w)' /\ InVault(o)' => w = o
               /\ \A w \in User : InVault(w)' /\ use'[w].step # "save" /\ use'[w].fresh =>
                      vault' = NoVault
    BY <2>2, <2>3, <2>6, <2>7
  <2>8. ASSUME ~contended', NEW w \in User, use'[w].step = "save"
        PROVE  use'[w].loaded = [vault'.values EXCEPT ![use'[w].name] = Outcome(use'[w])]
    BY <2>3, <2>5, <2>8
  <2> QED BY <2>7, <2>8
<1>10. ASSUME NEW u \in User, NEW what \in {"get", "set", "delete"}, NEW n \in Secret,
             NEW v \in SecretValue, BeginUse(u, what, n, v)
      PROVE  VaultIsCurrent'
  <2> SUFFICES ASSUME ~contended' PROVE VaultIsCurrent'
    OBVIOUS
  <2>1. /\ ~contended /\ UNCHANGED vault
        /\ opened[u] = "age" /\ what # "get" => ~VaultContended(u)
    BY <1>10 DEF BeginUse
  <2>2. PICK next \in Use :
            /\ use' = [use EXCEPT ![u] = next] /\ next.step \in {"phrase", "item", "audit"}
            /\ next.op = what /\ next.fresh = (vault = NoVault)
            /\ next.step = "phrase" => opened[u] = "age"
    <3> HIDE DEF SecretInv, Use
    <3> QED BY <1>10, CallBegins
  <2>3. use'[u] = next /\ \A o \in User : o # u => use'[o] = use[o]
    BY <2>2
  <2>4. InVault(u)' => \A o \in User : o # u => ~InVault(o)
    <3>1. InVault(u)' => opened[u] = "age" /\ what # "get"
      BY <2>2, <2>3
    <3>2. ASSUME NEW o \in User \ {u}, InVault(o)
           PROVE Changes(o) /\ use[o].step \in {"phrase", "load", "save"}
      BY <3>2 DEF Changes
    <3> QED BY <2>1, <3>1, <3>2 DEF VaultContended
  <2>5. \A o \in User : o # u => (InVault(o)' <=> InVault(o))
    BY <2>3
  <2>6. \A o \in User : use'[o].step = "save" => use'[o] = use[o]
    BY <2>2, <2>3
  <2>7. \A o \in User : o # u => use'[o] = use[o]
    BY <2>3
  <2> HIDE DEF Outcome
  <2>8. /\ \A w, o \in User : InVault(w)' /\ InVault(o)' => w = o
        /\ \A w \in User : InVault(w)' /\ use'[w].step # "save" /\ use'[w].fresh =>
               vault' = NoVault
    BY <2>1, <2>2, <2>3, <2>4
  <2>9. ASSUME NEW w \in User, use'[w].step = "save"
        PROVE  use'[w].loaded = [vault'.values EXCEPT ![use'[w].name] = Outcome(use'[w])]
    BY <2>1, <2>6, <2>9
  <2> QED BY <2>8, <2>9
<1>11. CASE UNCHANGED secretVars
  BY <1>11 DEF secretVars, storedVars, phraseVars
<1> HIDE DEF SecretTypeOK, CallIsComplete, Use, VaultIsCurrent, InVault, Outcome, SecretInv, SecretsAreKept
<1> QED BY <1>1, <1>2, <1>3, <1>4, <1>5, <1>6, <1>7, <1>8, <1>9, <1>10, <1>11
        DEF SecretNext

\* What is stored is what the changes that landed add up to.
LEMMA ChangesAddUp == SecretInv /\ [SecretNext]_secretVars => SetsAreKept'
<1> SUFFICES ASSUME SecretInv, [SecretNext]_secretVars PROVE SetsAreKept'
  OBVIOUS
<1> USE SecretAssumption
        DEF SecretInv, SecretsAreKept, SecretTypeOK, CallIsComplete, Use,
            VaultIsCurrent, SetsAreKept, Outcome, Stored
<1>0. NotInUse \in Use /\ NotInUse.step = "idle"
  BY IdleIsUse
<1>1. ASSUME NEW u \in User, OpenStore(u)
      PROVE  SetsAreKept'
  BY <1>0, <1>1 DEF OpenStore, storedVars
<1>2. ASSUME NEW u \in User, NoPassphrase(u)
      PROVE  SetsAreKept'
  BY <1>0, <1>2 DEF NoPassphrase, UseEnds, storedVars, phraseVars
<1>3. ASSUME NEW u \in User, LoadVault(u)
      PROVE  SetsAreKept'
  BY <1>0, <1>3, VaultIsLoaded DEF LoadVault, storedVars, phraseVars
<1>4. ASSUME NEW u \in User, SaveVault(u)
      PROVE  SetsAreKept'
  BY <1>0, <1>4 DEF SaveVault, Landed, phraseVars
<1>5. ASSUME NEW u \in User, SaveFails(u)
      PROVE  SetsAreKept'
  BY <1>0, <1>5 DEF SaveFails, UseEnds, storedVars, phraseVars
<1>6. ASSUME NEW u \in User, TouchItem(u)
      PROVE  SetsAreKept'
  <2>1. CASE UNCHANGED <<item, kept>>
    BY <1>6, <2>1 DEF TouchItem
  <2>2. ASSUME NEW b \in Installed \ {"age"}, NEW to,
               item' = [item EXCEPT ![b] = [@ EXCEPT ![use[u].name] = to]],
               kept' = [kept EXCEPT ![b] = [@ EXCEPT ![use[u].name] = to]]
        PROVE  SetsAreKept'
    <3>1. kept'["age"] = kept["age"] /\ UNCHANGED <<vault, contended>>
      BY <1>6, <2>2 DEF TouchItem
    <3>2. \A d \in Installed \ {"age"} : item'[d] = kept'[d]
      BY <2>2
    <3> QED BY <2>2, <3>1, <3>2
  <2> HIDE DEF SecretInv, SecretsAreKept, SecretTypeOK, CallIsComplete, SetsAreKept, Use,
           Stored, Outcome, VaultIsCurrent
  <2> QED BY <1>6, <2>1, <2>2, ItemIsTouched
<1>7. ASSUME NEW u \in User, RecordChange(u)
      PROVE  SetsAreKept'
  BY <1>0, <1>7 DEF RecordChange, UseEnds, storedVars, phraseVars
<1>8. ASSUME NEW u \in User, UserDies(u)
      PROVE  SetsAreKept'
  BY <1>0, <1>8 DEF UserDies, UseEnds, storedVars
<1>9. ASSUME NEW u \in User, NEW p \in Phrase, PassphraseLocked(u, p)
      PROVE  SetsAreKept'
  BY <1>0, <1>9 DEF PassphraseLocked, storedVars
<1>10. ASSUME NEW u \in User, NEW what \in {"get", "set", "delete"}, NEW n \in Secret,
             NEW v \in SecretValue, BeginUse(u, what, n, v)
      PROVE  SetsAreKept'
  BY <1>0, <1>10 DEF BeginUse, phraseVars
<1>11. CASE UNCHANGED secretVars
  BY <1>11 DEF secretVars, storedVars, phraseVars
<1> QED BY <1>1, <1>2, <1>3, <1>4, <1>5, <1>6, <1>7, <1>8, <1>9, <1>10, <1>11
        DEF SecretNext

\* A change that is silent is about to be recorded.
LEMMA RecordsFollow == SecretInv /\ [SecretNext]_secretVars => ChangesAreRecorded'
<1> SUFFICES ASSUME SecretInv, [SecretNext]_secretVars PROVE ChangesAreRecorded'
  OBVIOUS
<1> USE SecretAssumption
        DEF SecretInv, SecretsAreKept, SecretTypeOK, CallIsComplete, Use,
            ChangesAreRecorded
<1>0. NotInUse \in Use /\ NotInUse.step = "idle"
  BY IdleIsUse
<1>1. ASSUME NEW u \in User, OpenStore(u)
      PROVE  ChangesAreRecorded'
  BY <1>0, <1>1 DEF OpenStore, storedVars
<1>2. ASSUME NEW u \in User, NoPassphrase(u)
      PROVE  ChangesAreRecorded'
  BY <1>0, <1>2 DEF NoPassphrase, UseEnds, storedVars, phraseVars
<1>3. ASSUME NEW u \in User, LoadVault(u)
      PROVE  ChangesAreRecorded'
  <2>1. PICK next \in Use : use' = [use EXCEPT ![u] = next]
    <3> HIDE DEF SecretInv, Use
    <3> QED BY <1>3, VaultIsLoaded
  <2>2. use[u].step = "load" /\ UNCHANGED silent
    BY <1>3 DEF LoadVault
  <2> QED BY <2>1, <2>2
<1>4. ASSUME NEW u \in User, SaveVault(u)
      PROVE  ChangesAreRecorded'
  BY <1>0, <1>4 DEF SaveVault, Landed, phraseVars
<1>5. ASSUME NEW u \in User, SaveFails(u)
      PROVE  ChangesAreRecorded'
  BY <1>0, <1>5 DEF SaveFails, UseEnds, storedVars, phraseVars
<1>6. ASSUME NEW u \in User, TouchItem(u)
      PROVE  ChangesAreRecorded'
  <2>1. use[u].step = "item"
    BY <1>6 DEF TouchItem
  <2>2. CASE use' = [use EXCEPT ![u] = NotInUse] /\ UNCHANGED <<item, kept, silent>>
    BY <2>1, <2>2
  <2>3. ASSUME NEW next \in Use, use' = [use EXCEPT ![u] = next], next.step = "audit",
               next.name = use[u].name, silent' = silent \cup {use[u].name}
        PROVE  ChangesAreRecorded'
    BY <2>1, <2>3
  <2> QED BY <1>6, <2>2, <2>3, ItemIsTouched
<1>7. ASSUME NEW u \in User, RecordChange(u)
      PROVE  ChangesAreRecorded'
  BY <1>0, <1>7 DEF RecordChange, UseEnds, storedVars, phraseVars
<1>8. ASSUME NEW u \in User, UserDies(u)
      PROVE  ChangesAreRecorded'
  BY <1>0, <1>8 DEF UserDies, UseEnds, storedVars
<1>9. ASSUME NEW u \in User, NEW p \in Phrase, PassphraseLocked(u, p)
      PROVE  ChangesAreRecorded'
  BY <1>0, <1>9 DEF PassphraseLocked, storedVars
<1>10. ASSUME NEW u \in User, NEW what \in {"get", "set", "delete"}, NEW n \in Secret,
             NEW v \in SecretValue, BeginUse(u, what, n, v)
      PROVE  ChangesAreRecorded'
  BY <1>0, <1>10 DEF BeginUse, phraseVars
<1>11. CASE UNCHANGED secretVars
  BY <1>11 DEF secretVars, storedVars, phraseVars
<1> QED BY <1>1, <1>2, <1>3, <1>4, <1>5, <1>6, <1>7, <1>8, <1>9, <1>10, <1>11
        DEF SecretNext

\* With any users, secrets, passphrases and backends, calls failing and processes
\* dying: a change touches the secret it names and is recorded.
LEMMA SecretsAreSafe == SecretSpec => []SecretsAreKept
<1>1. SecretInv /\ [SecretNext]_secretVars => SecretInv'
  BY SecretTyped, CallsStayComplete, VaultStaysCurrent, ChangesAddUp, RecordsFollow
     DEF SecretInv, SecretsAreKept
<1> QED BY <1>1, SecretInitInv, PTL DEF SecretSpec, SecretInv

---------------------------------------------------------------------------
(* Write-back *)

\* A call in progress has changed nothing and answered nothing, and knows what
\* held the task until the user comes in between.
CallIsOpen ==
    /\ op = "none" <=> at = "none"
    /\ op # "none" => acted = {} /\ result = "none"
    /\ op # "none" /\ ~unsure => held = Holders

\* findTaskList: what it has read is found, the rest is still to be read.
FindsTheHolders ==
    /\ todo \in Seq(Place) /\ \A l, k \in found : l = k
    /\ at = "find" => plugin = "googletasks"
    /\ (at = "comment" => plugin = "github") /\ (at = "dm" => plugin = "reaction")
    /\ at = "find" /\ ~unsure =>
           found \subseteq held /\ held \subseteq found \cup {todo[i] : i \in 1..Len(todo)}
    /\ at \in {"comment", "dm", "change"} => found # {}
    /\ at = "change" /\ plugin = "googletasks" /\ ~unsure => found = held

\* Outside googletasks a task has one place to be in.
OnlyAtHome ==
    plugin # "googletasks" => Holders \subseteq {Home} /\ (op # "none" => found = {Home})

\* A call that has not posted has one post less than tries.
PostsAreCounted ==
    /\ posts <= tries
    /\ at # "none" /\ ~(plugin = "github" /\ at = "change") => posts < tries
    /\ plugin = "github" /\ at = "change" => posts >= 1

WriteBackInv ==
    /\ CallsActOnce /\ CallIsOpen /\ FindsTheHolders /\ OnlyAtHome /\ PostsAreCounted

\* A list is a place, and the first one is there.
LEMMA HomeIsAPlace == Home \in Place /\ TaskLists \in Seq(Place)
  BY WriteBackAssumption DEF Home, Place

\* The lists still to read, one by one.
LEMMA HeadAndTail ==
    ASSUME NEW lists \in Seq(Place), lists # <<>>
    PROVE  /\ Head(lists) \in Place /\ Tail(lists) \in Seq(Place)
           /\ {lists[i] : i \in 1..Len(lists)}
                = {Head(lists)} \cup {Tail(lists)[i] : i \in 1..Len(Tail(lists))}
<1>1. /\ Head(lists) = lists[1] /\ Len(lists) \in Nat \ {0} /\ Tail(lists) \in Seq(Place)
      /\ Len(Tail(lists)) = Len(lists) - 1
      /\ \A i \in 1..Len(Tail(lists)) : Tail(lists)[i] = lists[i + 1]
  OBVIOUS
<1>2. ASSUME NEW i \in 1..Len(lists)
      PROVE  lists[i] \in {Head(lists)} \cup {Tail(lists)[k] : k \in 1..Len(Tail(lists))}
  <2>1. CASE i = 1
    BY <1>1, <2>1
  <2>2. CASE i # 1
    <3>1. i - 1 \in 1..Len(Tail(lists)) /\ Tail(lists)[i - 1] = lists[i]
      BY <1>1, <2>2
    <3> QED BY <3>1
  <2> QED BY <2>1, <2>2
<1>3. ASSUME NEW i \in 1..Len(Tail(lists))
      PROVE  Tail(lists)[i] \in {lists[k] : k \in 1..Len(lists)}
  BY <1>1
<1>4. Head(lists) \in {lists[k] : k \in 1..Len(lists)} /\ Head(lists) \in Place
  BY <1>1
<1> QED BY <1>1, <1>2, <1>3, <1>4

\* Two different holders are ambiguous.
LEMMA OneIsNotAmbiguous ==
    ASSUME NEW S, NEW l, \A a, b \in S : a = b, ~Ambiguous(S \cup {l})
    PROVE  \A a, b \in S \cup {l} : a = b
<1>1. SUFFICES ASSUME NEW a \in S, a # l PROVE FALSE
  OBVIOUS
<1>2. S \cup {l} = {a} \cup {l}
  OBVIOUS
<1>3. Cardinality({a} \cup {l}) = 2
  <2>1. IsFiniteSet({a}) /\ Cardinality({a}) = 1
    BY FS_Singleton
  <2> QED BY <1>1, <2>1, FS_AddElement
<1> QED BY <1>2, <1>3 DEF Ambiguous

\* No call has been made.
LEMMA WriteBackInitInv == WriteBackInit => WriteBackInv
<1> SUFFICES ASSUME WriteBackInit PROVE WriteBackInv
  OBVIOUS
<1> USE WriteBackAssumption DEF WriteBackInit
<1>1. WriteBackTypeOK
  BY DEF WriteBackTypeOK, Place
<1>2. OnlyAtHome
  BY HomeIsAPlace DEF OnlyAtHome, Holders
<1>3. CallIsOpen /\ FindsTheHolders /\ PostsAreCounted
  BY DEF CallIsOpen, FindsTheHolders, PostsAreCounted
<1>4. ActsOnTheOneTask /\ NotFoundMeansGone /\ SaysItOncePerTry
  BY DEF ActsOnTheOneTask, NotFoundMeansGone, SaysItOncePerTry
<1> QED BY <1>1, <1>2, <1>3, <1>4 DEF WriteBackInv, CallsActOnce

\* An answer ends the call and changes nothing else.
LEMMA AnswerEndsTheCall ==
    ASSUME WriteBackInv, NEW r \in {"ok", "error", "not_found", "ambiguous"}, Answer(r),
           UNCHANGED <<plugin, task, posts, tries, acted, held, unsure>>, op # "none",
           r = "not_found" /\ ~unsure => held = {},
           r = "ok" => plugin \notin HasState
    PROVE  WriteBackInv'
<1> USE DEF WriteBackInv, CallsActOnce
<1>1. WriteBackTypeOK'
  BY DEF WriteBackTypeOK, Answer
<1>2. CallIsOpen'
  BY DEF CallIsOpen, Answer
<1>3. FindsTheHolders'
  BY DEF Answer, FindsTheHolders
<1>4. OnlyAtHome'
  BY DEF OnlyAtHome, Answer, Holders
<1>5. PostsAreCounted'
  BY DEF PostsAreCounted, Answer
<1>6. ActsOnTheOneTask'
  BY DEF ActsOnTheOneTask, Answer, CallIsOpen, HasState
<1>7. NotFoundMeansGone' /\ SaysItOncePerTry'
  BY DEF NotFoundMeansGone, SaysItOncePerTry, Answer, WriteBackTypeOK
<1> QED BY <1>1, <1>2, <1>3, <1>4, <1>5, <1>6, <1>7

\* Whom a call acts on, when it acts: the one holder.
LEMMA ChosenIsTheHolder ==
    ASSUME WriteBackInv, at = "change"
    PROVE  /\ Chosen \in Place /\ found = {Chosen}
           /\ ~unsure => \/ task[Chosen] # "none" /\ held = {Chosen}
                         \/ task[Chosen] = "none" /\ held = {}
<1> USE DEF WriteBackInv, CallsActOnce
<1>1. found # {} /\ (\A l, k \in found : l = k) /\ found \subseteq Place
  BY DEF FindsTheHolders, WriteBackTypeOK
<1>2. Chosen \in found
  BY <1>1 DEF Chosen
<1>3. found = {Chosen}
  BY <1>1, <1>2
<1>4. ~unsure => held = Holders
  BY DEF CallIsOpen
<1>5. CASE plugin = "googletasks"
  BY <1>1, <1>2, <1>3, <1>4, <1>5 DEF FindsTheHolders, Holders
<1>6. CASE plugin # "googletasks"
  <2>1. op # "none" /\ found = {Home} /\ Chosen = Home /\ Holders \subseteq {Home}
    BY <1>3, <1>6 DEF CallIsOpen, OnlyAtHome
  <2> QED BY <1>1, <1>2, <1>3, <1>4, <2>1 DEF Holders
<1> QED BY <1>5, <1>6

\* The request changes the task or posts, and its reply is an answer or is lost.
LEMMA ChangeActsOnce == WriteBackInv /\ Change => WriteBackInv'
<1> SUFFICES ASSUME WriteBackInv, Change PROVE WriteBackInv'
  OBVIOUS
<1> USE DEF WriteBackInv, CallsActOnce
<1>1. /\ at = "change" /\ op # "none" /\ acted = {}
      /\ op' = "none" /\ at' = "none" /\ todo' = <<>> /\ found' = {} /\ result' \in {"ok", "error"}
      /\ UNCHANGED <<plugin, tries, held, unsure>>
  BY DEF Change, Answer, CallIsOpen
<1>2. CASE PostDM
  <2>1. posts' = posts + 1 /\ UNCHANGED <<task, acted>> /\ plugin \in {"slack", "reaction"}
    BY <1>2 DEF PostDM
  <2>2. posts < tries
    BY <1>1, <2>1 DEF PostsAreCounted
  <2>3. WriteBackTypeOK'
    BY <1>1, <2>1, <2>2, WriteBackAssumption DEF WriteBackTypeOK
  <2>4. CallIsOpen' /\ FindsTheHolders' /\ OnlyAtHome'
    BY <1>1, <2>1 DEF CallIsOpen, FindsTheHolders, OnlyAtHome, Holders
  <2>5. PostsAreCounted' /\ SaysItOncePerTry'
    BY <1>1, <2>1, <2>2 DEF PostsAreCounted, SaysItOncePerTry, WriteBackTypeOK
  <2>6. ActsOnTheOneTask' /\ NotFoundMeansGone'
    BY <1>1, <2>1 DEF ActsOnTheOneTask, NotFoundMeansGone
  <2> QED BY <2>3, <2>4, <2>5, <2>6
<1>3. ASSUME NEW to \in {"none", "done"}, Becomes(to), plugin \in HasState
      PROVE  WriteBackInv'
  <2>1. /\ task[Chosen] # "none" /\ acted' = {Chosen}
        /\ task' = [task EXCEPT ![Chosen] = to] /\ UNCHANGED posts
    BY <1>3 DEF Becomes
  <2>2. Chosen \in Place /\ (~unsure => held = {Chosen})
    BY <1>1, <2>1, ChosenIsTheHolder
  <2>3. WriteBackTypeOK'
    BY <1>1, <2>1, <2>2 DEF WriteBackTypeOK
  <2>4. Holders' \subseteq Holders
    BY <2>1, <2>2 DEF Holders, WriteBackTypeOK
  <2>5. CallIsOpen' /\ FindsTheHolders' /\ OnlyAtHome'
    <3> HIDE DEF Holders
    <3> QED BY <1>1, <2>1, <2>4 DEF CallIsOpen, FindsTheHolders, OnlyAtHome
  <2>6. PostsAreCounted' /\ SaysItOncePerTry'
    BY <1>1, <2>1 DEF PostsAreCounted, SaysItOncePerTry, WriteBackTypeOK
  <2>7. Cardinality(acted') = 1
    BY <2>1, FS_Singleton
  <2>8. ActsOnTheOneTask' /\ NotFoundMeansGone'
    BY <1>1, <2>1, <2>2, <2>7 DEF ActsOnTheOneTask, NotFoundMeansGone
  <2> QED BY <2>3, <2>5, <2>6, <2>8
<1>4. \/ PostDM
      \/ plugin \in HasState /\ \E to \in {"none", "done"} : Becomes(to)
  BY DEF Change, CloseIssue, ModifyLabels, UpdatePage, PatchTask, DeleteTask, HasState
<1> QED BY <1>2, <1>3, <1>4

\* One more list is read.
LEMMA FindGoesOn == WriteBackInv /\ FindIn => WriteBackInv'
<1> SUFFICES ASSUME WriteBackInv, FindIn PROVE WriteBackInv'
  OBVIOUS
<1> USE DEF WriteBackInv, CallsActOnce
<1> DEFINE l == Head(todo)
<1> DEFINE hits == IF task[l] # "none" THEN found \cup {l} ELSE found
<1>1. /\ at = "find" /\ op # "none" /\ todo # <<>>
      /\ UNCHANGED <<plugin, task, posts, tries, acted, held, unsure>>
  BY DEF FindIn, CallIsOpen
<1>2. CASE Ambiguous(hits)
  <2>1. Answer("ambiguous")
    BY <1>2 DEF FindIn
  <2> HIDE DEF WriteBackInv
  <2> QED BY <1>1, <2>1, AnswerEndsTheCall
<1>3. CASE ~Ambiguous(hits)
  <2>1. found' = hits /\ todo' = Tail(todo) /\ UNCHANGED <<op, at, result>>
    BY <1>3 DEF FindIn
  <2>2. /\ l \in Place /\ Tail(todo) \in Seq(Place)
        /\ {todo[i] : i \in 1..Len(todo)}
             = {l} \cup {Tail(todo)[i] : i \in 1..Len(Tail(todo))}
    BY <1>1, HeadAndTail DEF FindsTheHolders
  <2> DEFINE rest == {Tail(todo)[i] : i \in 1..Len(Tail(todo))}
  <2> DEFINE all == {todo[i] : i \in 1..Len(todo)}
  <2>3. \A a, b \in hits : a = b
    <3>1. \A a, b \in found : a = b
      BY DEF FindsTheHolders
    <3>2. CASE task[l] # "none"
      <4>1. ~Ambiguous(found \cup {l})
        BY <1>3, <3>2
      <4> QED BY <3>1, <3>2, <4>1, OneIsNotAmbiguous
    <3>3. CASE task[l] = "none"
      BY <3>1, <3>3
    <3> QED BY <3>2, <3>3
  <2>4. ~unsure => hits \subseteq held /\ held \subseteq hits \cup rest
    <3> SUFFICES ASSUME ~unsure PROVE hits \subseteq held /\ held \subseteq hits \cup rest
      OBVIOUS
    <3>1. found \subseteq held /\ held \subseteq found \cup all /\ held = Holders
      BY <1>1 DEF FindsTheHolders, CallIsOpen
    <3>2. l \in held <=> task[l] # "none"
      BY <2>2, <3>1 DEF Holders
    <3> HIDE DEF l, rest, all
    <3>3. all = {l} \cup rest
      BY <2>2 DEF l, rest, all
    <3> QED BY <3>1, <3>2, <3>3
  <2>5. FindsTheHolders'
    <3> HIDE DEF hits, l
    <3> QED BY <1>1, <2>1, <2>2, <2>3, <2>4 DEF FindsTheHolders
  <2>6. WriteBackTypeOK'
    BY <1>1, <2>1, <2>2 DEF WriteBackTypeOK
  <2>7. CallIsOpen' /\ PostsAreCounted'
    BY <1>1, <2>1 DEF CallIsOpen, PostsAreCounted, Holders
  <2>8. OnlyAtHome'
    BY <1>1 DEF OnlyAtHome, FindsTheHolders
  <2>9. ActsOnTheOneTask' /\ NotFoundMeansGone' /\ SaysItOncePerTry'
    BY <1>1, <2>1 DEF ActsOnTheOneTask, NotFoundMeansGone, SaysItOncePerTry
  <2> QED BY <2>5, <2>6, <2>7, <2>8, <2>9
<1> QED BY <1>2, <1>3

\* The user's hand leaves a call unsure.
LEMMA UserMakesUnsure == WriteBackInv /\ UserMoves => WriteBackInv'
<1> SUFFICES ASSUME WriteBackInv, UserMoves PROVE WriteBackInv'
  OBVIOUS
<1> USE DEF WriteBackInv, CallsActOnce
<1>1. /\ unsure' = TRUE
      /\ UNCHANGED <<plugin, posts, op, at, todo, found, result, tries, acted, held>>
  BY DEF UserMoves
<1>2. task' \in [Place -> {"none", "open", "done"}]
  BY DEF UserMoves, WriteBackTypeOK, Holders
<1>3. plugin # "googletasks" => Holders' \subseteq Holders
  BY DEF UserMoves, WriteBackTypeOK, Holders
<1>4. WriteBackTypeOK'
  BY <1>1, <1>2 DEF WriteBackTypeOK
<1>5. CallIsOpen' /\ FindsTheHolders' /\ PostsAreCounted'
  BY <1>1 DEF CallIsOpen, FindsTheHolders, PostsAreCounted
<1>6. OnlyAtHome'
  BY <1>1, <1>3 DEF OnlyAtHome
<1>7. ActsOnTheOneTask' /\ NotFoundMeansGone' /\ SaysItOncePerTry'
  BY <1>1 DEF ActsOnTheOneTask, NotFoundMeansGone, SaysItOncePerTry
<1> QED BY <1>4, <1>5, <1>6, <1>7

\* The invariant is inductive.
LEMMA WriteBackInvStep == WriteBackInv /\ [WriteBackNext]_writeBackVars => WriteBackInv'
<1> SUFFICES ASSUME WriteBackInv, [WriteBackNext]_writeBackVars PROVE WriteBackInv'
  OBVIOUS
<1>0. op = "none" <=> at = "none"
  BY DEF WriteBackInv, CallIsOpen
<1>1. CASE Call
  <2> USE <1>1 DEF WriteBackInv, CallsActOnce, Call
  <2>1. WriteBackTypeOK'
    BY HomeIsAPlace, WriteBackAssumption DEF WriteBackTypeOK, FirstRequest, Holders
  <2>2. CallIsOpen'
    BY DEF CallIsOpen, FirstRequest, Holders
  <2>3. FindsTheHolders'
    <3>1. /\ at' # "change" \/ plugin # "googletasks"
          /\ at' = "find" <=> plugin = "googletasks"
          /\ (at' = "comment" => plugin = "github") /\ (at' = "dm" => plugin = "reaction")
      BY DEF FirstRequest, WriteBackTypeOK, Completers, HasState
    <3>2. CASE plugin = "googletasks"
      <4>1. todo' = TaskLists /\ found' = {} /\ held' = Holders /\ UNCHANGED plugin
        BY <3>2
      <4>2. Holders \subseteq {TaskLists[i] : i \in 1..Len(TaskLists)}
        BY HomeIsAPlace DEF Holders, Place
      <4>3. at' = "find"
        BY <3>1, <3>2
      <4> QED BY <4>1, <4>2, <4>3, HomeIsAPlace DEF FindsTheHolders
    <3>3. CASE plugin # "googletasks"
      <4>1. todo' = <<>> /\ found' = {Home} /\ UNCHANGED plugin
        BY <3>3
      <4> QED BY <3>1, <3>3, <4>1 DEF FindsTheHolders
    <3> QED BY <3>2, <3>3
  <2>4. OnlyAtHome'
    BY DEF OnlyAtHome, Holders
  <2>5. PostsAreCounted'
    BY DEF PostsAreCounted, WriteBackTypeOK, FirstRequest
  <2>6. ActsOnTheOneTask' /\ NotFoundMeansGone' /\ SaysItOncePerTry'
    BY DEF ActsOnTheOneTask, NotFoundMeansGone, SaysItOncePerTry, WriteBackTypeOK
  <2> QED BY <2>1, <2>2, <2>3, <2>4, <2>5, <2>6
<1>2. CASE FindIn
  BY <1>2, FindGoesOn
<1>3. CASE FindPastPage
  <2> USE <1>3 DEF WriteBackInv, CallsActOnce, FindPastPage
  <2>1. Tail(todo) \in Seq(Place)
    BY HeadAndTail DEF FindsTheHolders
  <2>2. WriteBackTypeOK' /\ CallIsOpen' /\ PostsAreCounted'
    BY DEF WriteBackTypeOK, CallIsOpen, PostsAreCounted
  <2>3. FindsTheHolders'
    BY <2>1 DEF FindsTheHolders
  <2>4. OnlyAtHome'
    BY DEF OnlyAtHome, Holders
  <2>5. ActsOnTheOneTask' /\ NotFoundMeansGone' /\ SaysItOncePerTry'
    BY DEF ActsOnTheOneTask, NotFoundMeansGone, SaysItOncePerTry
  <2> QED BY <2>2, <2>3, <2>4, <2>5
<1>4. CASE Found
  <2>1. /\ at = "find" /\ todo = <<>>
        /\ UNCHANGED <<plugin, task, posts, tries, acted, held, unsure>>
    BY <1>4 DEF Found
  <2>2. ~unsure => found = held
    <3>1. {todo[i] : i \in 1..Len(todo)} = {}
      BY <2>1
    <3> QED BY <2>1, <3>1 DEF WriteBackInv, FindsTheHolders
  <2>3. CASE found = {}
    BY <1>0, <1>4, <2>1, <2>2, <2>3, AnswerEndsTheCall DEF Found
  <2>4. CASE found # {}
    <3>1. at' = "change" /\ UNCHANGED <<op, todo, found, result>>
      BY <1>4, <2>4 DEF Found
    <3> USE DEF WriteBackInv, CallsActOnce
    <3>2. WriteBackTypeOK' /\ CallIsOpen' /\ PostsAreCounted'
      BY <2>1, <3>1
         DEF WriteBackTypeOK, CallIsOpen, PostsAreCounted, FindsTheHolders, Holders
    <3>3. FindsTheHolders' /\ OnlyAtHome'
      BY <2>1, <2>2, <2>4, <3>1 DEF FindsTheHolders, OnlyAtHome, Holders
    <3>4. ActsOnTheOneTask' /\ NotFoundMeansGone' /\ SaysItOncePerTry'
      BY <2>1, <3>1 DEF ActsOnTheOneTask, NotFoundMeansGone, SaysItOncePerTry
    <3> QED BY <3>2, <3>3, <3>4
  <2> QED BY <2>3, <2>4
<1>5. CASE Comment \/ CommentReplyIsLost \/ OpenDM
  <2> USE <1>5 DEF WriteBackInv, CallsActOnce
  <2>1. /\ op # "none" /\ plugin \in {"github", "reaction"} /\ posts < tries
        /\ at \in {"comment", "dm"} /\ (plugin = "github" <=> at = "comment")
        /\ UNCHANGED <<plugin, task, tries, acted, held, unsure>>
    BY <1>0 DEF Comment, CommentReplyIsLost, OpenDM, FindsTheHolders, PostsAreCounted
  <2>2. /\ posts' = (IF plugin = "github" THEN posts + 1 ELSE posts)
        /\ \/ at' = "change" /\ UNCHANGED <<op, todo, found, result>>
           \/ at' = "none" /\ op' = "none" /\ todo' = <<>> /\ found' = {} /\ result' = "error"
    BY <2>1 DEF Comment, CommentReplyIsLost, OpenDM, Answer
  <2> HIDE <1>5
  <2>3. WriteBackTypeOK' /\ CallIsOpen'
    <3>1. posts' \in 0..MaxTries
      BY <2>1, <2>2, WriteBackAssumption DEF WriteBackTypeOK
    <3>2. WriteBackTypeOK'
      BY <2>1, <2>2, <3>1 DEF WriteBackTypeOK
    <3>3. CallIsOpen'
      BY <2>1, <2>2 DEF CallIsOpen, Holders
    <3> QED BY <3>2, <3>3
  <2>4. FindsTheHolders' /\ OnlyAtHome'
    <3>1. OnlyAtHome'
      BY <2>1, <2>2 DEF OnlyAtHome, Holders
    <3>2. CASE at' = "none"
      <4>1. todo' = <<>> /\ found' = {}
        BY <2>1, <2>2, <3>2
      <4> QED BY <3>1, <3>2, <4>1 DEF FindsTheHolders
    <3>3. CASE at' = "change" /\ UNCHANGED <<op, todo, found, result>>
      BY <2>1, <3>1, <3>3 DEF FindsTheHolders
    <3> QED BY <2>2, <3>1, <3>2, <3>3
  <2>5. PostsAreCounted'
    BY <2>1, <2>2 DEF PostsAreCounted, WriteBackTypeOK
  <2>6. ActsOnTheOneTask' /\ NotFoundMeansGone' /\ SaysItOncePerTry'
    BY <2>1, <2>2 DEF ActsOnTheOneTask, NotFoundMeansGone, SaysItOncePerTry, CallIsOpen,
       WriteBackTypeOK
  <2> QED BY <2>3, <2>4, <2>5, <2>6
<1>6. CASE Change
  BY <1>6, ChangeActsOnce
<1>7. CASE ChangeFindsNothing
  <2>1. /\ at = "change" /\ task[Chosen] = "none" /\ (Answer("not_found") \/ Answer("error"))
        /\ UNCHANGED <<plugin, task, posts, tries, acted, held, unsure>>
    BY <1>7 DEF ChangeFindsNothing
  <2>2. ~unsure => held = {}
    BY <2>1, ChosenIsTheHolder
  <2> QED BY <1>0, <2>1, <2>2, AnswerEndsTheCall
<1>8. CASE RequestFails
  BY <1>0, <1>8, AnswerEndsTheCall DEF RequestFails
<1>9. CASE UserMoves
  BY <1>9, UserMakesUnsure
<1>10. CASE UNCHANGED writeBackVars
  BY <1>10
     DEF writeBackVars, callVars, WriteBackInv, CallsActOnce, WriteBackTypeOK,
         CallIsOpen,
     FindsTheHolders, OnlyAtHome, PostsAreCounted, ActsOnTheOneTask, NotFoundMeansGone,
     SaysItOncePerTry, Holders
<1> QED BY <1>1, <1>2, <1>3, <1>4, <1>5, <1>6, <1>7, <1>8, <1>9, <1>10 DEF WriteBackNext

\* For any lists, sources and tries, with the user in the same account and
\* replies lost: a call acts on the one task, and answers what it did.
LEMMA WriteBackIsSafe == WriteBackSpec => []CallsActOnce
BY WriteBackInitInv, WriteBackInvStep, PTL DEF WriteBackSpec, WriteBackInv

---------------------------------------------------------------------------
(* The feeds: the remote sources a tick collects from *)

\* The item has its row, or a reason has been noted for its having none.
RowOrReason(i) == i \in queued \/ \E r \in Reasons : <<i, r>> \in why

\* No stamp and no cursor is ahead of the clock, and what has not appeared is
\* in no set; a round reads with the cursor until it moves it.
RoundIsNow ==
    /\ \A i \in Item : stamp[i] <= time /\ (stamp[i] = 0 => i \notin due \cup base \cup open \cup got)
    /\ cursor <= time /\ (Owner = "none" => cursor = 0)
    /\ phase \in {"first", "second", "persist"} => since = cursor
    /\ phase = "persist" => Owner = "own"
    /\ phase = "second" => Requests = 2
    /\ Requests = 1 => second = {}

\* An item without a row has a reason its source may have.
ReasonsAreGood == \A i \in Item, q \in Reasons :
    <<i, q>> \in why => \E r \in MayMiss : <<i, r>> \in why

\* What the cursor has passed is known, or in hand.
BehindIsKnown ==
    \A i \in open : Passes(i, cursor) \/ RowOrReason(i) \/ (phase \in {"advance", "record"} /\ i \in got)

\* What a round has read of what it began with.
RoundCovers ==
    /\ phase # "idle" => open \subseteq base \cup changed
    /\ \A i \in base \cap open :
           phase \in {"persist", "advance", "record"} \/ (phase = "second" /\ i \notin second)
               => i \in got \/ RowOrReason(i)
    /\ phase = "persist" /\ Marked =>
           \A i \in (open \cap changed) \ got : RowOrReason(i) \/ \A j \in got : stamp[j] < stamp[i]

DueIsKnown == due \cap queued = {} /\ \A i \in due \cap open : RowOrReason(i)

FeedInv ==
    /\ FeedTypeOK /\ RoundIsNow /\ ReasonsAreGood /\ BehindIsKnown /\ RoundCovers /\ DueIsKnown

\* What a source is follows from its kind, which never changes.
LEMMA KindsOfFeeds ==
    ASSUME kind \in Kinds
    PROVE  /\ Owner \in {"none", "own", "gather"} /\ Requests \in {1, 2}
           /\ Upstream.page \in {"newest", "any", "whole"}
           /\ Upstream.silent \in BOOLEAN /\ Upstream.old \in BOOLEAN
           /\ MayMiss \subseteq Reasons
           /\ Owner = "none" => ~Exact
           /\ Owner # "none" => "died" \in MayMiss /\ (~Marked => "raced" \in MayMiss)
           /\ Upstream.page # "whole" => "page" \in MayMiss
           /\ Upstream.silent => "silent" \in MayMiss
           /\ Upstream.old /\ Owner # "none" => "old" \in MayMiss
           /\ Marked => Exact /\ Owner = "own" /\ Requests = 1 /\ kind = "gmail_own"
                        /\ ~Upstream.silent
<1> USE DEF Feeds, Feed, Client, SlackHistory, ReactedHistory, GhSearch, GmailMessages,
            NotionQuery, TaskPages, EventPage, SlackFeed, ReactionFeed, GithubFeed, GmailFeed,
            NotionFeed, GoogleTasksFeed, CalendarFeed, Owner, Requests, Marked, Exact,
            Upstream, Reasons, MayMiss
<1>1. kind \in {"slack", "slack_own", "reaction", "github", "gmail", "gmail_own", "notion",
                "notion_own", "googletasks", "calendar"}
  BY DEF Kinds
<1>2. CASE kind = "slack"
  BY <1>2
<1>3. CASE kind = "slack_own"
  BY <1>3
<1>4. CASE kind = "reaction"
  BY <1>4
<1>5. CASE kind = "github"
  BY <1>5
<1>6. CASE kind = "gmail"
  BY <1>6
<1>7. CASE kind = "gmail_own"
  BY <1>7
<1>8. CASE kind = "notion"
  BY <1>8
<1>9. CASE kind = "notion_own"
  BY <1>9
<1>10. CASE kind = "googletasks"
  BY <1>10
<1>11. CASE kind = "calendar"
  BY <1>11
<1> QED BY <1>1, <1>2, <1>3, <1>4, <1>5, <1>6, <1>7, <1>8, <1>9, <1>10, <1>11

\* What a source is stays.
LEMMA KindStays ==
    ASSUME kind' = kind
    PROVE  /\ Owner' = Owner /\ Requests' = Requests /\ Marked' = Marked /\ Exact' = Exact
           /\ MayMiss' = MayMiss /\ Upstream' = Upstream
BY DEF Owner, Requests, Marked, Exact, MayMiss, Upstream

\* Nothing has appeared, and no round has begun.
LEMMA FeedInitInv == FeedInit => FeedInv
<1> SUFFICES ASSUME FeedInit PROVE FeedInv
  OBVIOUS
<1> USE FeedAssumption DEF FeedInit
<1>1. second \subseteq Item
  OBVIOUS
<1>2. FeedTypeOK
  BY <1>1 DEF FeedTypeOK
<1>3. RoundIsNow
  BY DEF RoundIsNow
<1> QED BY <1>2, <1>3
           DEF FeedInv, ReasonsAreGood, BehindIsKnown, RoundCovers, DueIsKnown,
               RowOrReason

\* What a step that leaves the rows alone may do to what is known.
LEMMA KnownStays ==
    ASSUME queued \subseteq queued', why \subseteq why', NEW i, RowOrReason(i)
    PROVE  RowOrReason(i)'
BY DEF RowOrReason

\* A reason that the source may have can be noted.
LEMMA ReasonsStayGood ==
    ASSUME NEW S \in SUBSET Item, NEW q \in Reasons, why' = why \cup (S \X {q}),
           kind' = kind, ReasonsAreGood,
           q \in MayMiss \/ S = {} \/ \A i \in S : \E r \in MayMiss : <<i, r>> \in why
    PROVE  ReasonsAreGood'
BY DEF ReasonsAreGood, MayMiss

\* An item that appears has a stamp that no cursor has passed, or is noted as old.
LEMMA AppearKeepsFeed ==
    ASSUME FeedInv, NEW i \in Item, Appear(i)
    PROVE  FeedInv'
<1> USE FeedAssumption DEF FeedInv
<1>0. /\ stamp[i] = 0 /\ open' = open \cup {i} /\ changed' = changed \cup {i}
      /\ UNCHANGED <<kind, second, phase, cursor, since, got, base, queued, due>>
  BY DEF Appear
<1>1. /\ Owner' = Owner /\ Requests' = Requests /\ Marked' = Marked /\ Exact' = Exact
      /\ MayMiss' = MayMiss
  BY <1>0 DEF Owner, Requests, Marked, Exact, MayMiss
<1>2. kind \in Kinds
  BY DEF FeedTypeOK
<1>3. /\ time' \in time..MaxTime /\ why \subseteq why' /\ why' \subseteq why \cup {<<i, "old">>}
      /\ \E s \in 1..time' : stamp' = [stamp EXCEPT ![i] = s]
                            /\ \/ s = time' /\ (Exact => s > time)
                               \/ <<i, "old">> \in why'
  BY <1>0 DEF Appear, Clock, FeedTypeOK
<1>4. PICK s \in 1..time' : stamp' = [stamp EXCEPT ![i] = s]
                            /\ \/ s = time' /\ (Exact => s > time)
                               \/ <<i, "old">> \in why'
  BY <1>3
<1>5. <<i, "old">> \in why' => why' = why \/ (Upstream.old /\ Owner # "none")
  BY DEF Appear
<1>6. FeedTypeOK'
  BY <1>0, <1>3, <1>4 DEF FeedTypeOK, Reasons
<1>7. RoundIsNow'
  BY <1>0, <1>1, <1>3, <1>4 DEF RoundIsNow, FeedTypeOK
<1>8. ReasonsAreGood'
  <2>1. <<i, "old">> \in why' => why' = why \/ "old" \in MayMiss
    BY <1>2, <1>5, KindsOfFeeds
  <2> QED BY <1>1, <1>3, <2>1 DEF ReasonsAreGood
<1>9. Passes(i, cursor)' \/ RowOrReason(i)'
  <2>1. CASE <<i, "old">> \in why'
    BY <2>1 DEF RowOrReason, Reasons
  <2>2. CASE s = time' /\ (Exact => s > time)
    BY <1>0, <1>1, <1>3, <1>4, <2>2 DEF Passes, RoundIsNow, FeedTypeOK
  <2> QED BY <1>4, <2>1, <2>2
<1>10. \A j \in Item : j # i => stamp'[j] = stamp[j] /\ (Passes(j, cursor)' <=> Passes(j, cursor))
  BY <1>0, <1>1, <1>4 DEF Passes, FeedTypeOK
<1>11. BehindIsKnown'
  <2>1. \A j \in open : RowOrReason(j) => RowOrReason(j)'
    BY <1>0, <1>3, KnownStays
  <2> QED BY <1>0, <1>9, <1>10, <2>1 DEF BehindIsKnown, FeedTypeOK
<1>12. RoundCovers'
  <2>1. \A j \in open : RowOrReason(j) => RowOrReason(j)'
    BY <1>0, <1>3, KnownStays
  <2>2. i \notin base
    BY <1>0 DEF RoundIsNow
  <2>3. (phase = "persist" /\ Marked)' =>
           \A k \in (open' \cap changed') \ got' : RowOrReason(k)' \/ \A j \in got' : stamp'[j] < stamp'[k]
    <3> SUFFICES ASSUME phase = "persist", Marked, NEW k \in (open \cup {i}) \ got,
                        k \in changed \cup {i}, ~RowOrReason(k)', NEW j \in got
                 PROVE  stamp'[j] < stamp'[k]
      BY <1>0, <1>1
    <3>1. stamp[j] <= time /\ stamp[j] \in Nat /\ time \in Nat /\ j \in Item /\ k \in Item /\ j # k
      BY <1>0 DEF RoundIsNow, FeedTypeOK
    <3>2. CASE k = i
      <4>1. s > time
        BY <1>2, <1>4, <3>2, KindsOfFeeds DEF RowOrReason, Reasons
      <4> QED BY <1>4, <3>1, <3>2, <4>1 DEF FeedTypeOK
    <3>3. CASE k # i
      <4>1. stamp[j] < stamp[k]
        BY <2>1, <3>3 DEF RoundCovers
      <4>2. j # i
        BY <1>0 DEF RoundIsNow
      <4> QED BY <1>10, <3>1, <3>3, <4>1, <4>2
    <3> QED BY <3>2, <3>3
  <2> QED BY <1>0, <1>1, <2>1, <2>2, <2>3 DEF RoundCovers
<1>13. DueIsKnown'
  <2>1. \A j \in open : RowOrReason(j) => RowOrReason(j)'
    BY <1>0, <1>3, KnownStays
  <2>2. i \notin due
    BY <1>0 DEF RoundIsNow
  <2> QED BY <1>0, <2>1, <2>2 DEF DueIsKnown
<1> QED BY <1>6, <1>7, <1>8, <1>11, <1>12, <1>13

\* An edit makes an item newer.
LEMMA EditKeepsFeed ==
    ASSUME FeedInv, NEW i \in Item, Edit(i)
    PROVE  FeedInv'
<1> USE FeedAssumption DEF FeedInv
<1>0. /\ i \in open /\ changed' = changed \cup {i}
      /\ kind \in {"github", "notion", "notion_own"}
      /\ time' \in time..MaxTime /\ stamp' = [stamp EXCEPT ![i] = time']
      /\ Exact => time' = time + 1
      /\ UNCHANGED <<kind, second, open, phase, cursor, since, got, base, queued, due, why>>
  BY DEF Edit, Clock, FeedTypeOK
<1>1. /\ Owner' = Owner /\ Requests' = Requests /\ Marked' = Marked /\ Exact' = Exact
      /\ MayMiss' = MayMiss
  BY <1>0, KindStays
<1>2. ~Marked
  BY <1>0, KindsOfFeeds DEF FeedTypeOK
<1>3. FeedTypeOK'
  BY <1>0 DEF FeedTypeOK
<1>4. RoundIsNow'
  BY <1>0, <1>1 DEF RoundIsNow, FeedTypeOK
<1>5. ReasonsAreGood'
  BY <1>0, <1>1 DEF ReasonsAreGood
<1>6. \A j \in Item : RowOrReason(j)' <=> RowOrReason(j)
  BY <1>0 DEF RowOrReason
<1>7. \A j \in Item : Passes(j, cursor) => Passes(j, cursor)'
  BY <1>0, <1>1 DEF Passes, FeedTypeOK, RoundIsNow
<1>8. BehindIsKnown'
  BY <1>0, <1>6, <1>7 DEF BehindIsKnown, FeedTypeOK
<1>9. RoundCovers'
  BY <1>0, <1>1, <1>2, <1>6 DEF RoundCovers, FeedTypeOK
<1>10. DueIsKnown'
  BY <1>0, <1>6 DEF DueIsKnown, FeedTypeOK
<1> QED BY <1>3, <1>4, <1>5, <1>8, <1>9, <1>10

\* What is closed is nobody's loss.
LEMMA CloseKeepsFeed ==
    ASSUME FeedInv, NEW i \in Item, Close(i)
    PROVE  FeedInv'
<1> USE DEF FeedInv
<1>0. /\ open' = open \ {i}
      /\ UNCHANGED <<kind, second, time, stamp, phase, cursor, since, got, base, changed,
                     queued, due, why>>
  BY DEF Close
<1>1. /\ Owner' = Owner /\ Requests' = Requests /\ Marked' = Marked /\ Exact' = Exact
      /\ MayMiss' = MayMiss
  BY <1>0, KindStays
<1>2. FeedTypeOK'
  BY <1>0 DEF FeedTypeOK
<1>3. RoundIsNow' /\ ReasonsAreGood'
  BY <1>0, <1>1 DEF RoundIsNow, ReasonsAreGood
<1>4. BehindIsKnown' /\ DueIsKnown'
  BY <1>0, <1>1 DEF BehindIsKnown, DueIsKnown, RowOrReason, Passes
<1>5. RoundCovers'
  BY <1>0, <1>1 DEF RoundCovers, RowOrReason
<1> QED BY <1>2, <1>3, <1>4, <1>5

LEMMA BeginRoundKeepsFeed ==
    ASSUME FeedInv, BeginRound
    PROVE  FeedInv'
<1> USE DEF FeedInv
<1>0. /\ phase = "idle" /\ phase' = "first" /\ since' = IF Owner = "none" THEN 0 ELSE cursor
      /\ got' = {} /\ base' = open /\ changed' = {}
      /\ UNCHANGED <<kind, second, time, stamp, open, cursor, queued, due, why>>
  BY DEF BeginRound, upstreamVars
<1>1. /\ Owner' = Owner /\ Requests' = Requests /\ Marked' = Marked /\ Exact' = Exact
      /\ MayMiss' = MayMiss
  BY <1>0, KindStays
<1>2. FeedTypeOK'
  BY <1>0, FeedAssumption DEF FeedTypeOK
<1>3. RoundIsNow' /\ ReasonsAreGood'
  BY <1>0, <1>1 DEF RoundIsNow, ReasonsAreGood
<1>4. BehindIsKnown' /\ DueIsKnown'
  BY <1>0, <1>1 DEF BehindIsKnown, DueIsKnown, RowOrReason, Passes
<1>5. RoundCovers'
  BY <1>0, <1>1 DEF RoundCovers, RowOrReason
<1> QED BY <1>2, <1>3, <1>4, <1>5

\* A page is part of what matches.
LEMMA PageIsPart == \A S : \A P \in FirstPage(S) : P \subseteq S
BY DEF FirstPage

\* A request accounts for everything it asks for: what it was given, what its
\* page or the refusal cut off, and what the cursor has passed.
LEMMA FetchKeepsFeed ==
    ASSUME FeedInv, NEW n \in {1, 2}, Fetch(n)
    PROVE  FeedInv'
<1> USE DEF FeedInv
<1>0. /\ phase = (IF n = 1 THEN "first" ELSE "second") /\ phase' = AfterRequest(n)
      /\ UNCHANGED <<kind, second, time, stamp, open, cursor, since, base, changed, queued, due>>
  BY DEF Fetch, upstreamVars
<1>1. /\ Owner' = Owner /\ Requests' = Requests /\ Marked' = Marked /\ Exact' = Exact
      /\ MayMiss' = MayMiss
  BY <1>0, KindStays
<1> USE <1>1
<1>2. kind \in Kinds
  BY DEF FeedTypeOK
<1>3. PICK P \in SUBSET Matching(n), q \in {"page", "silent"} :
          /\ got' = got \cup Newer(P)
          /\ why' = why \cup Blame(Matching(n) \ P, q)
          /\ q \in MayMiss \/ P = Matching(n)
  <2>1. CASE Refused(n)
    <3>1. Upstream.silent /\ got' = got /\ why' = why \cup Blame(Matching(n) \ {}, "silent")
      BY <2>1 DEF Refused
    <3>2. "silent" \in MayMiss
      BY <1>2, <3>1, KindsOfFeeds
    <3>3. Newer({}) = {}
      BY DEF Newer
    <3> QED BY <3>1, <3>2, <3>3
  <2>2. CASE Answered(n)
    <3>1. PICK P \in FirstPage(Matching(n)) :
              /\ got' = got \cup Newer(P)
              /\ why' = why \cup Blame(Matching(n) \ P, "page")
      BY <2>2 DEF Answered
    <3>2. P \subseteq Matching(n)
      BY PageIsPart
    <3>3. "page" \in MayMiss \/ P = Matching(n)
      BY <1>2, KindsOfFeeds DEF FirstPage
    <3> QED BY <3>1, <3>2, <3>3
  <2> QED BY <2>1, <2>2 DEF Fetch
<1>4. Matching(n) \subseteq open /\ Newer(P) \subseteq P
  BY DEF Matching, Newer
<1>5. FeedTypeOK'
  BY <1>0, <1>3, <1>4 DEF FeedTypeOK, Blame, Reasons, AfterRequest
<1>6. phase' \in {"second", "persist", "advance"} /\ (phase' = "second" => n = 1 /\ Requests = 2)
      /\ (phase' = "persist" => Owner = "own")
  <2>1. Requests \in {1, 2}
    BY <1>2, KindsOfFeeds
  <2> QED BY <1>0, <2>1 DEF AfterRequest
<1>7. RoundIsNow'
  BY <1>0, <1>3, <1>4, <1>6 DEF RoundIsNow
<1>8. \A j : RowOrReason(j) => RowOrReason(j)'
  BY <1>0, <1>3, KnownStays
<1>9. ReasonsAreGood'
  BY <1>3 DEF ReasonsAreGood, Blame
<1>10. \A j \in Item : Passes(j, cursor)' <=> Passes(j, cursor)
  BY <1>0 DEF Passes
<1>11. BehindIsKnown'
  BY <1>0, <1>8, <1>10 DEF BehindIsKnown, FeedTypeOK
<1>12. \A j \in open \cap RequestItems(n) : j \in got' \/ RowOrReason(j)'
  <2> SUFFICES ASSUME NEW j \in open, j \in RequestItems(n), j \notin got', ~RowOrReason(j)'
               PROVE  FALSE
    OBVIOUS
  <2>1. since = cursor /\ Passes(j, cursor)
    BY <1>0, <1>8 DEF RoundIsNow, BehindIsKnown
  <2>2. j \in Matching(n)
    BY <2>1 DEF Matching
  <2>3. j \in P
    BY <1>0, <1>3, <2>2 DEF Blame, RowOrReason, Reasons
  <2>4. j \in Newer(P)
    <3>1. Marked => stamp[j] > since
      BY <1>2, <2>1, KindsOfFeeds DEF Passes
    <3> QED BY <2>3, <3>1 DEF Newer
  <2> QED BY <1>3, <2>4
<1>13. DueIsKnown'
  BY <1>0, <1>8 DEF DueIsKnown
<1>14. RoundCovers'
  <2>1. (phase # "idle" => open \subseteq base \cup changed)'
    BY <1>0 DEF RoundCovers
  <2>2. \A i \in base \cap open :
           phase' \in {"persist", "advance"} \/ (phase' = "second" /\ i \notin second)
               => i \in got' \/ RowOrReason(i)'
    <3>1. CASE n = 1
      <4>1. phase' # "second" => second = {}
        <5>1. Requests \in {1, 2}
          BY <1>2, KindsOfFeeds
        <5> QED BY <1>0, <3>1, <5>1 DEF AfterRequest, RoundIsNow
      <4> QED BY <1>6, <1>12, <3>1, <4>1 DEF RequestItems, FeedTypeOK
    <3>2. CASE n = 2
      BY <1>0, <1>3, <1>8, <1>12, <3>2 DEF RequestItems, RoundCovers, FeedTypeOK
    <3> QED BY <3>1, <3>2
  <2>3. phase' = "persist" /\ Marked =>
           \A i \in (open \cap changed) \ got' : RowOrReason(i)' \/ \A j \in got' : stamp[j] < stamp[i]
    <3>1. Marked => Requests = 1
      BY <1>2, KindsOfFeeds
    <3>2. Marked => n = 1 /\ second = {}
      BY <1>0, <3>1 DEF RoundIsNow
    <3> QED BY <1>12, <3>2 DEF RequestItems, FeedTypeOK
  <2> QED BY <1>0, <1>6, <2>1, <2>2, <2>3 DEF RoundCovers
<1> QED BY <1>5, <1>7, <1>9, <1>11, <1>13, <1>14

LEMMA FetchFailsKeepsFeed ==
    ASSUME FeedInv, FetchFails
    PROVE  FeedInv'
<1> USE DEF FeedInv
<1>0. /\ phase \in {"first", "second", "persist"} /\ phase' = "idle" /\ got' = {}
      /\ UNCHANGED <<kind, second, time, stamp, open, cursor, since, base, changed, queued, due, why>>
  BY DEF FetchFails, upstreamVars
<1>1. /\ Owner' = Owner /\ Requests' = Requests /\ Marked' = Marked /\ Exact' = Exact
      /\ MayMiss' = MayMiss
  BY <1>0, KindStays
<1>2. FeedTypeOK'
  BY <1>0 DEF FeedTypeOK
<1>3. RoundIsNow' /\ ReasonsAreGood'
  BY <1>0, <1>1 DEF RoundIsNow, ReasonsAreGood
<1>4. BehindIsKnown' /\ DueIsKnown' /\ RoundCovers'
  BY <1>0, <1>1 DEF BehindIsKnown, DueIsKnown, RoundCovers, RowOrReason, Passes
<1> QED BY <1>2, <1>3, <1>4

\* Of the items a round was given one is the newest.
LEMMA LatestIsNewest ==
    ASSUME FeedTypeOK, got # {}
    PROVE  /\ Latest(got) \in {stamp[i] : i \in got}
           /\ \A i \in got : stamp[i] <= Latest(got)
<1> USE FeedAssumption
<1>1. {MaxTime - stamp[i] : i \in got} \subseteq Nat /\ {MaxTime - stamp[i] : i \in got} # {}
  BY DEF FeedTypeOK
<1>2. PICK x \in {MaxTime - stamp[i] : i \in got} : \A y \in {MaxTime - stamp[i] : i \in got} : x <= y
  BY <1>1, LeastOfNaturals
<1>3. PICK k \in got : x = MaxTime - stamp[k]
  BY <1>2
<1>4. ASSUME NEW i \in got PROVE stamp[i] <= stamp[k]
  <2>1. MaxTime - stamp[k] <= MaxTime - stamp[i]
    BY <1>2, <1>3
  <2>2. stamp[i] \in Nat /\ stamp[k] \in Nat
    BY DEF FeedTypeOK
  <2> QED BY <2>1, <2>2
<1>5. \E s \in {stamp[i] : i \in got} : \A i \in got : stamp[i] <= s
  BY <1>4
<1> QED BY <1>5 DEF Latest

\* The cursor moves over what was given, what was missed for a reason, and what
\* came in meanwhile, which is a reason of its own.
LEMMA CursorMoves ==
    ASSUME FeedInv, phase \in {"persist", "advance"}, phase' \in {"advance", "record"},
           phase = "advance" => phase' = "record",
           NEW c \in 0..time, cursor' = c, why' = why \cup Blame(Raced(c), "raced"),
           UNCHANGED <<kind, upstreamVars, since, got, base, changed, queued, due>>,
           Owner # "none",
           "raced" \in MayMiss \/ \A i \in Raced(c) : RowOrReason(i)
    PROVE  FeedInv'
<1> USE FeedAssumption DEF FeedInv
<1>0. UNCHANGED <<kind, second, time, stamp, open, since, got, base, changed, queued, due>>
  BY DEF upstreamVars
<1>1. /\ Owner' = Owner /\ Requests' = Requests /\ Marked' = Marked /\ Exact' = Exact
      /\ MayMiss' = MayMiss
  BY <1>0, KindStays
<1> USE <1>1
<1>2. FeedTypeOK'
  BY <1>0 DEF FeedTypeOK, Blame, Raced, Reasons
<1>3. RoundIsNow'
  BY <1>0 DEF RoundIsNow, FeedTypeOK
<1>4. \A j : RowOrReason(j) => RowOrReason(j)'
  BY <1>0, KnownStays
<1>5. ReasonsAreGood'
  <2>1. \A j \in Item : RowOrReason(j) /\ j \notin queued => \E r \in MayMiss : <<j, r>> \in why
    BY DEF RowOrReason, ReasonsAreGood
  <2>2. Raced(c) \subseteq Item
    BY DEF Raced, FeedTypeOK
  <2> QED BY <2>1, <2>2 DEF ReasonsAreGood, Blame
<1>6. DueIsKnown'
  BY <1>0, <1>4 DEF DueIsKnown
<1>7. \A j \in open : j \in got \/ RowOrReason(j)' \/ Passes(j, c)
  <2>1. \A j \in open : j \in Raced(c) => RowOrReason(j)'
    BY <1>0 DEF RowOrReason, Blame, Reasons
  <2>2. \A j \in open : j \in base \/ j \in changed
    BY DEF RoundCovers
  <2> QED BY <1>4, <2>1, <2>2 DEF RoundCovers, Raced
<1>8. BehindIsKnown'
  BY <1>0, <1>7 DEF BehindIsKnown, Passes
<1>9. RoundCovers'
  BY <1>0, <1>4 DEF RoundCovers
<1> QED BY <1>2, <1>3, <1>5, <1>6, <1>8, <1>9

LEMMA PersistKeepsFeed ==
    ASSUME FeedInv, Persist
    PROVE  FeedInv'
<1> DEFINE c == IF got # {} /\ (Latest(got) > since \/ Marked) THEN Latest(got) ELSE cursor
<1>1. /\ phase = "persist" /\ phase' = "advance" /\ cursor' = c
      /\ why' = why \cup Blame(Raced(c), "raced")
      /\ UNCHANGED <<kind, upstreamVars, since, got, base, changed, queued, due>>
  BY DEF Persist
<1>2. FeedTypeOK /\ kind \in Kinds /\ Owner = "own"
  BY <1>1 DEF FeedInv, FeedTypeOK, RoundIsNow
<1>3. c \in 0..time
  BY <1>2, LatestIsNewest DEF FeedInv, RoundIsNow, FeedTypeOK
<1>4. "raced" \in MayMiss \/ \A i \in Raced(c) : RowOrReason(i)
  <2> SUFFICES ASSUME Marked, NEW i \in Raced(c), ~RowOrReason(i) PROVE FALSE
    BY <1>2, KindsOfFeeds
  <2>1. Exact /\ i \in open \cap changed /\ i \notin got /\ ~Passes(i, c) /\ i \in Item
    BY <1>2, KindsOfFeeds DEF Raced, FeedTypeOK
  <2>2. Passes(i, cursor)
    BY <1>1, <2>1 DEF FeedInv, BehindIsKnown
  <2>3. got # {} /\ c = Latest(got)
    BY <2>1, <2>2
  <2>4. \A j \in got : stamp[j] < stamp[i]
    BY <1>1, <2>1 DEF FeedInv, RoundCovers
  <2>5. Latest(got) < stamp[i]
    BY <1>2, <2>3, <2>4, LatestIsNewest
  <2> QED BY <2>1, <2>3, <2>5 DEF Passes
<1> HIDE DEF c
<1> QED BY <1>1, <1>2, <1>3, <1>4, CursorMoves

LEMMA AdvanceKeepsFeed ==
    ASSUME FeedInv, Advance
    PROVE  FeedInv'
<1>0. /\ phase = "advance" /\ phase' = "record"
      /\ UNCHANGED <<kind, upstreamVars, since, got, base, changed, queued, due>>
  BY DEF Advance
<1>1. kind \in Kinds
  BY DEF FeedInv, FeedTypeOK
<1>2. CASE Owner = "gather" /\ cursor' = time /\ why' = why \cup Blame(Raced(time), "raced")
  <2>1. "raced" \in MayMiss
    BY <1>1, <1>2, KindsOfFeeds
  <2>2. time \in 0..time
    BY FeedAssumption DEF FeedInv, FeedTypeOK
  <2> QED BY <1>0, <1>2, <2>1, <2>2, CursorMoves
<1>3. CASE UNCHANGED <<cursor, why>>
  <2> USE DEF FeedInv
  <2>1. /\ Owner' = Owner /\ Requests' = Requests /\ Marked' = Marked /\ Exact' = Exact
        /\ MayMiss' = MayMiss
    BY <1>0, KindStays
  <2>2. FeedTypeOK'
    BY <1>0, <1>3 DEF FeedTypeOK, upstreamVars
  <2>3. RoundIsNow' /\ ReasonsAreGood'
    BY <1>0, <1>3, <2>1 DEF RoundIsNow, ReasonsAreGood, upstreamVars
  <2>4. BehindIsKnown' /\ DueIsKnown' /\ RoundCovers'
    BY <1>0, <1>3, <2>1
       DEF BehindIsKnown, DueIsKnown, RoundCovers, RowOrReason, Passes, upstreamVars
  <2> QED BY <2>2, <2>3, <2>4
<1> QED BY <1>2, <1>3 DEF Advance

\* What a round was given gets its row, and the rest of what it began with is
\* due from now on.
LEMMA RecordKeepsFeed ==
    ASSUME FeedInv, Record
    PROVE  FeedInv'
<1> USE DEF FeedInv
<1>0. /\ phase = "record" /\ phase' = "idle"
      /\ queued' = queued \cup got /\ due' = (due \cup base) \ queued'
      /\ why' = {w \in why : w[1] \notin queued'}
      /\ got' = {} /\ base' = {} /\ changed' = {}
      /\ UNCHANGED <<kind, second, time, stamp, open, cursor, since>>
  BY DEF Record, upstreamVars
<1>1. /\ Owner' = Owner /\ Requests' = Requests /\ Marked' = Marked /\ Exact' = Exact
      /\ MayMiss' = MayMiss
  BY <1>0, KindStays
<1>2. FeedTypeOK'
  BY <1>0 DEF FeedTypeOK
<1>3. RoundIsNow'
  BY <1>0, <1>1 DEF RoundIsNow
<1>4. ReasonsAreGood'
  BY <1>0, <1>1 DEF ReasonsAreGood
<1>5. \A j \in Item : RowOrReason(j) \/ j \in got => RowOrReason(j)'
  BY <1>0 DEF RowOrReason
<1>6. BehindIsKnown'
  BY <1>0, <1>1, <1>5 DEF BehindIsKnown, Passes, FeedTypeOK
<1>7. DueIsKnown'
  BY <1>0, <1>5 DEF DueIsKnown, RoundCovers, FeedTypeOK
<1>8. RoundCovers'
  BY <1>0 DEF RoundCovers
<1> QED BY <1>2, <1>3, <1>4, <1>6, <1>7, <1>8

\* What dies in hand and is behind the cursor is noted as that.
LEMMA DiesKeepsFeed ==
    ASSUME FeedInv, Dies
    PROVE  FeedInv'
<1> USE DEF FeedInv
<1>0. /\ phase \in {"advance", "record"} /\ phase' = "idle" /\ got' = {}
      /\ why' = why \cup Blame({i \in got : ~Passes(i, cursor)}, "died")
      /\ UNCHANGED <<kind, second, time, stamp, open, cursor, since, base, changed, queued, due>>
  BY DEF Dies, upstreamVars
<1>1. /\ Owner' = Owner /\ Requests' = Requests /\ Marked' = Marked /\ Exact' = Exact
      /\ MayMiss' = MayMiss
  BY <1>0, KindStays
<1>2. FeedTypeOK'
  BY <1>0 DEF FeedTypeOK, Blame, Reasons
<1>3. RoundIsNow'
  BY <1>0, <1>1 DEF RoundIsNow
<1>4. "died" \in MayMiss \/ \A i \in got : Passes(i, cursor)
  <2>1. Owner = "none" => \A i \in got : Passes(i, cursor)
    BY KindsOfFeeds DEF Passes, RoundIsNow, FeedTypeOK
  <2> QED BY <2>1, KindsOfFeeds DEF FeedTypeOK
<1>5. ReasonsAreGood'
  BY <1>0, <1>1, <1>4 DEF ReasonsAreGood, Blame
<1>6. \A j : RowOrReason(j) => RowOrReason(j)'
  BY <1>0, KnownStays
<1>7. BehindIsKnown'
  <2>1. \A j \in got : Passes(j, cursor) \/ RowOrReason(j)'
    BY <1>0 DEF Blame, RowOrReason, Reasons
  <2> QED BY <1>0, <1>1, <1>6, <2>1 DEF BehindIsKnown, Passes
<1>8. DueIsKnown'
  BY <1>0, <1>6 DEF DueIsKnown
<1>9. RoundCovers'
  BY <1>0 DEF RoundCovers
<1> QED BY <1>2, <1>3, <1>5, <1>7, <1>8, <1>9

LEMMA FeedInvStep == FeedInv /\ [FeedNext]_feedVars => FeedInv'
<1> SUFFICES ASSUME FeedInv, [FeedNext]_feedVars PROVE FeedInv'
  OBVIOUS
<1>1. ASSUME NEW i \in Item, Appear(i) \/ Edit(i) \/ Close(i) PROVE FeedInv'
  BY <1>1, AppearKeepsFeed, EditKeepsFeed, CloseKeepsFeed
<1>2. CASE BeginRound \/ Fetch(1) \/ Fetch(2) \/ FetchFails
  BY <1>2, BeginRoundKeepsFeed, FetchKeepsFeed, FetchFailsKeepsFeed
<1>3. CASE Persist \/ Advance \/ Record \/ Dies
  BY <1>3, PersistKeepsFeed, AdvanceKeepsFeed, RecordKeepsFeed, DiesKeepsFeed
<1>4. CASE UNCHANGED feedVars
  <2>1. /\ Owner' = Owner /\ Requests' = Requests /\ Marked' = Marked /\ Exact' = Exact
        /\ MayMiss' = MayMiss
    BY <1>4, KindStays DEF feedVars
  <2> QED BY <1>4, <2>1
          DEF feedVars, upstreamVars, FeedInv, FeedTypeOK, RoundIsNow, ReasonsAreGood,
              BehindIsKnown, RoundCovers, DueIsKnown, RowOrReason, Passes
<1> QED BY <1>1, <1>2, <1>3, <1>4 DEF FeedNext

\* For any items, page and clock, with upstream changing at any time, requests
\* failing and processes dying: nothing is missed but for the reasons named.
LEMMA FeedsAreRead == FeedSpec => [](FeedTypeOK /\ NothingIsMissed)
<1>1. FeedInv => NothingIsMissed
  BY DEF FeedInv, NothingIsMissed, DueIsKnown, ReasonsAreGood, RowOrReason, FeedTypeOK
<1> QED BY <1>1, FeedInitInv, FeedInvStep, PTL DEF FeedSpec, FeedInv

---------------------------------------------------------------------------
(* Notes and reviews *)

Reviewed(k) == k \in Runs /\ k <= run /\ reflecting[k] # "none"

\* A review is on its way, in the directory, in a reflector's hand or stored
\* only for a run whose reviewer was asked.
ReviewsAreOfRuns ==
    /\ \A k \in Runs : reflecting[k] # "none" => k <= run
    /\ \A k \in owed : Reviewed(k)
    /\ answer # 0 => Reviewed(answer)
    /\ reflection # 0 => Reviewed(reflection)
    /\ \A k \in Runs : read[k] # 0 => Reviewed(read[k])

Stuck(s) == {i \in DOMAIN s : s[i] = "stuck"}
OnceStuck(s) == \A i, j \in Stuck(s) : i = j

\* The watcher's row is of a run that was; and as long as no warning was put
\* back, there is one at most, and none if the reaper thinks so.
WarningsAreKept ==
    /\ watched <= run
    /\ ~putBack => /\ OnceStuck(reason) /\ OnceStuck(failing.had)
                   /\ reaped = "clean" => Stuck(reason) = {}

NotesInv == AnnotationTypeOK /\ FailedSaysWhy /\ ReviewsAreOfRuns /\ WarningsAreKept

\* A note more.
LEMMA NoteIsAppended ==
    ASSUME NEW s \in Seq(Notes), NEW n \in Notes
    PROVE  /\ Append(s, n) \in Seq(Notes) /\ Append(s, n) # <<>>
           /\ NotePart(Append(s, n)) = NotePart(s) \cup {n}
           /\ n # "stuck" => Stuck(Append(s, n)) = Stuck(s)
           /\ Stuck(s) = {} => OnceStuck(Append(s, n))
<1> DEFINE t == Append(s, n)
<1>1. /\ t \in Seq(Notes) /\ Len(t) = Len(s) + 1 /\ Len(s) \in Nat /\ t[Len(t)] = n
      /\ \A i \in 1..Len(s) : t[i] = s[i]
      /\ DOMAIN t = 1..Len(t) /\ DOMAIN s = 1..Len(s)
  OBVIOUS
<1> HIDE DEF t
<1>2. DOMAIN t = DOMAIN s \cup {Len(t)} /\ Len(t) \notin DOMAIN s
  BY <1>1
<1>3. t # <<>>
  BY <1>1
<1>4. NotePart(t) = NotePart(s) \cup {n}
  BY <1>1, <1>2 DEF NotePart, ToSet
<1>5. Stuck(t) = Stuck(s) \cup (IF n = "stuck" THEN {Len(t)} ELSE {})
  BY <1>1, <1>2 DEF Stuck
<1> QED BY <1>1, <1>3, <1>4, <1>5 DEF t, OnceStuck

LEMMA WarnTokenIsStuck ==
    ASSUME NEW r \in Seq(Notes) PROVE HasReaperWarnToken(r) <=> Stuck(r) # {}
BY DEF Stuck, HasReaperWarnToken, NotePart, ToSet

\* A reason of one note.
LEMMA OneNote ==
    ASSUME NEW n \in Notes \ {"stuck"}
    PROVE  <<n>> \in Seq(Notes) /\ <<n>> # <<>> /\ Stuck(<<n>>) = {} /\ OnceStuck(<<n>>)
BY DEF Stuck, OnceStuck

LEMMA NotesInitInv == AnnotationInit => NotesInv
<1> SUFFICES ASSUME AnnotationInit PROVE NotesInv
  OBVIOUS
<1> USE AnnotationAssumption DEF AnnotationInit, Unread
<1>1. <<>> \in Seq(Notes) /\ Stuck(<<>>) = {}
  BY DEF Stuck
<1>2. AnnotationTypeOK
  <2>1. /\ failing.on \in BOOLEAN /\ failing.had \in Seq(Notes)
        /\ triaged \in BOOLEAN /\ putBack \in BOOLEAN
    BY <1>1
  <2>2. watched \in 0..MaxRuns /\ reflection \in 0..MaxRuns /\ run \in 0..MaxRuns /\ answer \in 0..MaxRuns
    OBVIOUS
  <2>3. /\ reflecting \in [Runs -> {"none", "send", "wait", "store", "end"}]
        /\ read \in [Runs -> 0..MaxRuns] /\ owed \subseteq Runs
    BY <2>2
  <2> QED BY <1>1, <2>1, <2>2, <2>3 DEF AnnotationTypeOK
<1>3. ReviewsAreOfRuns
  BY DEF ReviewsAreOfRuns, Runs
<1> QED BY <1>1, <1>2, <1>3 DEF NotesInv, FailedSaysWhy, WarningsAreKept, OnceStuck

\* Writing the reason changes nothing about reviews, as long as runs only grow.
LEMMA ReviewsStay ==
    ASSUME NotesInv, UNCHANGED reflectVars, run' \in Nat, run' >= run
    PROVE  ReviewsAreOfRuns'
BY DEF NotesInv, AnnotationTypeOK, ReviewsAreOfRuns, Reviewed, reflectVars, Runs

\* A step that writes the reason, and no new run, keeps the warnings if the new
\* reason has those of the old one, or none.
LEMMA SameWarningsStay ==
    ASSUME NotesInv, UNCHANGED <<run, failing, reaped, watched, putBack>>,
           Stuck(reason') \in {Stuck(reason), {}}
    PROVE  WarningsAreKept'
BY DEF NotesInv, WarningsAreKept, OnceStuck

LEMMA ApplyTriageKeepsNotes == ASSUME NotesInv, ApplyTriage PROVE NotesInv'
<1> USE DEF NotesInv
<1>1. {"skip", "triage"} \subseteq Notes \ {"stuck"}
  BY DEF Notes
<1>2. /\ reason' \in Seq(Notes) /\ reason' # <<>> /\ Stuck(reason') \in {Stuck(reason), {}}
      /\ status' \in {"skipped", status} /\ triaged' = TRUE
      /\ UNCHANGED <<run, failing, reaped, watched, putBack, reflectVars>>
  BY <1>1, OneNote, NoteIsAppended DEF ApplyTriage, AnnotationTypeOK
<1>3. AnnotationTypeOK' /\ ReviewsAreOfRuns' /\ WarningsAreKept'
  BY <1>2, ReviewsStay, SameWarningsStay DEF AnnotationTypeOK, reflectVars
<1> QED BY <1>2, <1>3 DEF FailedSaysWhy

LEMMA DispatchedKeepsNotes == ASSUME NotesInv, Dispatched PROVE NotesInv'
<1> USE AnnotationAssumption DEF NotesInv, Dispatched
<1>1. AnnotationTypeOK' /\ run' \in Nat /\ run' >= run /\ watched' <= run'
  BY DEF AnnotationTypeOK, WarningsAreKept, reflectVars
<1>2. ReviewsAreOfRuns'
  BY <1>1, ReviewsStay
<1> QED BY <1>1, <1>2 DEF FailedSaysWhy, WarningsAreKept

LEMMA MarkFailedKeepsNotes == ASSUME NotesInv, BeginMarkFailed \/ EndMarkFailed PROVE NotesInv'
<1> USE DEF NotesInv
<1>0. "send" \in Notes /\ <<>> \in Seq(Notes) /\ Stuck(<<>>) = {} /\ OnceStuck(<<>>)
  BY DEF Notes, Stuck, OnceStuck
<1>1. CASE BeginMarkFailed
  <2>1. /\ failing'.on \in BOOLEAN /\ failing'.had \in {reason, <<>>}
        /\ UNCHANGED <<status, reason, run, reaped, watched, putBack, triaged, reflectVars>>
    BY <1>1 DEF BeginMarkFailed
  <2>2. failing'.had \in Seq(Notes)
    BY <1>0, <2>1 DEF AnnotationTypeOK
  <2>3. AnnotationTypeOK'
    BY <2>1, <2>2 DEF AnnotationTypeOK, reflectVars
  <2>4. ReviewsAreOfRuns'
    BY <2>1, ReviewsStay DEF AnnotationTypeOK
  <2> QED BY <1>0, <2>1, <2>3, <2>4 DEF FailedSaysWhy, WarningsAreKept
<1>2. CASE EndMarkFailed
  <2>1. /\ failing'.on \in BOOLEAN /\ failing'.had = <<>> /\ status' = "failed"
        /\ reason' = Append(failing.had, "send")
        /\ putBack' \in BOOLEAN
        /\ ~putBack' => ~putBack /\ (Stuck(failing.had) # {} => Stuck(reason) # {})
        /\ UNCHANGED <<run, reaped, watched, triaged, reflectVars>>
    BY <1>2, WarnTokenIsStuck DEF EndMarkFailed, Unread, AnnotationTypeOK
  <2>2. reason' \in Seq(Notes) /\ reason' # <<>> /\ Stuck(reason') = Stuck(failing.had)
    BY <1>0, <2>1, NoteIsAppended DEF AnnotationTypeOK
  <2>3. AnnotationTypeOK' /\ ReviewsAreOfRuns'
    BY <1>0, <2>1, <2>2, ReviewsStay DEF AnnotationTypeOK, reflectVars
  <2>4. OnceStuck(failing.had) => OnceStuck(reason')
    BY <2>2 DEF OnceStuck
  <2> QED BY <1>0, <2>1, <2>2, <2>3, <2>4 DEF FailedSaysWhy, WarningsAreKept
<1> QED BY <1>1, <1>2

LEMMA EscalationKeepsNotes ==
    ASSUME NotesInv, EscalateToHuman \/ ExpireWaitingHuman PROVE NotesInv'
<1> USE DEF NotesInv
<1>1. <<"ask">> \in Seq(Notes) /\ <<"ask">> # <<>> /\ Stuck(<<"ask">>) = {}
  BY OneNote DEF Notes
<1>2. /\ UNCHANGED <<run, failing, reaped, watched, putBack, triaged, reflectVars>>
      /\ status' \in {"waiting_human", "failed"}
      /\ reason' = <<"ask">> \/ (reason' = reason /\ status = "waiting_human")
  BY DEF EscalateToHuman, ExpireWaitingHuman
<1>3. AnnotationTypeOK'
  BY <1>1, <1>2 DEF AnnotationTypeOK, reflectVars
<1>4. ReviewsAreOfRuns' /\ WarningsAreKept'
  BY <1>1, <1>2, ReviewsStay, SameWarningsStay DEF AnnotationTypeOK
<1> QED BY <1>1, <1>2, <1>3, <1>4 DEF FailedSaysWhy

LEMMA ReaperKeepsNotes ==
    ASSUME NotesInv, ReaperLists \/ MarkStuck \/ MarkGone PROVE NotesInv'
<1> USE DEF NotesInv
<1>0. "stuck" \in Notes /\ "gone" \in Notes
  BY DEF Notes
<1>1. CASE ReaperLists
  <2>1. Stuck(reason) = {} <=> ~HasReaperWarnToken(reason)
    BY WarnTokenIsStuck DEF AnnotationTypeOK
  <2>2. AnnotationTypeOK' /\ ReviewsAreOfRuns'
    BY <1>1, ReviewsStay DEF ReaperLists, AnnotationTypeOK, reflectVars
  <2> QED BY <1>1, <2>1, <2>2 DEF ReaperLists, FailedSaysWhy, WarningsAreKept
<1>2. CASE MarkStuck
  <2>1. /\ reaped # "no" /\ reaped' = "no"
        /\ reason' = IF reaped = "warned" THEN reason ELSE Append(reason, "stuck")
        /\ UNCHANGED <<status, run, failing, watched, putBack, triaged, reflectVars>>
    BY <1>2 DEF MarkStuck
  <2>2. /\ reason' \in Seq(Notes) /\ (reason # <<>> => reason' # <<>>)
        /\ ~putBack => OnceStuck(reason')
    BY <1>0, <2>1, NoteIsAppended DEF AnnotationTypeOK, WarningsAreKept
  <2>3. AnnotationTypeOK' /\ ReviewsAreOfRuns'
    BY <2>1, <2>2, ReviewsStay DEF AnnotationTypeOK, reflectVars
  <2> QED BY <2>1, <2>2, <2>3 DEF FailedSaysWhy, WarningsAreKept
<1>3. CASE MarkGone
  <2>1. /\ reaped # "no" /\ reaped' = "no"
        /\ status' \in {status, "failed"}
        /\ \/ status' = "failed" /\ reason' = Append(reason, "gone")
           \/ UNCHANGED <<status, reason>>
        /\ UNCHANGED <<run, failing, watched, putBack, triaged, reflectVars>>
    BY <1>3 DEF MarkGone
  <2>2. /\ reason' \in Seq(Notes) /\ (reason' # <<>> \/ UNCHANGED <<status, reason>>)
        /\ Stuck(reason') = Stuck(reason)
    BY <1>0, <2>1, NoteIsAppended DEF AnnotationTypeOK
  <2>3. AnnotationTypeOK' /\ ReviewsAreOfRuns'
    BY <2>1, <2>2, ReviewsStay DEF AnnotationTypeOK, reflectVars
  <2> QED BY <2>1, <2>2, <2>3 DEF FailedSaysWhy, WarningsAreKept, OnceStuck
<1> QED BY <1>1, <1>2, <1>3

LEMMA RequeueKeepsNotes == ASSUME NotesInv, Requeue PROVE NotesInv'
<1> USE DEF NotesInv
<1>1. AnnotationTypeOK' /\ ReviewsAreOfRuns'
  BY ReviewsStay DEF Requeue, AnnotationTypeOK, reflectVars
<1> QED BY <1>1 DEF Requeue, FailedSaysWhy, WarningsAreKept

\* The watcher's steps that call no hook.
LEMMA WatcherKeepsNotes ==
    ASSUME NotesInv, WatcherLists \/ WatcherMarksFailed \/ WatcherLeaves PROVE NotesInv'
<1> USE AnnotationAssumption DEF NotesInv
<1>1. <<"exit">> \in Seq(Notes) /\ <<"exit">> # <<>> /\ Stuck(<<"exit">>) = {}
  BY OneNote DEF Notes
<1>2. /\ UNCHANGED <<run, failing, reaped, putBack, triaged, reflectVars>>
      /\ watched' \in {run, 0}
      /\ \/ reason' = <<"exit">> /\ status' = "failed"
         \/ UNCHANGED <<reason, status>>
  BY DEF WatcherLists, WatcherMarksFailed, WatcherLeaves
<1>3. reason' \in Seq(Notes) /\ watched' \in 0..MaxRuns
  <2>1. run \in 0..MaxRuns /\ 0 \in 0..MaxRuns /\ reason \in Seq(Notes)
    BY DEF AnnotationTypeOK
  <2> QED BY <1>1, <1>2, <2>1
<1>4. AnnotationTypeOK'
  BY <1>2, <1>3 DEF AnnotationTypeOK, reflectVars
<1>5. ReviewsAreOfRuns'
  BY <1>2, ReviewsStay DEF AnnotationTypeOK
<1>6. WarningsAreKept'
  BY <1>1, <1>2 DEF WarningsAreKept, OnceStuck, AnnotationTypeOK
<1> QED BY <1>1, <1>2, <1>4, <1>5, <1>6 DEF FailedSaysWhy

LEMMA DoneKeepsNotes == ASSUME NotesInv, RowIsDone PROVE NotesInv'
<1> USE AnnotationAssumption DEF NotesInv
<1>1. /\ status' = "done" /\ watched \in Runs /\ watched <= run /\ watched' = 0
      /\ UNCHANGED <<reason, run, failing, reaped, putBack, triaged,
                     reflection, answer, read, owed>>
      /\ reflecting' \in {reflecting, [reflecting EXCEPT ![watched] = "send"]}
  BY DEF RowIsDone, WarningsAreKept, AnnotationTypeOK, Runs
<1>2. /\ reflecting' \in [Runs -> {"none", "send", "wait", "store", "end"}]
      /\ \A k \in Runs :
             reflecting'[k] = reflecting[k] \/ (k = watched /\ reflecting'[k] = "send")
  BY <1>1 DEF AnnotationTypeOK
<1>3. AnnotationTypeOK'
  BY <1>1, <1>2 DEF AnnotationTypeOK
<1>4. ReviewsAreOfRuns'
  BY <1>1, <1>2 DEF ReviewsAreOfRuns, Reviewed, Runs, AnnotationTypeOK
<1>5. WarningsAreKept'
  BY <1>1 DEF WarningsAreKept, AnnotationTypeOK
<1> QED BY <1>1, <1>3, <1>4, <1>5 DEF FailedSaysWhy

\* A reflector's or a reviewer's step leaves the notes alone.
LEMMA ReviewKeepsNotes ==
    ASSUME NotesInv, NEW k \in Runs,
           \/ SendReflection(k) \/ ReviewArrives(k) \/ ReadReflection(k)
           \/ StoreReflection(k) \/ ReflectionEnds(k)
    PROVE  NotesInv'
<1> USE AnnotationAssumption DEF NotesInv
<1>1. UNCHANGED noteVars
  BY DEF SendReflection, ReviewArrives, ReadReflection, StoreReflection, ReflectionEnds
<1>2. /\ reflecting' \in [Runs -> {"none", "send", "wait", "store", "end"}]
      /\ \A j \in Runs : reflecting'[j] = "none" <=> reflecting[j] = "none"
      /\ reflecting[k] # "none" \/ k \in owed
  BY DEF SendReflection, ReviewArrives, ReadReflection, StoreReflection,
         ReflectionEnds, Reflects,
         AnnotationTypeOK
<1>3. /\ owed' \subseteq owed \cup {k} /\ (k \in owed' => k \in owed \/ reflecting[k] # "none")
      /\ answer' \in {answer, k} /\ (answer' = k => answer = k \/ k \in owed)
      /\ read' \in [Runs -> 0..MaxRuns]
      /\ \A j \in Runs : read'[j] \in {read[j], answer, 0}
      /\ reflection' \in {reflection, read[k]}
  <2>1. reflecting[k] \in {"none", "send", "wait", "store", "end"}
        /\ read \in [Runs -> 0..MaxRuns] /\ answer \in 0..MaxRuns
    BY DEF AnnotationTypeOK
  <2>2. CASE SendReflection(k)
    BY <2>1, <2>2 DEF SendReflection, Reflects
  <2>3. CASE ReviewArrives(k)
    BY <2>1, <2>3 DEF ReviewArrives
  <2>4. CASE ReadReflection(k)
    BY <2>1, <2>4 DEF ReadReflection, Reflects
  <2>5. CASE StoreReflection(k)
    BY <2>1, <2>5 DEF StoreReflection, Reflects
  <2>6. CASE ReflectionEnds(k)
    BY <2>1, <2>6 DEF ReflectionEnds
  <2> QED BY <2>2, <2>3, <2>4, <2>5, <2>6
<1>4. AnnotationTypeOK'
  BY <1>1, <1>2, <1>3 DEF AnnotationTypeOK, noteVars, Runs
<1>5. \A j : Reviewed(j) => Reviewed(j)'
  BY <1>1, <1>2 DEF Reviewed, noteVars
<1>6. Reviewed(k)
  BY <1>2 DEF ReviewsAreOfRuns, Reviewed
<1>7. ReviewsAreOfRuns'
  BY <1>1, <1>2, <1>3, <1>5, <1>6 DEF ReviewsAreOfRuns, noteVars
<1> QED BY <1>1, <1>4, <1>7 DEF noteVars, FailedSaysWhy, WarningsAreKept

LEMMA NotesInvStep == NotesInv /\ [AnnotationNext]_annotationVars => NotesInv'
<1> SUFFICES ASSUME NotesInv, [AnnotationNext]_annotationVars PROVE NotesInv'
  OBVIOUS
<1>1. CASE UNCHANGED annotationVars
  BY <1>1
     DEF annotationVars, noteVars, reflectVars, NotesInv, AnnotationTypeOK,
         FailedSaysWhy,
              ReviewsAreOfRuns, Reviewed, WarningsAreKept
<1> QED BY <1>1, ApplyTriageKeepsNotes, DispatchedKeepsNotes, MarkFailedKeepsNotes,
           EscalationKeepsNotes, ReaperKeepsNotes, RequeueKeepsNotes, WatcherKeepsNotes,
           DoneKeepsNotes, ReviewKeepsNotes
        DEF AnnotationNext, ReasonStep

\* A note that is gone was replaced outright, or markFailed had not read it.
LEMMA NoteStays ==
    ASSUME NotesInv, [AnnotationNext]_annotationVars,
           NEW n \in NotePart(reason), n \notin NotePart(reason')
    PROVE  \/ reason' \in {<<"ask">>, <<"skip">>}
           \/ reason' = <<"exit">> /\ watched # 0
           \/ failing.on /\ n \notin NotePart(failing.had)
<1>1. \A x \in Notes : NotePart(Append(reason, x)) = NotePart(reason) \cup {x}
  BY NoteIsAppended DEF NotesInv, AnnotationTypeOK
<1>2. NotePart(Append(failing.had, "send")) = NotePart(failing.had) \cup {"send"}
  BY NoteIsAppended DEF NotesInv, AnnotationTypeOK, Notes
<1>3. {"triage", "stuck", "gone"} \subseteq Notes
  BY DEF Notes
<1>4. reason' # reason
  BY DEF NotePart
<1>5. CASE ApplyTriage \/ EscalateToHuman
  BY <1>1, <1>3, <1>5 DEF ApplyTriage, EscalateToHuman
<1>6. CASE EndMarkFailed
  BY <1>2, <1>6 DEF EndMarkFailed
<1>7. CASE MarkStuck \/ MarkGone
  BY <1>1, <1>3, <1>7 DEF MarkStuck, MarkGone
<1>8. CASE WatcherMarksFailed
  BY <1>8 DEF WatcherMarksFailed
<1> QED BY <1>4, <1>5, <1>6, <1>7, <1>8
        DEF AnnotationNext, ReasonStep, annotationVars, noteVars, Dispatched, BeginMarkFailed,
            ExpireWaitingHuman, ReaperLists, Requeue, WatcherLists, WatcherLeaves, RowIsDone,
            SendReflection, ReviewArrives, ReadReflection, StoreReflection, ReflectionEnds

\* The notes of a row are true, with any number of runs and notes.
LEMMA NotesAreSafe == AnnotationSpec => NotesAreTrue
<1>1. NotesInv => AnnotationTypeOK /\ FailedSaysWhy /\ WarnsOnce /\ ReviewIsExplained
  <2> SUFFICES ASSUME NotesInv PROVE WarnsOnce /\ ReviewIsExplained
    BY DEF NotesInv
  <2>1. ReviewIsExplained
    BY DEF NotesInv, ReviewIsExplained, ReviewsAreOfRuns, Reviewed
  <2>2. ASSUME ~putBack PROVE Cardinality(Stuck(reason)) <= 1
    <3>1. OnceStuck(reason)
      BY <2>2 DEF NotesInv, WarningsAreKept
    <3>2. CASE Stuck(reason) = {}
      <4>1. Cardinality(Stuck(reason)) = 0
        BY <3>2, FS_EmptySet
      <4> QED BY <4>1
    <3>3. CASE Stuck(reason) # {}
      <4>1. PICK i : Stuck(reason) = {i}
        BY <3>1, <3>3 DEF OnceStuck
      <4>2. Cardinality(Stuck(reason)) = 1
        BY <4>1, FS_Singleton
      <4> QED BY <4>2
    <3> QED BY <3>2, <3>3
  <2> QED BY <2>1, <2>2 DEF WarnsOnce, Stuck
<1>2. NotesInv /\ [AnnotationNext]_annotationVars =>
          [\A n \in NotePart(reason) : n \notin NotePart(reason') =>
              \/ reason' \in {<<"ask">>, <<"skip">>}
              \/ reason' = <<"exit">> /\ watched # 0
              \/ failing.on /\ n \notin NotePart(failing.had)]_annotationVars
  BY NoteStays
<1> QED BY <1>1, <1>2, NotesInitInv, NotesInvStep, PTL
           DEF AnnotationSpec, NotesAreTrue, NotesAreKept

---------------------------------------------------------------------------
(* Scoring *)

Pass == [step : {"idle", "score"}, found : [Ready -> Judgments \cup {Nobody}], pending : Seq(Ready),
         calls : Nat, ready : SUBSET Ready]

Usable == {j \in Judgments : j.kind # "not finite"}
Own(c) == [kind : {"score", "defer"}, about : {<<c, says[c]>>}]

\* Everything remembered, found or planned is about the key or the candidate it
\* is kept for.
ScoringInv ==
    /\ ScoringTypeOK /\ pass \in Pass
    /\ \A k \in Keys : memo[k] = Nobody \/ (memo[k] \in Usable /\ memo[k].about = k)
    /\ \A c \in Ready : pass.found[c] \in {Nobody} \cup Own(c)
    /\ \A c \in Ready : planned[c] \in {Nobody, Rules} \cup Own(c)
    /\ pass.step = "idle" => \A c \in Ready : pass.found[c] = Nobody

LEMMA OwnIsUsable ==
    ASSUME ScoringTypeOK, NEW c \in Ready
    PROVE  Own(c) \subseteq Usable /\ Nobody \notin Judgments /\ Rules \notin Judgments
<1>1. <<c, says[c]>> \in About
  BY DEF ScoringTypeOK, About
<1>2. Own(c) \subseteq Usable
  <2> SUFFICES ASSUME NEW j \in Own(c) PROVE j \in Usable
    OBVIOUS
  <2>1. j.kind \in {"score", "defer"} /\ j \in [kind : JudgmentKinds, about : About]
    BY <1>1 DEF Own, JudgmentKinds
  <2> QED BY <2>1 DEF Usable, Judgments
<1>3. \A j \in Judgments : j.kind \in {"score", "defer", "not finite"}
  BY DEF Judgments, JudgmentKinds
<1>4. Nobody.kind = "nobody" /\ Rules.kind = "rules"
  BY DEF Nobody, Rules
<1> QED BY <1>2, <1>3, <1>4

LEMMA NoPassIsPass ==
    NoPass \in Pass /\ NoPass.step = "idle" /\ \A c \in Ready : NoPass.found[c] = Nobody
BY DEF NoPass, Pass

LEMMA ScoringInitInv == ScoringInit => ScoringInv
<1> SUFFICES ASSUME ScoringInit PROVE ScoringInv
  OBVIOUS
<1>1. /\ says \in [Ready -> Body] /\ memo = [k \in Keys |-> Nobody] /\ pass = NoPass
      /\ options \in [batchSize : Nat, maxCalls : Nat, cache : BOOLEAN]
      /\ planned = [c \in Ready |-> Nobody]
  BY DEF ScoringInit
<1>2. ScoringTypeOK
  BY <1>1, NoPassIsPass DEF ScoringTypeOK, Pass
<1> QED BY <1>1, <1>2, NoPassIsPass DEF ScoringInv

\* An ordering of candidates is a sequence of them.
LEMMA OrderIsSequence ==
    ASSUME NEW S \in SUBSET Ready, NEW order \in SetToSeqs(S)
    PROVE  order \in Seq(Ready)
<1>1. IsFiniteSet(S) /\ Cardinality(S) \in Nat
  BY ScoringAssumption, FS_Subset, FS_CardinalityType
<1> QED BY <1>1 DEF SetToSeqs

LEMMA BeginKeepsScoring ==
    ASSUME ScoringInv, NEW ready \in SUBSET Ready, BeginScoring(ready)
    PROVE  ScoringInv'
<1> DEFINE unknown == {c \in ready : Hit(c) = Nobody}
<1> DEFINE heard == [c \in Ready |-> IF c \in ready THEN Hit(c) ELSE Nobody]
<1>1. PICK order \in SetToSeqs(unknown) :
          pass' = [NoPass EXCEPT !.step = "score", !.ready = ready, !.pending = order,
                                 !.found = heard]
  BY DEF BeginScoring
<1>2. UNCHANGED <<says, memo, options, planned>>
  BY DEF BeginScoring
<1>3. order \in Seq(Ready)
  BY OrderIsSequence
<1>4. \A c \in Ready : Hit(c) \in {Nobody} \cup Own(c)
  <2> SUFFICES ASSUME NEW c \in Ready PROVE Hit(c) \in {Nobody} \cup Own(c)
    OBVIOUS
  <2>1. <<c, says[c]>> \in Keys
    BY DEF ScoringInv, ScoringTypeOK, Keys
  <2>2. memo[<<c, says[c]>>] = Nobody \/ (memo[<<c, says[c]>>] \in Usable
                                          /\ memo[<<c, says[c]>>].about = <<c, says[c]>>)
    BY <2>1 DEF ScoringInv
  <2>3. \A j \in Usable : j.about = <<c, says[c]>> => j \in Own(c)
    BY DEF Usable, Own, Judgments, JudgmentKinds
  <2> QED BY <2>2, <2>3 DEF Hit, scoreCacheKey
<1>5. \A c \in Ready : heard[c] \in {Nobody} \cup Own(c)
  BY <1>4
<1>6. heard \in [Ready -> Judgments \cup {Nobody}]
  BY <1>5, OwnIsUsable DEF ScoringInv, Usable
<1> HIDE DEF heard
<1>7. pass' \in Pass /\ pass'.step = "score" /\ pass'.found = heard
  BY <1>1, <1>3, <1>6 DEF NoPass, Pass
<1>8. ScoringTypeOK'
  BY <1>2, <1>7 DEF ScoringInv, ScoringTypeOK, Pass
<1> QED BY <1>2, <1>5, <1>7, <1>8 DEF ScoringInv, Own

\* The next batch is a part of what is pending.
LEMMA BatchIsPart ==
    ASSUME ScoringInv, pass.pending # <<>>
    PROVE  /\ BatchLength \in 1..Len(pass.pending) /\ Batch \in Seq(Ready)
           /\ Len(Batch) = BatchLength
           /\ SubSeq(pass.pending, BatchLength + 1, Len(pass.pending)) \in Seq(Ready)
<1>1. pass.pending \in Seq(Ready) /\ Len(pass.pending) \in Nat \ {0} /\ options.batchSize \in Nat
  BY DEF ScoringInv, ScoringTypeOK
<1>2. BatchLength \in 1..Len(pass.pending)
  BY <1>1 DEF BatchLength
<1>3. \A i \in 1..Len(pass.pending) : pass.pending[i] \in Ready
  BY <1>1
<1>4. Batch \in Seq(Ready) /\ Len(Batch) = BatchLength
  BY <1>1, <1>2, <1>3, SubSeqProperties DEF Batch
<1>5. SubSeq(pass.pending, BatchLength + 1, Len(pass.pending)) \in Seq(Ready)
  BY <1>1, <1>2, <1>3, SubSeqProperties
<1> QED BY <1>2, <1>4, <1>5

\* What is made of an answer judges candidates of the batch, each by itself.
LEMMA JudgedIsOwn ==
    ASSUME ScoringInv, NEW batch \in Seq(Ready), NEW raw \in ClaudeAnswers(batch)
    PROVE  /\ DOMAIN Judged(batch, raw) \subseteq Ready
           /\ \A c \in DOMAIN Judged(batch, raw) : Judged(batch, raw)[c] \in Own(c)
<1> DEFINE n == Len(batch)
<1> DEFINE about(k) == IF k < n THEN <<batch[k + 1], says[batch[k + 1]]>>
                       ELSE <<batch[1], says[batch[1]]>>
<1> DEFINE one == {[index |-> k, kind |-> verdict, about |-> about(k)] :
                      k \in 0..n, verdict \in JudgmentKinds}
<1>1. n \in Nat /\ \A k \in 0..(n - 1) : batch[k + 1] \in Ready
  OBVIOUS
<1>2. PICK m \in 0..n : raw \in [1..m -> one]
  <2>1. ClaudeAnswers(batch) = UNION {[1..m -> one] : m \in 0..n}
    BY DEF ClaudeAnswers
  <2> HIDE DEF one
  <2> QED BY <2>1
<1>3. \A i \in DOMAIN raw : raw[i].index \in 0..n /\ raw[i].kind \in JudgmentKinds
                            /\ raw[i].about = about(raw[i].index)
  <2>1. ASSUME NEW i \in DOMAIN raw
        PROVE  raw[i].index \in 0..n /\ raw[i].kind \in JudgmentKinds
               /\ raw[i].about = about(raw[i].index)
    <3>1. raw[i] \in one
      BY <1>2
    <3> HIDE DEF about
    <3>2. PICK k \in 0..n, verdict \in JudgmentKinds :
              raw[i] = [index |-> k, kind |-> verdict, about |-> about(k)]
      BY <3>1
    <3> QED BY <3>2
  <2> HIDE DEF about
  <2> QED BY <2>1
<1>4. CASE ~WellFormed(raw, n)
  BY <1>4 DEF Judged
<1>5. CASE WellFormed(raw, n)
  <2> DEFINE indexOf == [c \in {batch[k] : k \in DOMAIN batch} |->
                       CHOOSE i \in DOMAIN raw : batch[raw[i].index + 1] = c]
  <2> DEFINE usable == {c \in DOMAIN indexOf : validScore(raw[indexOf[c]].kind)}
  <2>1. Judged(batch, raw) =
            [c \in usable |-> [kind |-> raw[indexOf[c]].kind, about |-> raw[indexOf[c]].about]]
    BY <1>5 DEF Judged
  <2>2. ASSUME NEW c \in DOMAIN indexOf
        PROVE  c \in Ready /\ indexOf[c] \in DOMAIN raw /\ batch[raw[indexOf[c]].index + 1] = c
    <3>1. PICK k \in 0..(n - 1) : batch[k + 1] = c
      <4>1. PICK p \in DOMAIN batch : batch[p] = c
        OBVIOUS
      <4>2. p \in 1..n /\ p - 1 \in 0..(n - 1) /\ (p - 1) + 1 = p
        BY <4>1
      <4> QED BY <4>1, <4>2
    <3>2. \E i \in DOMAIN raw : batch[raw[i].index + 1] = c
      BY <1>5, <3>1 DEF WellFormed
    <3>3. indexOf[c] = CHOOSE i \in DOMAIN raw : batch[raw[i].index + 1] = c
      OBVIOUS
    <3> QED BY <1>1, <3>1, <3>2, <3>3
  <2> HIDE DEF indexOf
  <2>3. ASSUME NEW c \in usable
        PROVE  /\ c \in Ready
               /\ [kind |-> raw[indexOf[c]].kind, about |-> raw[indexOf[c]].about] \in Own(c)
    <3>1. raw[indexOf[c]].index < n
      BY <1>5, <2>2 DEF WellFormed
    <3>2. raw[indexOf[c]].about = <<c, says[c]>>
      BY <1>3, <2>2, <3>1
    <3>3. raw[indexOf[c]].kind \in {"score", "defer"}
      BY <1>3, <2>2 DEF validScore, JudgmentKinds
    <3> QED BY <2>2, <3>2, <3>3 DEF Own
  <2> HIDE DEF usable
  <2> QED BY <2>1, <2>3
<1> QED BY <1>4, <1>5

\* A call keeps what was known and adds what it can use.
LEMMA ScoreKeepsScoring ==
    ASSUME ScoringInv, pass.pending # <<>>, NEW raw \in ClaudeAnswers(Batch), Score(raw)
    PROVE  ScoringInv' /\ pass'.step = pass.step
<1> DEFINE judged == Judged(Batch, raw)
<1> DEFINE rest == SubSeq(pass.pending, BatchLength + 1, Len(pass.pending))
<1> DEFINE keyed == [k \in Keys |-> {c \in DOMAIN judged : scoreCacheKey(c) = k}]
<1> DEFINE heard == [c \in Ready |-> IF c \in DOMAIN judged THEN judged[c] ELSE pass.found[c]]
<1>1. /\ pass' = [pass EXCEPT !.calls = @ + 1, !.pending = rest, !.found = heard]
      /\ memo' = IF options.cache
                 THEN [k \in Keys |-> IF keyed[k] = {} THEN memo[k]
                                      ELSE judged[CHOOSE c \in keyed[k] : TRUE]]
                 ELSE memo
      /\ pass.step = "score" /\ UNCHANGED <<says, options, planned>>
  BY DEF Score
<1>2. DOMAIN judged \subseteq Ready /\ \A c \in DOMAIN judged : judged[c] \in Own(c)
  BY BatchIsPart, JudgedIsOwn
<1> HIDE DEF judged
<1>4. \A c \in Ready : heard[c] \in {Nobody} \cup Own(c)
  BY <1>2 DEF ScoringInv
<1>5. heard \in [Ready -> Judgments \cup {Nobody}]
  BY <1>4, OwnIsUsable DEF ScoringInv, Usable
<1>6. rest \in Seq(Ready)
  BY BatchIsPart
<1> HIDE DEF rest, heard, keyed
<1>7. pass' \in Pass /\ pass'.step = "score" /\ pass'.found = heard
  <2>1. /\ pass.step = "score" /\ pass.calls + 1 \in Nat /\ pass.ready \in SUBSET Ready
        /\ pass \in Pass
    BY <1>1 DEF ScoringInv, ScoringTypeOK
  <2> QED BY <1>1, <1>5, <1>6, <2>1 DEF Pass
<1>8. ASSUME NEW k \in Keys
      PROVE  memo'[k] = memo[k] \/ (memo'[k] \in Usable /\ memo'[k].about = k)
  <2>1. CASE ~options.cache \/ keyed[k] = {}
    BY <1>1, <2>1
  <2>2. CASE options.cache /\ keyed[k] # {}
    <3> DEFINE c == CHOOSE c \in keyed[k] : TRUE
    <3>1. c \in DOMAIN judged /\ scoreCacheKey(c) = k
      BY <2>2 DEF keyed
    <3>2. memo'[k] = judged[c]
      BY <1>1, <2>2
    <3> HIDE DEF c
    <3>3. judged[c] \in Own(c) /\ c \in Ready
      BY <1>2, <3>1
    <3>4. judged[c] \in Usable
      BY <3>3, OwnIsUsable DEF ScoringInv
    <3>5. judged[c].about = k
      BY <3>1, <3>3 DEF Own, scoreCacheKey
    <3> QED BY <3>2, <3>4, <3>5
  <2> QED BY <2>1, <2>2
<1>9. \A k \in Keys : memo'[k] = Nobody \/ (memo'[k] \in Usable /\ memo'[k].about = k)
  BY <1>8 DEF ScoringInv
<1>10. memo' \in [Keys -> Judgments \cup {Nobody}]
  <2>1. DOMAIN memo' = Keys /\ memo' = [k \in Keys |-> memo'[k]]
    <3>1. memo = [k \in Keys |-> memo[k]]
      BY DEF ScoringInv, ScoringTypeOK
    <3>2. CASE options.cache
      <4> DEFINE m == [k \in Keys |-> IF keyed[k] = {} THEN memo[k]
                                      ELSE judged[CHOOSE c \in keyed[k] : TRUE]]
      <4>1. memo' = m
        BY <1>1, <3>2
      <4> QED BY <4>1
    <3> QED BY <1>1, <3>1, <3>2
  <2> QED BY <1>9, <2>1 DEF Usable
<1>11. ScoringTypeOK'
  BY <1>1, <1>7, <1>10 DEF ScoringInv, ScoringTypeOK, Pass
<1>12. \A c \in Ready : Own(c)' = Own(c)
  BY <1>1 DEF Own
<1> QED BY <1>1, <1>4, <1>7, <1>9, <1>11, <1>12 DEF ScoringInv

\* The end of the pass plans what is known, and the rule score for the others.
LEMMA EndKeepsScoring ==
    ASSUME ScoringInv, scoreReady
    PROVE  /\ ScoringInv'
           /\ \A c \in pass.ready : planned'[c] \in {Rules} \cup Usable
<1>1. /\ pass' = NoPass /\ UNCHANGED <<says, memo, options>>
      /\ planned' = [c \in Ready |-> IF c \notin pass.ready THEN planned[c]
                                     ELSE IF pass.found[c] = Nobody THEN Rules
                                     ELSE pass.found[c]]
  BY DEF scoreReady
<1>2. \A c \in Ready : planned'[c] \in {Nobody, Rules} \cup Own(c)
  BY <1>1 DEF ScoringInv
<1>3. planned' \in [Ready -> Judgments \cup {Nobody, Rules}]
  BY <1>1 DEF ScoringInv, ScoringTypeOK
<1>4. ScoringTypeOK'
  BY <1>1, <1>3, NoPassIsPass DEF ScoringInv, ScoringTypeOK, Pass
<1>5. \A c \in Ready : Own(c)' = Own(c)
  BY <1>1 DEF Own
<1>6. ScoringInv'
  BY <1>1, <1>2, <1>4, <1>5, NoPassIsPass DEF ScoringInv
<1>7. ASSUME NEW c \in pass.ready PROVE planned'[c] \in {Rules} \cup Usable
  <2>1. c \in Ready
    BY DEF ScoringInv, ScoringTypeOK
  <2>2. pass.found[c] = Nobody \/ pass.found[c] \in Usable
    BY <2>1, OwnIsUsable DEF ScoringInv
  <2> QED BY <1>1, <2>1, <2>2
<1> QED BY <1>6, <1>7

\* Other content forgets how the candidate was planned.
LEMMA ChangeKeepsScoring ==
    ASSUME ScoringInv, NEW d \in Ready, NEW b \in Body, ContentChanges(d, b)
    PROVE  ScoringInv'
<1>1. /\ pass.step = "idle" /\ says' = [says EXCEPT ![d] = b]
      /\ planned' = [planned EXCEPT ![d] = Nobody] /\ UNCHANGED <<memo, options, pass>>
  BY DEF ContentChanges
<1>2. says' \in [Ready -> Body] /\ planned' \in [Ready -> Judgments \cup {Nobody, Rules}]
  BY <1>1 DEF ScoringInv, ScoringTypeOK
<1>3. ScoringTypeOK'
  BY <1>1, <1>2 DEF ScoringInv, ScoringTypeOK
<1>4. \A c \in Ready : pass'.found[c] = Nobody
  BY <1>1 DEF ScoringInv
<1>5. ASSUME NEW c \in Ready PROVE planned'[c] \in {Nobody, Rules} \cup Own(c)'
  <2>1. CASE c = d
    BY <1>1, <2>1 DEF ScoringInv, ScoringTypeOK
  <2>2. CASE c # d
    <3>1. planned'[c] = planned[c] /\ says'[c] = says[c]
      BY <1>1, <2>2 DEF ScoringInv, ScoringTypeOK
    <3>2. Own(c)' = Own(c)
      BY <3>1 DEF Own
    <3> QED BY <3>1, <3>2 DEF ScoringInv
  <2> QED BY <2>1, <2>2
<1> QED BY <1>1, <1>3, <1>4, <1>5 DEF ScoringInv

LEMMA ScoringIsSafe == ScoringSpec => EveryoneIsJudged
<1> DEFINE Planned ==
        pass.step = "score" /\ pass'.step = "idle" =>
            \A c \in pass.ready :
                planned'[c] \in {Rules} \cup {j \in Judgments : j.kind # "not finite"}
<1>1. ScoringInv /\ [ScoringNext]_scoringVars => ScoringInv' /\ Planned
  <2> SUFFICES ASSUME ScoringInv, [ScoringNext]_scoringVars PROVE ScoringInv' /\ Planned
    OBVIOUS
  <2>1. CASE UNCHANGED scoringVars
    <3>1. UNCHANGED <<says, memo, options, pass, planned>>
      BY <2>1 DEF scoringVars
    <3>2. ScoringInv'
      BY <3>1 DEF ScoringInv, ScoringTypeOK, Own, Pass, Usable
    <3> QED BY <3>1, <3>2
  <2>2. ASSUME NEW ready \in SUBSET Ready, BeginScoring(ready) PROVE ScoringInv' /\ Planned
    <3>1. pass.step = "idle"
      BY <2>2 DEF BeginScoring
    <3> QED BY <2>2, <3>1, BeginKeepsScoring
  <2>3. ASSUME pass.pending # <<>>, NEW raw \in ClaudeAnswers(Batch), Score(raw)
        PROVE  ScoringInv' /\ Planned
    BY <2>3, ScoreKeepsScoring
  <2>4. CASE scoreReady
    BY <2>4, EndKeepsScoring DEF Usable
  <2>5. ASSUME NEW c \in Ready, NEW b \in Body, ContentChanges(c, b)
        PROVE  ScoringInv' /\ Planned
    <3>1. pass.step = "idle"
      BY <2>5 DEF ContentChanges
    <3> QED BY <2>5, <3>1, ChangeKeepsScoring
  <2> QED BY <2>1, <2>2, <2>3, <2>4, <2>5 DEF ScoringNext
<1>2. ScoringInv => ScoringTypeOK /\ JudgmentIsItsOwn
  <2> SUFFICES ASSUME ScoringInv PROVE JudgmentIsItsOwn
    BY DEF ScoringInv
  <2> QED BY OwnIsUsable DEF ScoringInv, JudgmentIsItsOwn, Own
<1>3. [Planned]_scoringVars <=> [Planned]_scoringVars
  OBVIOUS
<1> QED BY <1>1, <1>2, ScoringInitInv, PTL
           DEF ScoringSpec, EveryoneIsJudged, EveryoneIsPlanned

---------------------------------------------------------------------------
(* Skills *)

SwapSteps == {"rename", "load", "save"}
InstallSteps == {"remove", "audit"} \cup SwapSteps

\* A job is at a step of its command, with what that step needs.
JobIsRight(j) ==
    /\ j.step \in {"remove"} \cup SwapSteps => j.mode = "registry" /\ j.version \in Version
    /\ j.mode = "registry" => j.step \in InstallSteps
    /\ j.step \in {"ask", "write"} \cup InstallSteps => j.skill \in Skill
    /\ j.step = "write" => j.mode = "force" \/ j.yes \/ j.saw = Gone

\* What is settled about s: its entry is its tree unless its tree is being
\* swapped, nobody else swaps it, and nobody at the state file has an older entry.
EntryIsRight(s) ==
    /\ \A i \in Installer : install[i].step \in {"load", "save"} /\ install[i].skill = s
                                => tree[s] = install[i].version
    /\ \A i \in Installer : install[i].step = "save" /\ install[i].skill # s
                                => install[i].loaded[s] = state[s]
    /\ \A i, o \in Installer :
          install[i].mode = "registry" /\ install[i].skill = s
                  /\ install[o].mode = "registry" /\ install[o].skill = s => i = o
    /\ \A i, o \in Installer :
          install[i].step = "save" /\ install[i].skill = s /\ install[o].step = "save" => i = o
    /\ \/ \E i \in Installer : install[i].step \in SwapSteps /\ install[i].skill = s
       \/ state[s] \in {Gone, tree[s]}

\* A setup that nobody disturbed has seen the sections it has checked.
ChecksHold ==
    /\ SuccessMeansValid
    /\ \A i \in Installer \ disturbed : install[i].step = "check" =>
           \A s \in Checked \ install[i].todo : Valid(tree[s])

SkillInv ==
    /\ SkillTypeOK
    /\ \A i \in Installer : JobIsRight(install[i])
    /\ \A s \in Skill \ unsettled : EntryIsRight(s)
    /\ ChecksHold

\* The job of i becomes q, and no other.
InstallBecomes(i, q) == install'[i] = q /\ \A o \in Installer : o # i => install'[o] = install[o]

LEMMA InstallMoves ==
    ASSUME SkillTypeOK, NEW i \in Installer, NEW q \in Job, install' = [install EXCEPT ![i] = q]
    PROVE  install' \in [Installer -> Job] /\ InstallBecomes(i, q)
BY DEF SkillTypeOK, InstallBecomes

LEMMA NoJobIsRight ==
    NoJob \in Job /\ JobIsRight(NoJob) /\ NoJob.step = "idle" /\ NoJob.mode = "plain"
BY DEF NoJob, Job, JobIsRight, SwapSteps, InstallSteps, Contents, NoState

LEMMA SkillInitInv == SkillInit => SkillInv
<1> SUFFICES ASSUME SkillInit PROVE SkillInv
  OBVIOUS
<1> USE DEF SkillInit
<1>1. \A i \in Installer : install[i] = NoJob
  OBVIOUS
<1>2. SkillTypeOK
  <2>1. install \in [Installer -> Job]
    BY NoJobIsRight
  <2>2. tree \in [Skill -> Contents] /\ state \in [Skill -> Version \cup {Gone}]
    BY DEF Contents, NoState
  <2> QED BY <2>1, <2>2 DEF SkillTypeOK
<1>3. \A s \in Skill : EntryIsRight(s)
  <2>1. \A i \in Installer : install[i].step = "idle" /\ install[i].mode = "plain"
    BY <1>1, NoJobIsRight
  <2>2. \A s \in Skill : state[s] = Gone
    BY DEF NoState
  <2> SUFFICES ASSUME NEW s \in Skill PROVE EntryIsRight(s)
    OBVIOUS
  <2>3. \A i \in Installer : install[i].step \notin {"load", "save"}
    BY <2>1
  <2>4. \A i \in Installer : install[i].mode # "registry"
    BY <2>1
  <2> QED BY <2>2, <2>3, <2>4 DEF EntryIsRight
<1>4. ChecksHold
  BY <1>1, NoJobIsRight DEF ChecksHold, SuccessMeansValid
<1> QED BY <1>1, <1>2, <1>3, <1>4, NoJobIsRight DEF SkillInv

\* A step that swaps nothing: it begins no install, and one it ends in the
\* middle is not settled.
LEMMA QuietStepKeepsEntries ==
    ASSUME SkillInv, NEW i \in Installer, NEW q \in Job, InstallBecomes(i, q),
           UNCHANGED <<tree, state>>,
           unsettled \subseteq unsettled',
           q.step \notin SwapSteps,
           q.mode = "registry" => install[i].mode = "registry" /\ q.skill = install[i].skill,
           install[i].step \in SwapSteps => install[i].skill \in unsettled'
    PROVE  \A s \in Skill \ unsettled' : EntryIsRight(s)'
<1> SUFFICES ASSUME NEW s \in Skill \ unsettled' PROVE EntryIsRight(s)'
  OBVIOUS
<1>1. EntryIsRight(s)
  BY DEF SkillInv
<1>2. \A o \in Installer : install'[o].step \in SwapSteps =>
          o # i /\ install'[o] = install[o]
  BY DEF InstallBecomes
<1>3. \A o \in Installer : install'[o].mode = "registry" /\ install'[o].skill = s =>
          install[o].mode = "registry" /\ install[o].skill = s
  BY DEF InstallBecomes
<1>4. \A o \in Installer : install[o].step \in SwapSteps /\ install[o].skill = s =>
          install'[o] = install[o]
  BY DEF InstallBecomes
<1> QED BY <1>1, <1>2, <1>3, <1>4 DEF EntryIsRight, SwapSteps

\* What a setup has checked stays checked when no tree changes.
LEMMA QuietStepKeepsChecks ==
    ASSUME SkillInv, NEW i \in Installer, NEW q \in Job, InstallBecomes(i, q), SameTrees,
           q.step = "check" => \/ q.todo = Checked
                               \/ /\ install[i].step = "check" /\ install[i].mode # "registry"
                                  /\ \A s \in install[i].todo \ q.todo : Valid(tree[s]),
           q.step = "check" => q.mode # "registry"
    PROVE  ChecksHold'
<1>1. SuccessMeansValid'
  BY DEF SkillInv, ChecksHold, SuccessMeansValid, SameTrees
<1>2. ASSUME NEW o \in Installer \ disturbed', install'[o].step = "check",
             NEW s \in Checked \ install'[o].todo
      PROVE  Valid(tree'[s])
  <2>1. tree' = tree /\ disturbed' = disturbed \cap InSetup'
    BY DEF SameTrees
  <2>2. install'[o].mode # "registry"
    <3>1. CASE o = i
      BY <1>2, <3>1 DEF InstallBecomes
    <3>2. CASE o # i
      BY <1>2, <3>2 DEF InstallBecomes, SkillInv, JobIsRight, InstallSteps, SwapSteps
    <3> QED BY <3>1, <3>2
  <2>3. o \in InSetup'
    BY <1>2, <2>2 DEF InSetup
  <2>4. o \notin disturbed
    BY <1>2, <2>1, <2>3
  <2>5. CASE o = i
    BY <1>2, <2>1, <2>4, <2>5 DEF InstallBecomes, SkillInv, ChecksHold
  <2>6. CASE o # i
    BY <1>2, <2>1, <2>4, <2>6 DEF InstallBecomes, SkillInv, ChecksHold
  <2> QED BY <2>5, <2>6
<1> QED BY <1>1, <1>2 DEF ChecksHold

\* Both, for a step that writes no tree.
LEMMA QuietStepKeepsSkills ==
    ASSUME SkillInv, NEW i \in Installer, NEW q \in Job, install' = [install EXCEPT ![i] = q],
           JobIsRight(q), state' = state, SameTrees,
           unsettled \subseteq unsettled', unsettled' \subseteq Skill,
           q.step \notin SwapSteps,
           q.mode = "registry" => install[i].mode = "registry" /\ q.skill = install[i].skill,
           install[i].step \in SwapSteps => install[i].skill \in unsettled',
           q.step = "check" => \/ q.todo = Checked
                               \/ /\ install[i].step = "check" /\ install[i].mode # "registry"
                                  /\ \A s \in install[i].todo \ q.todo : Valid(tree[s])
    PROVE  SkillInv'
<1>1. install' \in [Installer -> Job] /\ InstallBecomes(i, q)
  BY InstallMoves DEF SkillInv
<1>2. tree' = tree /\ vouched' = vouched /\ disturbed' \subseteq disturbed
  BY DEF SameTrees
<1>3. SkillTypeOK'
  BY <1>1, <1>2 DEF SkillInv, SkillTypeOK
<1>4. \A o \in Installer : JobIsRight(install'[o])
  BY <1>1 DEF InstallBecomes, SkillInv
<1>5. q.step = "check" => q.mode # "registry"
  BY DEF JobIsRight, InstallSteps, SwapSteps
<1> QED BY <1>1, <1>2, <1>3, <1>4, <1>5, QuietStepKeepsEntries, QuietStepKeepsChecks
        DEF SkillInv

\* The job with another step.
LEMMA StepOfJob ==
    ASSUME NEW j \in Job, NEW to \in {"idle", "remove", "rename", "load", "save", "look", "ask",
                                        "write", "check", "audit"}
    PROVE  LET q == [j EXCEPT !.step = to]
           IN  /\ q \in Job /\ q.step = to /\ q.mode = j.mode /\ q.skill = j.skill
               /\ q.version = j.version /\ q.saw = j.saw /\ q.yes = j.yes /\ q.todo = j.todo
               /\ q.loaded = j.loaded
BY DEF Job

---------------------------------------------------------------------------
\* setup

LEMMA SetupKeepsSkills ==
    ASSUME SkillInv, NEW i \in Installer, NEW mode, SetupSkills(i, mode)
    PROVE  SkillInv'
<1> DEFINE q == [NoJob EXCEPT !.step = "look", !.mode = mode, !.todo = Bundled]
<1>1. /\ install[i].step = "idle" /\ mode \in {"plain", "merge", "force"}
      /\ install' = [install EXCEPT ![i] = q] /\ UNCHANGED <<state, unsettled>> /\ SameTrees
  BY DEF SetupSkills
<1>2. q \in Job /\ JobIsRight(q) /\ q.step = "look" /\ q.mode # "registry"
  BY <1>1, SkillAssumption
     DEF NoJob, Job, JobIsRight, SwapSteps, InstallSteps, Contents, NoState
<1> HIDE DEF q
<1> QED BY <1>1, <1>2, QuietStepKeepsSkills DEF SkillInv, SkillTypeOK, SwapSteps

LEMMA LookKeepsSkills ==
    ASSUME SkillInv, NEW i \in Installer, NEW s \in Skill, Look(i, s)
    PROVE  SkillInv'
<1>1. PICK j \in Job : j = install[i]
  BY DEF SkillInv, SkillTypeOK
<1> DEFINE becomes == NextStep(j.mode, tree[s])
<1> DEFINE q == [j EXCEPT !.step = becomes, !.skill = s, !.todo = @ \ {s},
                          !.saw = IF becomes = "audit" THEN Gone ELSE tree[s]]
<1>2. /\ j.step = "look" /\ install' = [install EXCEPT ![i] = q]
      /\ UNCHANGED <<state, unsettled>> /\ SameTrees
  BY <1>1 DEF Look
<1>3. j.mode # "registry" /\ tree[s] \in Contents /\ Gone \in Contents
  BY <1>1, <1>2 DEF SkillInv, JobIsRight, InstallSteps, SwapSteps, SkillTypeOK, Contents
<1>4. becomes \in {"write", "ask", "audit"}
      /\ (becomes = "write" => j.mode = "force" \/ tree[s] = Gone)
  BY DEF NextStep
<1> HIDE DEF becomes
<1>5. /\ q \in Job /\ q.step = becomes /\ q.mode = j.mode /\ q.skill = s
      /\ (becomes = "write" => q.saw = tree[s])
  BY <1>3, <1>4 DEF Job
<1> HIDE DEF q
<1>6. JobIsRight(q)
  BY <1>3, <1>4, <1>5 DEF JobIsRight, InstallSteps, SwapSteps
<1> QED BY <1>1, <1>2, <1>3, <1>4, <1>5, <1>6, QuietStepKeepsSkills
        DEF SkillInv, SkillTypeOK, SwapSteps

LEMMA PromptKeepsSkills ==
    ASSUME SkillInv, NEW i \in Installer, NEW yes \in BOOLEAN, PromptMerge(i, yes)
    PROVE  SkillInv'
<1>1. PICK j \in Job : j = install[i]
  BY DEF SkillInv, SkillTypeOK
<1> DEFINE q == [j EXCEPT !.step = IF yes THEN "write" ELSE "audit", !.yes = yes,
                          !.saw = IF yes THEN @ ELSE Gone]
<1>2. /\ j.step = "ask" /\ install' = [install EXCEPT ![i] = q]
      /\ UNCHANGED <<state, unsettled>> /\ SameTrees
  BY <1>1 DEF PromptMerge
<1>3. j.mode # "registry" /\ j.skill \in Skill
  BY <1>1, <1>2 DEF SkillInv, JobIsRight, InstallSteps, SwapSteps
<1>4. /\ q \in Job /\ q.step = (IF yes THEN "write" ELSE "audit") /\ q.mode = j.mode
      /\ q.skill = j.skill /\ q.yes = yes
  BY DEF Job, Contents
<1> HIDE DEF q
<1>5. JobIsRight(q)
  BY <1>3, <1>4 DEF JobIsRight, InstallSteps, SwapSteps
<1> QED BY <1>1, <1>2, <1>3, <1>4, <1>5, QuietStepKeepsSkills
        DEF SkillInv, SkillTypeOK, SwapSteps

LEMMA RecordKeepsSkills ==
    ASSUME SkillInv, NEW i \in Installer, RecordSkill(i)
    PROVE  SkillInv'
<1>1. PICK j \in Job : j = install[i]
  BY DEF SkillInv, SkillTypeOK
<1>2. j.step = "audit" /\ UNCHANGED <<state, unsettled>> /\ SameTrees
  BY <1>1 DEF RecordSkill
<1>3. CASE j.mode = "registry"
  BY <1>1, <1>2, <1>3, NoJobIsRight, QuietStepKeepsSkills
     DEF RecordSkill, Finish, SkillInv, SkillTypeOK, SwapSteps
<1>4. CASE j.mode # "registry"
  <2> DEFINE q == [j EXCEPT !.step = IF j.todo = {} THEN "check" ELSE "look",
                            !.skill = Gone, !.saw = Gone,
                            !.todo = IF @ = {} THEN Checked ELSE @]
  <2>1. install' = [install EXCEPT ![i] = q]
    BY <1>1, <1>4 DEF RecordSkill
  <2>2. /\ q \in Job /\ q.step = (IF j.todo = {} THEN "check" ELSE "look") /\ q.mode = j.mode
        /\ q.todo = (IF j.todo = {} THEN Checked ELSE j.todo)
    BY SkillAssumption DEF Job, Contents
  <2> HIDE DEF q
  <2>3. JobIsRight(q)
    BY <1>4, <2>2 DEF JobIsRight, InstallSteps, SwapSteps
  <2> QED BY <1>1, <1>2, <1>4, <2>1, <2>2, <2>3, QuietStepKeepsSkills
          DEF SkillInv, SkillTypeOK, SwapSteps
<1> QED BY <1>3, <1>4

LEMMA ValidateKeepsSkills ==
    ASSUME SkillInv, NEW i \in Installer, NEW s \in Skill, ValidateInstalled(i, s)
    PROVE  SkillInv'
<1>1. PICK j \in Job : j = install[i]
  BY DEF SkillInv, SkillTypeOK
<1>2. j.step = "check" /\ UNCHANGED <<state, unsettled>> /\ SameTrees
  BY <1>1 DEF ValidateInstalled
<1>3. CASE Valid(tree[s])
  <2> DEFINE q == [j EXCEPT !.todo = @ \ {s}]
  <2>1. install' = [install EXCEPT ![i] = q]
    BY <1>1, <1>3 DEF ValidateInstalled
  <2>2. q \in Job /\ q.step = "check" /\ q.mode = j.mode /\ q.todo = j.todo \ {s}
    BY <1>2 DEF Job
  <2> HIDE DEF q
  <2>3. j.mode # "registry" /\ JobIsRight(q)
    BY <1>1, <1>2, <2>2 DEF SkillInv, JobIsRight, InstallSteps, SwapSteps
  <2> QED BY <1>1, <1>2, <1>3, <2>1, <2>2, <2>3, QuietStepKeepsSkills
          DEF SkillInv, SkillTypeOK, SwapSteps
<1>4. CASE ~Valid(tree[s])
  BY <1>1, <1>2, <1>4, NoJobIsRight, QuietStepKeepsSkills
     DEF ValidateInstalled, Finish, SkillInv, SkillTypeOK, SwapSteps
<1> QED BY <1>3, <1>4

\* Success is reported of what was checked.
LEMMA ReportKeepsSkills ==
    ASSUME SkillInv, NEW i \in Installer, Report(i)
    PROVE  SkillInv'
<1>1. /\ install[i].step = "check" /\ install[i].todo = {}
      /\ install' = [install EXCEPT ![i] = NoJob]
      /\ vouched' = (vouched \/ i \notin disturbed) /\ disturbed' = disturbed \ {i}
      /\ UNCHANGED <<tree, state, unsettled>>
  BY DEF Report, Finish
<1>2. install' \in [Installer -> Job] /\ InstallBecomes(i, NoJob)
  BY <1>1, NoJobIsRight, InstallMoves DEF SkillInv
<1>3. SkillTypeOK'
  BY <1>1, <1>2 DEF SkillInv, SkillTypeOK
<1>4. \A o \in Installer : JobIsRight(install'[o])
  BY <1>2, NoJobIsRight DEF InstallBecomes, SkillInv
<1>5. \A s \in Skill \ unsettled' : EntryIsRight(s)'
  BY <1>1, <1>2, NoJobIsRight, QuietStepKeepsEntries DEF SwapSteps
<1>6. ChecksHold'
  <2>1. SuccessMeansValid'
    BY <1>1 DEF SkillInv, ChecksHold, SuccessMeansValid
  <2>2. \A o \in Installer : install'[o].step = "check" => o # i /\ install'[o] = install[o]
    BY <1>2, NoJobIsRight DEF InstallBecomes
  <2> QED BY <1>1, <2>1, <2>2 DEF SkillInv, ChecksHold
<1> QED BY <1>3, <1>4, <1>5, <1>6 DEF SkillInv

---------------------------------------------------------------------------
\* Steps that change a tree

\* What a changed tree means for the setups: i is not one that checks.
LEMMA PutKeepsChecks ==
    ASSUME SkillInv, NEW i \in Installer, NEW q \in Job, NEW s \in Skill, NEW c \in Contents,
           Put(s, c, i), InstallBecomes(i, q), q.step # "check"
    PROVE  ChecksHold'
<1>1. SuccessMeansValid'
  BY DEF Put, SuccessMeansValid
<1>2. ASSUME NEW o \in Installer \ disturbed', install'[o].step = "check" PROVE FALSE
  <2>1. o # i /\ install[o].step = "check"
    BY <1>2 DEF InstallBecomes
  <2>2. o \in InSetup
    BY <2>1 DEF InSetup, SkillInv, JobIsRight, InstallSteps, SwapSteps
  <2> QED BY <1>2, <2>1, <2>2 DEF Put
<1> QED BY <1>1, <1>2 DEF ChecksHold

LEMMA WriteKeepsSkills ==
    ASSUME SkillInv, NEW i \in Installer, WriteSkill(i)
    PROVE  SkillInv'
<1>1. PICK j \in Job : j = install[i]
  BY DEF SkillInv, SkillTypeOK
<1> DEFINE q == [j EXCEPT !.step = "audit", !.saw = Gone, !.yes = FALSE]
<1>2. /\ j.step = "write" /\ install' = [install EXCEPT ![i] = q] /\ Put(j.skill, Bundle, i)
      /\ unsettled' = unsettled \cup {j.skill} /\ UNCHANGED state
  BY <1>1 DEF WriteSkill
<1>3. q \in Job /\ q.step = "audit" /\ q.mode = j.mode /\ q.skill = j.skill
  BY DEF Job, Contents
<1> HIDE DEF q
<1>4. j.mode # "registry" /\ j.skill \in Skill /\ JobIsRight(q)
  BY <1>1, <1>2, <1>3 DEF SkillInv, JobIsRight, InstallSteps, SwapSteps
<1>5. install' \in [Installer -> Job] /\ InstallBecomes(i, q)
  BY <1>2, <1>3, InstallMoves DEF SkillInv
<1>6. SkillTypeOK'
  BY <1>2, <1>4, <1>5 DEF SkillInv, SkillTypeOK, Put, Contents, InSetup
<1>7. \A o \in Installer : JobIsRight(install'[o])
  BY <1>4, <1>5 DEF InstallBecomes, SkillInv
<1>8. ChecksHold'
  BY <1>2, <1>3, <1>4, <1>5, PutKeepsChecks DEF Contents
<1>9. ASSUME NEW s \in Skill \ unsettled' PROVE EntryIsRight(s)'
  <2>1. EntryIsRight(s) /\ s # j.skill
    BY <1>2, <1>9 DEF SkillInv
  <2>2. tree'[s] = tree[s] /\ state' = state
    BY <1>2, <2>1 DEF Put, SkillInv, SkillTypeOK
  <2>3. \A o \in Installer : install'[o].step \in SwapSteps => o # i /\ install'[o] = install[o]
    BY <1>3, <1>5 DEF InstallBecomes, SwapSteps
  <2>4. \A o \in Installer : install'[o].mode = "registry" => o # i /\ install'[o] = install[o]
    BY <1>3, <1>4, <1>5 DEF InstallBecomes
  <2>5. \A o \in Installer : install[o].step \in SwapSteps => install'[o] = install[o]
    BY <1>1, <1>2, <1>5 DEF InstallBecomes, SwapSteps
  <2> QED BY <2>1, <2>2, <2>3, <2>4, <2>5 DEF EntryIsRight, SwapSteps
<1> QED BY <1>6, <1>7, <1>8, <1>9 DEF SkillInv

LEMMA UserKeepsSkills ==
    ASSUME SkillInv, NEW s \in Skill, NEW c \in Users, UserEdits(s, c)
    PROVE  SkillInv'
<1>1. /\ tree' = [tree EXCEPT ![s] = c] /\ vouched' = FALSE /\ disturbed' = InSetup
      /\ unsettled' = unsettled \cup {s} /\ UNCHANGED <<state, install>>
  BY DEF UserEdits
<1>2. SkillTypeOK'
  BY <1>1 DEF SkillInv, SkillTypeOK, Contents, InSetup
<1>3. ChecksHold'
  <2>1. ASSUME NEW o \in Installer, install[o].step = "check" PROVE o \in InSetup
    BY <2>1 DEF InSetup, SkillInv, JobIsRight, InstallSteps, SwapSteps
  <2> QED BY <1>1, <2>1 DEF ChecksHold, SuccessMeansValid
<1>4. ASSUME NEW t \in Skill \ unsettled' PROVE EntryIsRight(t)'
  <2>1. EntryIsRight(t) /\ tree'[t] = tree[t]
    BY <1>1, <1>4 DEF SkillInv, SkillTypeOK
  <2> QED BY <1>1, <2>1 DEF EntryIsRight
<1> QED BY <1>1, <1>2, <1>3, <1>4 DEF SkillInv

---------------------------------------------------------------------------
\* install

\* An install's next step: its types, and what the setups are told.
LEMMA InstallGoesOn ==
    ASSUME SkillInv, NEW i \in Installer, NEW q \in Job, install' = [install EXCEPT ![i] = q],
           JobIsRight(q), q.step # "check", state' \in [Skill -> Version \cup {Gone}],
           unsettled' \subseteq Skill,
           SameTrees \/ \E s \in Skill, c \in Contents : Put(s, c, i)
    PROVE  /\ SkillTypeOK' /\ ChecksHold' /\ InstallBecomes(i, q)
           /\ \A o \in Installer : JobIsRight(install'[o])
<1>1. install' \in [Installer -> Job] /\ InstallBecomes(i, q)
  BY InstallMoves DEF SkillInv
<1>2. SkillTypeOK'
  BY <1>1 DEF SkillInv, SkillTypeOK, Put, SameTrees, Contents, InSetup
<1>3. \A o \in Installer : JobIsRight(install'[o])
  BY <1>1 DEF InstallBecomes, SkillInv
<1> QED BY <1>1, <1>2, <1>3, PutKeepsChecks, QuietStepKeepsChecks

LEMMA FetchKeepsSkills ==
    ASSUME SkillInv, NEW i \in Installer, NEW s \in Skill, NEW v \in Version,
           NEW override \in BOOLEAN, FetchSkill(i, s, v, override)
    PROVE  SkillInv'
<1> DEFINE q == [NoJob EXCEPT !.step = "remove", !.mode = "registry", !.skill = s, !.version = v]
<1>1. /\ install[i].step = "idle" /\ install' = [install EXCEPT ![i] = q]
      /\ unsettled \subseteq unsettled' /\ unsettled' \subseteq unsettled \cup {s}
      /\ (\E o \in Installer : install[o].skill = s) => s \in unsettled'
      /\ state' = state /\ SameTrees
  BY DEF FetchSkill
<1>2. q \in Job /\ q.step = "remove" /\ q.mode = "registry" /\ q.skill = s /\ q.version = v
  BY DEF NoJob, Job, Contents, NoState
<1> HIDE DEF q
<1>3. JobIsRight(q)
  BY <1>2 DEF JobIsRight, SwapSteps, InstallSteps
<1>4. /\ SkillTypeOK' /\ ChecksHold' /\ InstallBecomes(i, q)
      /\ \A o \in Installer : JobIsRight(install'[o])
  BY <1>1, <1>2, <1>3, InstallGoesOn DEF SkillInv, SkillTypeOK
<1>5. ASSUME NEW t \in Skill \ unsettled' PROVE EntryIsRight(t)'
  <2>1. EntryIsRight(t) /\ tree' = tree
    BY <1>1, <1>5 DEF SkillInv, SameTrees
  <2>2. \A o \in Installer : install'[o].step \in SwapSteps => o # i /\ install'[o] = install[o]
    BY <1>2, <1>4 DEF InstallBecomes, SwapSteps
  <2>3. \A o \in Installer : install[o].step \in SwapSteps => install'[o] = install[o]
    BY <1>1, <1>4 DEF InstallBecomes, SwapSteps
  <2>4. \A o \in Installer : install'[o].skill = t /\ o # i => install[o].skill = t
                                                              /\ install'[o] = install[o]
    BY <1>4 DEF InstallBecomes
  <2>5. t = s => \A o \in Installer : install[o].skill # t
    BY <1>1, <1>5
  <2> QED BY <1>1, <1>2, <1>4, <2>1, <2>2, <2>3, <2>4, <2>5
          DEF EntryIsRight, SwapSteps, InstallBecomes
<1> QED BY <1>4, <1>5 DEF SkillInv

LEMMA RemoveKeepsSkills ==
    ASSUME SkillInv, NEW i \in Installer, RemoveOld(i)
    PROVE  SkillInv'
<1>1. PICK j \in Job : j = install[i]
  BY DEF SkillInv, SkillTypeOK
<1> DEFINE q == [j EXCEPT !.step = "rename"]
<1>2. /\ j.step = "remove" /\ install' = [install EXCEPT ![i] = q] /\ Put(j.skill, Gone, i)
      /\ UNCHANGED <<state, unsettled>>
  BY <1>1 DEF RemoveOld, To
<1>3. /\ q \in Job /\ q.step = "rename" /\ q.mode = j.mode /\ q.skill = j.skill
      /\ q.version = j.version
  BY StepOfJob
<1> HIDE DEF q
<1>4. j.mode = "registry" /\ j.skill \in Skill /\ JobIsRight(q)
  BY <1>1, <1>2, <1>3 DEF SkillInv, JobIsRight, InstallSteps, SwapSteps
<1>5. /\ SkillTypeOK' /\ ChecksHold' /\ InstallBecomes(i, q)
      /\ \A o \in Installer : JobIsRight(install'[o])
  BY <1>2, <1>3, <1>4, InstallGoesOn DEF SkillInv, SkillTypeOK, Contents
<1>6. ASSUME NEW s \in Skill \ unsettled' PROVE EntryIsRight(s)'
  <2>1. EntryIsRight(s) /\ state' = state
    BY <1>2, <1>6 DEF SkillInv
  <2>2. \A o \in Installer : o # i => install'[o] = install[o]
    BY <1>5 DEF InstallBecomes
  <2>3. install'[i] = q
    BY <1>5 DEF InstallBecomes
  <2>4. CASE s = j.skill
    <3>1. \A o \in Installer : o # i /\ install[o].skill = s => install[o].step \notin SwapSteps
      BY <1>1, <1>4, <2>1, <2>4 DEF EntryIsRight, SkillInv, JobIsRight
    <3> QED BY <1>1, <1>2, <1>3, <1>4, <2>1, <2>2, <2>3, <2>4, <3>1
               DEF EntryIsRight, SwapSteps
  <2>5. CASE s # j.skill
    <3>1. tree'[s] = tree[s]
      BY <1>2, <2>5 DEF Put, SkillInv, SkillTypeOK
    <3> QED BY <1>1, <1>2, <1>3, <1>4, <2>1, <2>2, <2>3, <2>5, <3>1
               DEF EntryIsRight, SwapSteps
  <2> QED BY <2>4, <2>5
<1> QED BY <1>5, <1>6 DEF SkillInv

LEMMA RenameKeepsSkills ==
    ASSUME SkillInv, NEW i \in Installer, RenameNew(i)
    PROVE  SkillInv'
<1>1. PICK j \in Job : j = install[i]
  BY DEF SkillInv, SkillTypeOK
<1> DEFINE q == [j EXCEPT !.step = "load"]
<1>2. /\ j.step = "rename" /\ install' = [install EXCEPT ![i] = q]
      /\ Put(j.skill, j.version, i) /\ UNCHANGED <<state, unsettled>>
  BY <1>1 DEF RenameNew, To
<1>3. /\ q \in Job /\ q.step = "load" /\ q.mode = j.mode /\ q.skill = j.skill
      /\ q.version = j.version
  BY StepOfJob
<1> HIDE DEF q
<1>4. j.mode = "registry" /\ j.skill \in Skill /\ j.version \in Version /\ JobIsRight(q)
  BY <1>1, <1>2, <1>3 DEF SkillInv, JobIsRight, InstallSteps, SwapSteps
<1>5. /\ SkillTypeOK' /\ ChecksHold' /\ InstallBecomes(i, q)
      /\ \A o \in Installer : JobIsRight(install'[o])
  BY <1>2, <1>3, <1>4, InstallGoesOn DEF SkillInv, SkillTypeOK, Contents
<1>6. ASSUME NEW s \in Skill \ unsettled' PROVE EntryIsRight(s)'
  <2>1. EntryIsRight(s) /\ state' = state
    BY <1>2, <1>6 DEF SkillInv
  <2>2. \A o \in Installer : o # i => install'[o] = install[o]
    BY <1>5 DEF InstallBecomes
  <2>3. install'[i] = q
    BY <1>5 DEF InstallBecomes
  <2>4. CASE s = j.skill
    <3>1. \A o \in Installer : o # i /\ install[o].skill = s => install[o].step \notin SwapSteps
      BY <1>1, <1>4, <2>1, <2>4 DEF EntryIsRight, SkillInv, JobIsRight
    <3>2. tree'[s] = q.version
      BY <1>2, <1>3, <2>4 DEF Put, SkillInv, SkillTypeOK
    <3> QED BY <1>1, <1>2, <1>3, <1>4, <2>1, <2>2, <2>3, <2>4, <3>1, <3>2
            DEF EntryIsRight, SwapSteps
  <2>5. CASE s # j.skill
    <3>1. tree'[s] = tree[s]
      BY <1>2, <2>5 DEF Put, SkillInv, SkillTypeOK
    <3> QED BY <1>1, <1>2, <1>3, <1>4, <2>1, <2>2, <2>3, <2>5, <3>1
               DEF EntryIsRight, SwapSteps
  <2> QED BY <2>4, <2>5
<1> QED BY <1>5, <1>6 DEF SkillInv

LEMMA LoadKeepsSkills ==
    ASSUME SkillInv, NEW i \in Installer, LoadState(i)
    PROVE  SkillInv'
<1>1. PICK j \in Job : j = install[i]
  BY DEF SkillInv, SkillTypeOK
<1> DEFINE loaded == [state EXCEPT ![j.skill] = Gone]
<1> DEFINE q == [j EXCEPT !.step = "save", !.loaded = loaded]
<1>2. /\ j.step = "load" /\ install' = [install EXCEPT ![i] = q]
      /\ unsettled' = IF Overlapping(i) = {} THEN unsettled
                      ELSE unsettled \cup {install[o].skill : o \in Overlapping(i) \cup {i}}
      /\ UNCHANGED state /\ SameTrees
  BY <1>1 DEF LoadState
<1>3. state \in [Skill -> Version \cup {Gone}] /\ loaded \in [Skill -> Version \cup {Gone}]
      /\ \A s \in Skill : s # j.skill => loaded[s] = state[s]
  BY DEF SkillInv, SkillTypeOK
<1> HIDE DEF loaded
<1>4. /\ q \in Job /\ q.step = "save" /\ q.mode = j.mode /\ q.skill = j.skill
      /\ q.version = j.version /\ q.loaded = loaded
  BY <1>3 DEF Job
<1> HIDE DEF q
<1>5. j.mode = "registry" /\ j.skill \in Skill /\ j.version \in Version /\ JobIsRight(q)
  BY <1>1, <1>2, <1>4 DEF SkillInv, JobIsRight, InstallSteps, SwapSteps
<1>6. unsettled \subseteq unsettled' /\ unsettled' \subseteq Skill
  BY <1>1, <1>2, <1>5
     DEF Overlapping, SkillInv, SkillTypeOK, JobIsRight, InstallSteps, SwapSteps
<1>7. /\ SkillTypeOK' /\ ChecksHold' /\ InstallBecomes(i, q)
      /\ \A o \in Installer : JobIsRight(install'[o])
  BY <1>2, <1>3, <1>4, <1>5, <1>6, InstallGoesOn
<1>8. ASSUME NEW s \in Skill \ unsettled' PROVE EntryIsRight(s)'
  <2>1. EntryIsRight(s) /\ state' = state /\ tree' = tree
    BY <1>2, <1>6, <1>8 DEF SkillInv, SameTrees
  <2>2. \A o \in Installer : o # i => install'[o] = install[o]
    BY <1>7 DEF InstallBecomes
  <2>3. install'[i] = q
    BY <1>7 DEF InstallBecomes
  <2>4. ASSUME NEW o \in Installer \ {i}, install[o].step = "save"
        PROVE  install[o].skill # s /\ j.skill # s
    <3>1. o \in Overlapping(i)
      BY <2>4 DEF Overlapping
    <3> QED BY <1>1, <1>2, <1>8, <3>1
  <2> QED BY <1>1, <1>2, <1>3, <1>4, <1>5, <2>1, <2>2, <2>3, <2>4
             DEF EntryIsRight, SwapSteps
<1> QED BY <1>7, <1>8 DEF SkillInv

LEMMA SaveKeepsSkills ==
    ASSUME SkillInv, NEW i \in Installer, SaveState(i)
    PROVE  SkillInv'
<1>1. PICK j \in Job : j = install[i]
  BY DEF SkillInv, SkillTypeOK
<1> DEFINE q == [j EXCEPT !.step = "audit", !.loaded = NoState]
<1>2. /\ j.step = "save" /\ install' = [install EXCEPT ![i] = q]
      /\ state' = [j.loaded EXCEPT ![j.skill] = j.version]
      /\ UNCHANGED unsettled /\ SameTrees
  BY <1>1 DEF SaveState
<1>3. /\ q \in Job /\ q.step = "audit" /\ q.mode = j.mode /\ q.skill = j.skill
      /\ q.version = j.version
  BY DEF Job, NoState
<1> HIDE DEF q
<1>4. j.mode = "registry" /\ j.skill \in Skill /\ j.version \in Version /\ JobIsRight(q)
  BY <1>1, <1>2, <1>3 DEF SkillInv, JobIsRight, InstallSteps, SwapSteps
<1>5. /\ state' \in [Skill -> Version \cup {Gone}] /\ state'[j.skill] = j.version
      /\ \A s \in Skill : s # j.skill => state'[s] = j.loaded[s]
  BY <1>2, <1>4 DEF Job
<1>6. /\ SkillTypeOK' /\ ChecksHold' /\ InstallBecomes(i, q)
      /\ \A o \in Installer : JobIsRight(install'[o])
  BY <1>2, <1>3, <1>4, <1>5, InstallGoesOn DEF SkillInv, SkillTypeOK
<1>7. ASSUME NEW s \in Skill \ unsettled' PROVE EntryIsRight(s)'
  <2>1. EntryIsRight(s) /\ tree' = tree
    BY <1>2, <1>7 DEF SkillInv, SameTrees
  <2>2. \A o \in Installer : o # i => install'[o] = install[o]
    BY <1>6 DEF InstallBecomes
  <2>3. install'[i] = q
    BY <1>6 DEF InstallBecomes
  <2>4. CASE s = j.skill
    <3>1. state'[s] = tree[s]
      BY <1>1, <1>2, <1>5, <2>1, <2>4 DEF EntryIsRight
    <3>2. \A o \in Installer : install[o].step = "save" => o = i
      <4>1. install[i].step = "save" /\ install[i].skill = s
        BY <1>1, <1>2, <2>4
      <4> QED BY <2>1, <4>1 DEF EntryIsRight
    <3> QED BY <1>1, <1>2, <1>3, <1>4, <2>1, <2>2, <2>3, <2>4, <3>1, <3>2
            DEF EntryIsRight, SwapSteps
  <2>5. CASE s # j.skill
    <3>1. state'[s] = state[s]
      BY <1>1, <1>2, <1>5, <2>1, <2>5 DEF EntryIsRight
    <3> QED BY <1>1, <1>2, <1>3, <1>4, <2>1, <2>2, <2>3, <2>5, <3>1
               DEF EntryIsRight, SwapSteps
  <2> QED BY <2>4, <2>5
<1> QED BY <1>6, <1>7 DEF SkillInv

\* A job that ends early leaves the swap it was in unsettled.
LEMMA EndingKeepsSkills ==
    ASSUME SkillInv, NEW i \in Installer,
           RenameFails(i) \/ StateFails(i) \/ WriteFails(i) \/ InstallerDies(i)
    PROVE  SkillInv'
<1>1. /\ install' = [install EXCEPT ![i] = NoJob] /\ state' = state /\ SameTrees
      /\ unsettled' \in {unsettled, unsettled \cup {install[i].skill}}
      /\ unsettled' # unsettled => install[i].step \in SwapSteps
      /\ install[i].step \in SwapSteps => install[i].skill \in unsettled'
  BY DEF RenameFails, StateFails, WriteFails, InstallerDies, Finish, SwapSteps
<1>2. unsettled \subseteq unsettled' /\ unsettled' \subseteq Skill
  BY <1>1 DEF SkillInv, SkillTypeOK, JobIsRight, InstallSteps
<1> QED BY <1>1, <1>2, NoJobIsRight, QuietStepKeepsSkills DEF SwapSteps

LEMMA SkillInvStep == SkillInv /\ [SkillNext]_skillVars => SkillInv'
<1> SUFFICES ASSUME SkillInv, [SkillNext]_skillVars PROVE SkillInv'
  OBVIOUS
<1>1. CASE UNCHANGED skillVars
  BY <1>1
     DEF skillVars, SkillInv, SkillTypeOK, EntryIsRight, ChecksHold, SuccessMeansValid
<1> QED BY <1>1, SetupKeepsSkills, LookKeepsSkills, PromptKeepsSkills,
           RecordKeepsSkills,
           ValidateKeepsSkills, ReportKeepsSkills, WriteKeepsSkills, UserKeepsSkills,
           FetchKeepsSkills, RemoveKeepsSkills, RenameKeepsSkills, LoadKeepsSkills,
           SaveKeepsSkills, EndingKeepsSkills
        DEF SkillNext

\* What the user wrote is replaced only by who may.
LEMMA EditsStayOrMay ==
    ASSUME SkillInv, [SkillNext]_skillVars, NEW s \in Skill,
           tree[s] \in Users, tree'[s] \notin Users
    PROVE  \E i \in Installer : MayReplace(i, s)
<1>0. tree' # tree
  OBVIOUS
<1>1. ASSUME NEW i \in Installer, RemoveOld(i) PROVE MayReplace(i, s)
  BY <1>1 DEF RemoveOld, Put, MayReplace, SkillInv, SkillTypeOK
<1>2. ASSUME NEW i \in Installer, RenameNew(i) PROVE FALSE
  BY <1>2 DEF RenameNew, Put, SkillInv, SkillTypeOK, Users, Gone, Edited, Broken
<1>3. ASSUME NEW i \in Installer, WriteSkill(i) PROVE MayReplace(i, s)
  <2>1. install[i].step = "write" /\ install[i].skill = s
    BY <1>3 DEF WriteSkill, Put, SkillInv, SkillTypeOK
  <2>2. install[i].mode = "force" \/ install[i].yes \/ install[i].saw # tree[s]
    BY <2>1 DEF SkillInv, JobIsRight, Users, Gone, Edited, Broken
  <2> QED BY <2>1, <2>2 DEF MayReplace
<1>4. ASSUME NEW t \in Skill, NEW c \in Users, UserEdits(t, c) PROVE FALSE
  BY <1>4 DEF UserEdits, SkillInv, SkillTypeOK
<1>5. CASE UNCHANGED skillVars
  BY <1>0, <1>5 DEF skillVars
<1>6. ASSUME NEW i \in Installer,
             RenameFails(i) \/ LoadState(i) \/ SaveState(i) \/ StateFails(i) \/ WriteFails(i)
                \/ RecordSkill(i) \/ Report(i) \/ InstallerDies(i)
      PROVE  FALSE
  BY <1>0, <1>6
     DEF RenameFails, LoadState, SaveState, StateFails, WriteFails, RecordSkill, Report,
         InstallerDies, SameTrees
<1>7. ASSUME NEW i \in Installer, NEW t \in Skill,
             (\E v \in Version, override \in BOOLEAN : FetchSkill(i, t, v, override))
                \/ Look(i, t) \/ ValidateInstalled(i, t)
      PROVE  FALSE
  BY <1>0, <1>7 DEF FetchSkill, Look, ValidateInstalled, SameTrees
<1>8. ASSUME NEW i \in Installer,
             (\E mode \in {"plain", "merge", "force"} : SetupSkills(i, mode))
                \/ \E yes \in BOOLEAN : PromptMerge(i, yes)
      PROVE  FALSE
  BY <1>0, <1>8 DEF SetupSkills, PromptMerge, SameTrees
<1> QED BY <1>1, <1>2, <1>3, <1>4, <1>5, <1>6, <1>7, <1>8 DEF SkillNext

\* The skills are kept, with any installers, skills and versions.
LEMMA SkillsAreSafe == SkillSpec => SkillsAreKept
<1>1. SkillInv => SkillTypeOK /\ StateTellsTheTree /\ SuccessMeansValid
  BY DEF SkillInv, EntryIsRight, StateTellsTheTree, ChecksHold
<1>2. SkillInv /\ [SkillNext]_skillVars =>
          [\A s \in Skill : tree[s] \in Users /\ tree'[s] \notin Users
               => \E i \in Installer : MayReplace(i, s)]_skillVars
  BY EditsStayOrMay
<1> QED BY <1>1, <1>2, SkillInitInv, SkillInvStep, PTL
           DEF SkillSpec, SkillsAreKept, EditsSurvive

---------------------------------------------------------------------------
(* The settings file *)

MaybeText == Texts \cup {NoFile}
EditStep == {"idle", "backup", "rename", "create", "editor", "check", "copy"}
EditState == [step : EditStep, key : {"mode", "command"}, value : Modes \cup Commands,
              had : MaybeText, next : MaybeText]

\* What a command does to the settings c.
Result(e, c) ==
    IF e.value = "" THEN Default ELSE SetKey(IF c = NoFile THEN Default ELSE c, e.key, e.value)

\* A value is one its key can have, and what is about to be written is a text.
EditIsSound(e) ==
    /\ e.value # "" /\ e.key = "mode" => e.value \in Modes
    /\ e.value # "" /\ e.key = "command" => e.value \in Commands
    /\ e.step \in {"backup", "create", "rename"} => e.next \in Texts

\* As long as no two commands have met: there is one at most, it knows what the
\* settings are, and the file is as it should be unless an editor has just left it.
EditsInHand ==
    /\ \A o, q \in Operator : edit[o].step # "idle" /\ edit[q].step # "idle" => o = q
    /\ \A o \in Operator :
          /\ edit[o].step \in {"backup", "create", "rename"} =>
                 edit[o].next = Result(edit[o], wanted) /\ Validates(edit[o].next)
          /\ edit[o].step = "create" => file = NoFile
          /\ edit[o].step = "rename" /\ file # NoFile => \E k \in Copied : backups[k] = file
          /\ edit[o].step \in {"editor", "check"} => edit[o].had = wanted
    /\ (\A o \in Operator : edit[o].step # "check") => file = wanted
    /\ wanted = NoFile \/ Validates(wanted)

SettingsInv ==
    /\ SettingsTypeOK
    /\ \A o \in Operator : EditIsSound(edit[o])
    /\ \A k \in Copied : k <= now
    /\ BackupsAreBounded
    /\ ~crossed => EditsInHand

\* One changed key of a text gives a text.
LEMMA KeyIsSet ==
    ASSUME NEW c \in Texts, NEW key \in {"mode", "command"}, NEW value \in Modes \cup Commands,
           key = "mode" => value \in Modes, key = "command" => value \in Commands
    PROVE  SetKey(c, key, value) \in Texts
<1> DEFINE edited == [c EXCEPT ![key] = value]
<1>1. edited \in Texts
  BY DEF Texts, Modes, Commands
<1>2. ClaudeCommandFor(value) \in Commands
  BY DEF ClaudeCommandFor, Commands
<1>3. [edited EXCEPT !.command = ClaudeCommandFor(value)] \in Texts
  BY <1>1, <1>2 DEF Texts
<1> QED BY <1>1, <1>3 DEF SetKey

\* The newest n of a set of seconds are n at most.
LEMMA NewestAreFew ==
    ASSUME NEW S \in SUBSET Nat, IsFiniteSet(S), NEW n \in Nat \ {0}
    PROVE  Cardinality({k \in S : Cardinality({j \in S : j > k}) < n}) <= n
<1> DEFINE newest == {k \in S : Cardinality({j \in S : j > k}) < n}
<1>1. CASE newest = {}
  <2>1. Cardinality(newest) = 0
    BY <1>1, FS_EmptySet
  <2> QED BY <2>1
<1>2. CASE newest # {}
  <2>1. PICK m \in newest : \A k \in newest : m <= k
    BY <1>2, LeastOfNaturals
  <2> DEFINE above == {j \in S : j > m}
  <2>2. IsFiniteSet(above) /\ Cardinality(above) \in Nat /\ Cardinality(above) < n
    BY <2>1, FS_Subset, FS_CardinalityType
  <2>3. newest \subseteq above \cup {m}
    <3> SUFFICES ASSUME NEW k \in newest, k # m PROVE k \in above
      OBVIOUS
    <3>1. k \in S /\ m \in S /\ m <= k
      BY <2>1
    <3>2. k > m
      BY <3>1
    <3> QED BY <3>1, <3>2
  <2>4. IsFiniteSet(above \cup {m}) /\ Cardinality(above \cup {m}) = Cardinality(above) + 1
    <3>1. m \notin above
      OBVIOUS
    <3> QED BY <2>2, <3>1, FS_AddElement
  <2>5. Cardinality(newest) <= Cardinality(above \cup {m}) /\ Cardinality(newest) \in Nat
    BY <2>3, <2>4, FS_Subset, FS_CardinalityType
  <2>6. Cardinality(newest) <= n
    BY <2>2, <2>4, <2>5
  <2> QED BY <2>6
<1> QED BY <1>1, <1>2

\* A copy is made, the newest stay, and they are few.
LEMMA BackupIsWritten ==
    ASSUME SettingsTypeOK, \A k \in Copied : k <= now, NEW draft \in Texts, WriteBackup(draft)
    PROVE  /\ backups' \in [0..MaxClock -> MaybeText] /\ backups'[now] = draft
           /\ Copied' \subseteq Copied \cup {now} /\ now \in Copied' /\ BackupsAreBounded'
<1> USE SettingsAssumption
<1> DEFINE b == [backups EXCEPT ![now] = draft]
<1> DEFINE copies == {k \in DOMAIN b : b[k] # NoFile}
<1> DEFINE newest == {k \in copies : Cardinality({j \in copies : j > k}) < MaxBackups}
<1>1. b \in [0..MaxClock -> MaybeText] /\ b[now] = draft /\ now \in 0..MaxClock /\ draft # NoFile
      /\ \A k \in 0..MaxClock : k # now => b[k] = backups[k]
  <2>1. backups \in [0..MaxClock -> MaybeText] /\ draft \in MaybeText /\ now \in 0..MaxClock
    BY DEF SettingsTypeOK, MaybeText
  <2>2. draft # NoFile
    <3>1. draft.mode \in Modes /\ NoFile.mode = "no file" /\ "no file" \notin Modes
      BY DEF Texts, NoFile, Modes
    <3> QED BY <3>1
  <2> QED BY <2>1, <2>2
<1>2. backups' = [k \in 0..MaxClock |-> IF k \in newest THEN b[k] ELSE NoFile]
  BY <1>1 DEF WriteBackup, Pruned
<1>3. copies \subseteq Nat /\ IsFiniteSet(copies) /\ now \in copies
      /\ copies \subseteq Copied \cup {now} /\ copies \subseteq 0..MaxClock
  <2>1. copies \subseteq 0..MaxClock /\ IsFiniteSet(0..MaxClock)
    BY <1>1, FS_Interval
  <2>2. IsFiniteSet(copies)
    BY <2>1, FS_Subset
  <2> QED BY <1>1, <2>1, <2>2 DEF Copied, SettingsTypeOK
<1>4. now \in newest
  <2>1. {j \in copies : j > now} = {}
    BY <1>3 DEF SettingsTypeOK
  <2> QED BY <1>3, <2>1, FS_EmptySet
<1>5. newest \subseteq copies /\ \A k \in newest : b[k] # NoFile
  OBVIOUS
<1>6. Cardinality(newest) <= MaxBackups
  BY <1>3, NewestAreFew
<1> HIDE DEF copies, newest, b
<1>7. Copied' = newest
  BY <1>2, <1>3, <1>5 DEF Copied
<1>8. backups' \in [0..MaxClock -> MaybeText]
  BY <1>1, <1>2 DEF MaybeText
<1> QED BY <1>1, <1>2, <1>3, <1>4, <1>5, <1>6, <1>7, <1>8 DEF BackupsAreBounded

\* There is no file, no copy and no command at first.
LEMMA SettingsInitInv == SettingsInit => SettingsInv
<1> SUFFICES ASSUME SettingsInit PROVE SettingsInv
  OBVIOUS
<1> USE SettingsAssumption DEF SettingsInit
<1>1. SettingsIdle \in EditState /\ EditIsSound(SettingsIdle) /\ SettingsIdle.step = "idle"
  BY DEF SettingsIdle, EditState, EditStep, EditIsSound, MaybeText, Commands
<1>2. SettingsTypeOK
  <2>1. edit \in [Operator -> EditState]
    BY <1>1
  <2>2. wanted \in MaybeText /\ file \in MaybeText /\ now \in 0..MaxClock
    <3>1. NoFile \in MaybeText
      BY DEF MaybeText
    <3> QED BY <3>1
  <2>3. backups \in [0..MaxClock -> MaybeText]
    BY DEF MaybeText
  <2> QED BY <2>1, <2>2, <2>3 DEF SettingsTypeOK, EditState, EditStep, MaybeText
<1>3. Copied = {}
  BY DEF Copied
<1>4. BackupsAreBounded
  BY <1>3, FS_EmptySet DEF BackupsAreBounded
<1> QED BY <1>1, <1>2, <1>3, <1>4 DEF SettingsInv, EditsInHand

\* What one command's step can make of it: it comes to e.
EditBecomes(o, e) ==
    /\ edit'[o] = e /\ \A q \in Operator : q # o => edit'[q] = edit[q]

LEMMA EditMoves ==
    ASSUME SettingsTypeOK, NEW o \in Operator, NEW e \in EditState,
           edit' = [edit EXCEPT ![o] = e]
    PROVE  EditBecomes(o, e) /\ edit' \in [Operator -> EditState]
BY DEF SettingsTypeOK, EditState, EditStep, MaybeText, EditBecomes

\* A command begins.
LEMMA BeginKeepsSettings ==
    ASSUME SettingsInv, NEW o \in Operator, NEW e \in EditState, ~crossed,
           edit[o].step = "idle", edit' = [edit EXCEPT ![o] = e],
           crossed' = Crosses(o), SameFile, EditIsSound(e),
           e.step \in {"backup", "create", "editor"},
           e.step \in {"backup", "create"} =>
               Validates(e.next) /\ (file = wanted => e.next = Result(e, wanted)),
           e.step = "create" => file = NoFile,
           e.step = "editor" => e.had = file
    PROVE  SettingsInv'
<1> USE DEF SettingsInv
<1>1. EditBecomes(o, e) /\ edit' \in [Operator -> EditState]
  BY EditMoves
<1>2. Copied' = Copied /\ BackupsAreBounded'
  BY DEF SameFile, Copied, BackupsAreBounded
<1>3. SettingsTypeOK'
  BY <1>1 DEF SettingsTypeOK, SameFile, EditState, EditStep, MaybeText, Crosses
<1>4. ASSUME ~crossed' PROVE EditsInHand'
  <2>1. \A q \in Operator : q # o => edit[q].step = "idle"
    BY <1>4 DEF Crosses
  <2>2. file = wanted
    BY <2>1 DEF EditsInHand
  <2>3. e.step \in {"backup", "create"} =>
            Validates(e.next)' /\ e.next = Result(e, wanted')
    BY <2>2 DEF SameFile
  <2> QED BY <1>1, <2>1, <2>2, <2>3 DEF EditsInHand, SameFile, EditBecomes, Result
<1> QED BY <1>1, <1>2, <1>3, <1>4 DEF SameFile, EditBecomes

\* A command ends and has changed nothing, or its editor's text stays.
LEMMA EndKeepsSettings ==
    ASSUME SettingsInv, NEW o \in Operator, edit[o].step # "idle", Ends(o), SameFile,
           crossed' \in BOOLEAN, crossed \/ edit[o].step = "check" => crossed'
    PROVE  SettingsInv'
<1> USE DEF SettingsInv
<1>1. SettingsIdle \in EditState /\ EditIsSound(SettingsIdle) /\ SettingsIdle.step = "idle"
  BY DEF SettingsIdle, EditState, EditStep, EditIsSound, MaybeText, Commands
<1>2. EditBecomes(o, SettingsIdle) /\ edit' \in [Operator -> EditState]
  BY <1>1, EditMoves DEF Ends
<1>3. Copied' = Copied /\ BackupsAreBounded'
  BY DEF SameFile, Copied, BackupsAreBounded
<1>4. SettingsTypeOK'
  BY <1>2 DEF SettingsTypeOK, SameFile, EditState, EditStep, MaybeText
<1>5. ASSUME ~crossed' PROVE EditsInHand'
  <2>1. EditsInHand /\ edit[o].step # "check" /\ ~crossed
    BY <1>5
  <2>2. \A q \in Operator : q # o => edit[q].step = "idle"
    BY <2>1 DEF EditsInHand
  <2>3. \A q \in Operator : edit'[q].step = "idle"
    BY <1>1, <1>2, <2>2 DEF EditBecomes
  <2>4. file = wanted
    BY <2>1, <2>2 DEF EditsInHand
  <2> QED BY <2>1, <2>3, <2>4 DEF EditsInHand, SameFile
<1> QED BY <1>1, <1>2, <1>3, <1>4, <1>5 DEF SameFile, EditBecomes

\* A command that has the settings in hand is alone with them.
LEMMA OthersAreIdle ==
    ASSUME SettingsInv, ~crossed, NEW o \in Operator, edit[o].step # "idle"
    PROVE  /\ \A q \in Operator : q # o => edit[q].step = "idle"
           /\ edit[o].step # "check" => file = wanted
BY DEF SettingsInv, EditsInHand

LEMMA SetConfigKeepsSettings ==
    ASSUME SettingsInv, NEW o \in Operator, NEW key \in {"mode", "command"},
           NEW value \in (Modes \cup Commands) \ {""},
           key = "mode" => value \in Modes, key = "command" => value \in Commands,
           SetConfig(o, key, value)
    PROVE  SettingsInv'
<1> DEFINE c == IF file = NoFile THEN Default ELSE file
<1> DEFINE e == [SettingsIdle EXCEPT !.step = "backup", !.next = SetKey(c, key, value),
                                     !.key = key, !.value = value]
<1>1. c \in Texts
  BY DEF Texts, Modes, Commands, Default, SettingsInv, SettingsTypeOK
<1>2. SetKey(c, key, value) \in Texts
  BY <1>1, KeyIsSet
<1>3. /\ ~crossed /\ edit[o].step = "idle" /\ Validates(SetKey(c, key, value))
      /\ edit' = [edit EXCEPT ![o] = e] /\ crossed' = Crosses(o) /\ SameFile
  BY DEF SetConfig
<1> HIDE DEF c
<1>4. /\ e.step = "backup" /\ e.key = key /\ e.value = value /\ e.next = SetKey(c, key, value)
      /\ e \in EditState
  BY <1>2 DEF SettingsIdle, EditState, EditStep, MaybeText
<1> HIDE DEF e
<1>5. EditIsSound(e)
  BY <1>2, <1>4 DEF EditIsSound
<1>6. file = wanted => e.next = Result(e, wanted)
  BY <1>4 DEF Result, c
<1> QED BY <1>3, <1>4, <1>5, <1>6, BeginKeepsSettings

LEMMA EnsureConfigKeepsSettings ==
    ASSUME SettingsInv, NEW o \in Operator, EnsureConfig(o)
    PROVE  SettingsInv'
<1> DEFINE e == [SettingsIdle EXCEPT !.step = "create", !.next = Default]
<1>1. /\ e \in EditState /\ EditIsSound(e) /\ e.step = "create" /\ e.next = Default
      /\ e.next = Result(e, wanted) /\ Validates(e.next)
  BY DEF SettingsIdle, EditState, EditStep, MaybeText, EditIsSound, Result, Default,
         Validates,
         Texts, Modes, Commands
<1>2. /\ ~crossed /\ edit[o].step = "idle" /\ file = NoFile
      /\ edit' = [edit EXCEPT ![o] = e] /\ crossed' = Crosses(o) /\ SameFile
  BY DEF EnsureConfig
<1> HIDE DEF e
<1> QED BY <1>1, <1>2, BeginKeepsSettings

LEMMA ReadForEditKeepsSettings ==
    ASSUME SettingsInv, NEW o \in Operator, ReadForEdit(o)
    PROVE  SettingsInv'
<1> DEFINE e == [SettingsIdle EXCEPT !.step = "editor", !.had = file]
<1>1. /\ e \in EditState /\ EditIsSound(e) /\ e.step = "editor" /\ e.had = file
  BY DEF SettingsIdle, EditState, EditStep, MaybeText, EditIsSound, Commands,
         SettingsInv,
         SettingsTypeOK
<1>2. /\ ~crossed /\ edit[o].step = "idle"
      /\ edit' = [edit EXCEPT ![o] = e] /\ crossed' = Crosses(o) /\ SameFile
  BY DEF ReadForEdit
<1> HIDE DEF e
<1> QED BY <1>1, <1>2, BeginKeepsSettings

\* A command goes on to its next step.
LEMMA StepIsTaken ==
    ASSUME SettingsInv, NEW o \in Operator, NEW to \in EditStep,
           edit' = [edit EXCEPT ![o].step = to]
    PROVE  /\ edit' \in [Operator -> EditState] /\ edit'[o].step = to
           /\ edit'[o].key = edit[o].key /\ edit'[o].value = edit[o].value
           /\ edit'[o].had = edit[o].had /\ edit'[o].next = edit[o].next
           /\ \A q \in Operator : q # o => edit'[q] = edit[q]
<1>1. PICK e \in EditState : e = edit[o]
  BY DEF SettingsInv, SettingsTypeOK, EditState, EditStep, MaybeText
<1> DEFINE moved == [e EXCEPT !.step = to]
<1>2. moved \in EditState /\ moved.step = to /\ moved.key = e.key /\ moved.value = e.value
      /\ moved.had = e.had /\ moved.next = e.next
  BY DEF EditState
<1>3. edit' = [edit EXCEPT ![o] = moved]
  BY <1>1
<1> HIDE DEF moved
<1> QED BY <1>1, <1>2, <1>3, EditMoves DEF SettingsInv, EditBecomes

LEMMA SaveBackupKeepsSettings ==
    ASSUME SettingsInv, NEW o \in Operator, SaveBackup(o)
    PROVE  SettingsInv'
<1> USE DEF SettingsInv
<1>1. /\ edit[o].step \in {"backup", "create"} /\ UNCHANGED <<file, now, wanted, crossed>>
      /\ edit' = [edit EXCEPT ![o].step = "rename"]
      /\ IF file = NoFile THEN UNCHANGED backups ELSE WriteBackup(file)
  BY DEF SaveBackup
<1>2. /\ edit' \in [Operator -> EditState] /\ edit'[o].step = "rename"
      /\ edit'[o].key = edit[o].key /\ edit'[o].value = edit[o].value
      /\ edit'[o].had = edit[o].had /\ edit'[o].next = edit[o].next
      /\ \A q \in Operator : q # o => edit'[q] = edit[q]
  BY <1>1, StepIsTaken DEF EditStep
<1>3. /\ backups' \in [0..MaxClock -> MaybeText] /\ BackupsAreBounded'
      /\ \A k \in Copied' : k <= now
      /\ file # NoFile => \E k \in Copied' : backups'[k] = file
  <2>1. CASE file = NoFile
    BY <1>1, <2>1 DEF SettingsTypeOK, MaybeText, Copied, BackupsAreBounded
  <2>2. CASE file # NoFile
    <3>1. file \in Texts /\ WriteBackup(file) /\ now \in Nat
      BY <1>1, <2>2, SettingsAssumption DEF SettingsTypeOK
    <3> QED BY <3>1, BackupIsWritten
  <2> QED BY <2>1, <2>2
<1>4. SettingsTypeOK'
  BY <1>1, <1>2, <1>3 DEF SettingsTypeOK, EditState, EditStep, MaybeText
<1>5. \A q \in Operator : EditIsSound(edit'[q])
  BY <1>1, <1>2 DEF EditIsSound
<1>6. ASSUME ~crossed' PROVE EditsInHand'
  <2>1. EditsInHand /\ \A q \in Operator : q # o => edit[q].step = "idle"
    BY <1>1, <1>6, OthersAreIdle
  <2>2. edit'[o].next = Result(edit'[o], wanted') /\ Validates(edit'[o].next)
    BY <1>1, <1>2, <2>1 DEF EditsInHand, Result
  <2> QED BY <1>1, <1>2, <1>3, <2>1, <2>2 DEF EditsInHand
<1> QED BY <1>1, <1>3, <1>4, <1>5, <1>6

LEMMA SaveRenameKeepsSettings ==
    ASSUME SettingsInv, NEW o \in Operator, SaveRename(o)
    PROVE  SettingsInv'
<1> USE DEF SettingsInv
<1>1. SettingsIdle \in EditState /\ EditIsSound(SettingsIdle) /\ SettingsIdle.step = "idle"
  BY DEF SettingsIdle, EditState, EditStep, EditIsSound, MaybeText, Commands
<1>2. /\ edit[o].step = "rename" /\ file' = edit[o].next /\ wanted' = Result(edit[o], wanted)
      /\ UNCHANGED <<backups, now, crossed>> /\ edit' = [edit EXCEPT ![o] = SettingsIdle]
  BY DEF SaveRename, Ends, Result
<1>3. EditBecomes(o, SettingsIdle) /\ edit' \in [Operator -> EditState]
  BY <1>1, <1>2, EditMoves
<1>4. file' \in Texts
  BY <1>2 DEF EditIsSound
<1>5. wanted' \in Texts
  <2>1. Default \in Texts /\ (wanted # NoFile => wanted \in Texts)
    BY DEF Default, Texts, Modes, Commands, SettingsTypeOK
  <2>2. CASE edit[o].value = ""
    BY <1>2, <2>1, <2>2 DEF Result
  <2>3. CASE edit[o].value # ""
    <3>1. edit[o].key \in {"mode", "command"} /\ edit[o].value \in Modes \cup Commands
      BY DEF SettingsTypeOK
    <3> QED BY <1>2, <2>1, <2>3, <3>1, KeyIsSet DEF Result, EditIsSound
  <2> QED BY <2>2, <2>3
<1>6. SettingsTypeOK' /\ Copied' = Copied /\ BackupsAreBounded'
  BY <1>2, <1>3, <1>4, <1>5
     DEF SettingsTypeOK, EditState, EditStep, MaybeText, Copied, BackupsAreBounded
<1>7. ASSUME ~crossed' PROVE EditsInHand'
  <2>1. EditsInHand /\ \A q \in Operator : q # o => edit[q].step = "idle"
    BY <1>2, <1>7, OthersAreIdle
  <2>2. file' = wanted' /\ Validates(wanted')
    BY <1>2, <2>1 DEF EditsInHand
  <2>3. \A q \in Operator : edit'[q].step = "idle"
    BY <1>1, <1>3, <2>1 DEF EditBecomes
  <2> QED BY <2>2, <2>3 DEF EditsInHand
<1> QED BY <1>1, <1>2, <1>3, <1>6, <1>7 DEF EditBecomes

LEMMA EditorSavesKeepsSettings ==
    ASSUME SettingsInv, NEW o \in Operator, NEW draft \in Drafts, EditorSaves(o, draft)
    PROVE  SettingsInv'
<1> USE DEF SettingsInv
<1>1. /\ edit[o].step = "editor" /\ file' = draft /\ UNCHANGED <<backups, now, wanted, crossed>>
      /\ edit' = [edit EXCEPT ![o].step = "check"]
  BY DEF EditorSaves
<1>2. /\ edit' \in [Operator -> EditState] /\ edit'[o].step = "check"
      /\ edit'[o].key = edit[o].key /\ edit'[o].value = edit[o].value
      /\ edit'[o].had = edit[o].had /\ edit'[o].next = edit[o].next
      /\ \A q \in Operator : q # o => edit'[q] = edit[q]
  BY <1>1, StepIsTaken DEF EditStep
<1>3. draft \in Texts
  <2>1. /\ [mode |-> "bypass", command |-> "bypass"] \in Texts
        /\ [mode |-> "custom", command |-> "mine"] \in Texts
        /\ [mode |-> "bad", command |-> "mine"] \in Texts
    BY DEF Texts, Modes, Commands
  <2> QED BY <2>1 DEF Drafts
<1>4. SettingsTypeOK' /\ Copied' = Copied /\ BackupsAreBounded'
  BY <1>1, <1>2, <1>3
     DEF SettingsTypeOK, EditState, EditStep, MaybeText, Copied, BackupsAreBounded
<1>5. \A q \in Operator : EditIsSound(edit'[q])
  BY <1>1, <1>2 DEF EditIsSound
<1>6. ASSUME ~crossed' PROVE EditsInHand'
  <2>1. EditsInHand /\ \A q \in Operator : q # o => edit[q].step = "idle"
    BY <1>1, <1>6, OthersAreIdle
  <2> QED BY <1>1, <1>2, <2>1 DEF EditsInHand
<1> QED BY <1>1, <1>4, <1>5, <1>6

LEMMA CheckEditKeepsSettings ==
    ASSUME SettingsInv, NEW o \in Operator, CheckEdit(o)
    PROVE  SettingsInv'
<1> USE DEF SettingsInv
<1>1. edit[o].step = "check" /\ UNCHANGED <<now, crossed, backups>>
  BY DEF CheckEdit
<1>2. Copied' = Copied /\ BackupsAreBounded'
  BY <1>1 DEF Copied, BackupsAreBounded
<1>3. CASE /\ edit' = [edit EXCEPT ![o].step = "copy"] /\ wanted' = file /\ file' = file
           /\ file = NoFile \/ Validates(file)
  <2>1. /\ edit' \in [Operator -> EditState] /\ edit'[o].step = "copy"
        /\ edit'[o].key = edit[o].key /\ edit'[o].value = edit[o].value
        /\ edit'[o].had = edit[o].had /\ edit'[o].next = edit[o].next
        /\ \A q \in Operator : q # o => edit'[q] = edit[q]
    BY <1>3, StepIsTaken DEF EditStep
  <2>2. SettingsTypeOK'
    BY <1>1, <1>3, <2>1 DEF SettingsTypeOK, EditState, EditStep, MaybeText
  <2>3. \A q \in Operator : EditIsSound(edit'[q])
    BY <2>1 DEF EditIsSound
  <2>4. ASSUME ~crossed' PROVE EditsInHand'
    <3>1. EditsInHand /\ \A q \in Operator : q # o => edit[q].step = "idle"
      BY <1>1, <2>4, OthersAreIdle
    <3> QED BY <1>3, <2>1, <3>1 DEF EditsInHand
  <2> QED BY <1>1, <1>2, <2>2, <2>3, <2>4
<1>4. CASE Ends(o) /\ file' = edit[o].had /\ wanted' = wanted
  <2>1. SettingsIdle \in EditState /\ EditIsSound(SettingsIdle) /\ SettingsIdle.step = "idle"
    BY DEF SettingsIdle, EditState, EditStep, EditIsSound, MaybeText, Commands
  <2>2. EditBecomes(o, SettingsIdle) /\ edit' \in [Operator -> EditState]
    BY <1>4, <2>1, EditMoves DEF Ends
  <2>3. SettingsTypeOK'
    BY <1>1, <1>4, <2>2 DEF SettingsTypeOK, EditState, EditStep, MaybeText
  <2>4. ASSUME ~crossed' PROVE EditsInHand'
    <3>1. EditsInHand /\ \A q \in Operator : q # o => edit[q].step = "idle"
      BY <1>1, <2>4, OthersAreIdle
    <3>2. file' = wanted' /\ \A q \in Operator : edit'[q].step = "idle"
      BY <1>1, <1>4, <2>1, <2>2, <3>1 DEF EditsInHand, EditBecomes
    <3> QED BY <1>4, <3>1, <3>2 DEF EditsInHand
  <2> QED BY <1>1, <1>2, <2>1, <2>2, <2>3, <2>4 DEF EditBecomes
<1> QED BY <1>3, <1>4 DEF CheckEdit

LEMMA CopyOriginalKeepsSettings ==
    ASSUME SettingsInv, NEW o \in Operator, CopyOriginal(o)
    PROVE  SettingsInv' /\ (edit[o].had # NoFile => backups'[now] = edit[o].had)
<1> USE DEF SettingsInv
<1>1. /\ edit[o].step = "copy" /\ edit' = [edit EXCEPT ![o] = SettingsIdle]
      /\ UNCHANGED <<file, now, wanted, crossed>>
      /\ IF edit[o].had = NoFile THEN UNCHANGED backups ELSE WriteBackup(edit[o].had)
  BY DEF CopyOriginal, Ends
<1>2. SettingsIdle \in EditState /\ EditIsSound(SettingsIdle) /\ SettingsIdle.step = "idle"
  BY DEF SettingsIdle, EditState, EditStep, EditIsSound, MaybeText, Commands
<1>3. EditBecomes(o, SettingsIdle) /\ edit' \in [Operator -> EditState]
  BY <1>1, <1>2, EditMoves
<1>4. /\ backups' \in [0..MaxClock -> MaybeText] /\ BackupsAreBounded'
      /\ \A k \in Copied' : k <= now
      /\ edit[o].had # NoFile => backups'[now] = edit[o].had
  <2>1. CASE edit[o].had = NoFile
    BY <1>1, <2>1 DEF SettingsTypeOK, MaybeText, Copied, BackupsAreBounded
  <2>2. CASE edit[o].had # NoFile
    <3>1. edit[o].had \in Texts /\ WriteBackup(edit[o].had) /\ now \in Nat
      BY <1>1, <2>2, SettingsAssumption DEF SettingsTypeOK
    <3> QED BY <3>1, BackupIsWritten
  <2> QED BY <2>1, <2>2
<1>5. SettingsTypeOK'
  BY <1>1, <1>3, <1>4 DEF SettingsTypeOK, EditState, EditStep, MaybeText
<1>6. ASSUME ~crossed' PROVE EditsInHand'
  <2>1. EditsInHand /\ \A q \in Operator : q # o => edit[q].step = "idle"
    BY <1>1, <1>6, OthersAreIdle
  <2>2. file = wanted /\ \A q \in Operator : edit'[q].step = "idle"
    BY <1>1, <1>2, <1>3, <2>1 DEF EditsInHand, EditBecomes
  <2> QED BY <1>1, <2>1, <2>2 DEF EditsInHand
<1> QED BY <1>1, <1>2, <1>3, <1>4, <1>5, <1>6 DEF EditBecomes

LEMMA SettingsInvStep == SettingsInv /\ [SettingsNext]_settingsVars => SettingsInv'
<1> SUFFICES ASSUME SettingsInv, [SettingsNext]_settingsVars PROVE SettingsInv'
  OBVIOUS
<1>1. CASE SecondPasses
  <2>1. SettingsTypeOK' /\ Copied' = Copied /\ BackupsAreBounded' /\ now' \in Nat
        /\ now' = now + 1 /\ now \in Nat
    BY <1>1, SettingsAssumption
       DEF SecondPasses, SettingsInv, SettingsTypeOK, Copied, BackupsAreBounded
  <2>2. \A k \in Copied : k <= now' /\ k \in Nat
    BY <2>1 DEF SettingsInv, SettingsTypeOK, Copied
  <2> QED BY <1>1, <2>1, <2>2 DEF SettingsInv, SecondPasses, EditsInHand, Copied
<1>2. CASE UNCHANGED settingsVars
  BY <1>2
     DEF settingsVars, SettingsInv, SettingsTypeOK, EditsInHand, Copied,
         BackupsAreBounded
<1>3. ASSUME NEW o \in Operator, SaveConfigFails(o) \/ EditorFails(o) \/ OperatorDies(o)
      PROVE  SettingsInv'
  <2>1. edit[o].step # "idle" /\ Ends(o) /\ SameFile
        /\ crossed' \in BOOLEAN /\ (crossed \/ edit[o].step = "check" => crossed')
    BY <1>3 DEF SaveConfigFails, EditorFails, OperatorDies, SettingsInv, SettingsTypeOK
  <2> QED BY <2>1, EndKeepsSettings
<1>4. ASSUME NEW o \in Operator, NEW value \in Modes, SetConfig(o, "mode", value)
      PROVE  SettingsInv'
  BY <1>4, SetConfigKeepsSettings DEF Modes
<1>5. ASSUME NEW o \in Operator, NEW value \in Commands \ {""}, SetConfig(o, "command", value)
      PROVE  SettingsInv'
  BY <1>5, SetConfigKeepsSettings
<1> QED BY <1>1, <1>2, <1>3, <1>4, <1>5, EnsureConfigKeepsSettings,
           SaveBackupKeepsSettings,
           SaveRenameKeepsSettings, ReadForEditKeepsSettings, EditorSavesKeepsSettings,
           CheckEditKeepsSettings, CopyOriginalKeepsSettings
        DEF SettingsNext

\* What a command is about to replace it has copied.
LEMMA ReplacedIsCopied ==
    ASSUME SettingsInv, SettingsInv', [SettingsNext]_settingsVars, ~crossed', NEW o \in Operator
    PROVE  /\ edit[o].step = "rename" /\ edit'[o].step = "idle" /\ file' # file /\ file # NoFile
                  => file \in {backups[k] : k \in Copied}
           /\ edit[o].step = "copy" /\ edit'[o].step = "idle" /\ edit[o].had # NoFile
                                    /\ backups' # backups
                  => edit[o].had = backups'[now]
<1>1. ~crossed /\ EditsInHand
  <2>1. crossed => crossed'
    BY DEF SettingsNext, settingsVars, SecondPasses, EnsureConfig, SaveBackup,
           SaveRename,
           SaveConfigFails, ReadForEdit, EditorFails, CheckEdit, CopyOriginal, OperatorDies,
           SetConfig, EditorSaves
  <2> QED BY <2>1 DEF SettingsInv
<1>2. edit[o].step = "rename" /\ file # NoFile => file \in {backups[k] : k \in Copied}
  BY <1>1 DEF EditsInHand
<1>3. ASSUME edit[o].step = "copy", edit'[o].step = "idle", edit[o].had # NoFile,
             backups' # backups
      PROVE  edit[o].had = backups'[now]
  <2>1. \A q \in Operator : q # o => edit[q].step = "idle"
    BY <1>1, <1>3, OthersAreIdle
  <2>2. PICK q \in Operator : SaveBackup(q) \/ CopyOriginal(q)
    BY <1>3
       DEF SettingsNext, settingsVars, SecondPasses, EnsureConfig, SaveBackup,
           SaveRename,
                SaveConfigFails, ReadForEdit, EditorFails, CheckEdit, OperatorDies,
                SetConfig, EditorSaves, SameFile
  <2>3. edit[q].step \in {"backup", "create", "copy"}
    BY <2>2 DEF SaveBackup, CopyOriginal
  <2>4. q = o /\ CopyOriginal(o)
    BY <1>3, <2>1, <2>2, <2>3 DEF SaveBackup
  <2> QED BY <1>3, <2>4, CopyOriginalKeepsSettings
<1> QED BY <1>2, <1>3

\* The settings are kept, with any operators, seconds and backups.
LEMMA SettingsAreSafe == SettingsSpec => SettingsAreKept
<1>1. SettingsInv => SettingsTypeOK /\ CommandsAddUp /\ BackupsAreBounded
  BY DEF SettingsInv, CommandsAddUp, EditsInHand
<1>2. SettingsInv /\ SettingsInv' /\ [SettingsNext]_settingsVars =>
          [~crossed' => \A o \in Operator :
             /\ edit[o].step = "rename" /\ edit'[o].step = "idle" /\ file' # file
                                        /\ file # NoFile
                    => file \in {backups[k] : k \in Copied}
             /\ edit[o].step = "copy" /\ edit'[o].step = "idle" /\ edit[o].had # NoFile
                                      /\ backups' # backups
                    => edit[o].had = backups'[now]]_settingsVars
  BY ReplacedIsCopied
<1> QED BY <1>1, <1>2, SettingsInitInv, SettingsInvStep, PTL
        DEF SettingsSpec, SettingsAreKept, ReplacedIsRecoverable

---------------------------------------------------------------------------
(* The run that checks them *)

\* A behaviour of MCParts is one of each component, so what is proved of the
\* components holds in it, for every value of its constants.
LEMMA RunOfEachPart ==
    Spec => /\ MigrationSpec /\ AgentSpec /\ JournalSpec /\ RotatingLogSpec
            /\ SecretSpec /\ WriteBackSpec /\ FeedSpec /\ MarkdownSpec
            /\ AnnotationSpec /\ ScoringSpec /\ SkillSpec /\ SettingsSpec
<1>1. Init => /\ MigrationInit /\ AgentInit /\ JournalInit /\ RotatingLogInit
              /\ SecretInit /\ WriteBackInit /\ FeedInit /\ MarkdownInit
              /\ AnnotationInit /\ ScoringInit /\ SkillInit /\ SettingsInit
  BY DEF Init
<1>2. [Next]_vars => /\ [MigrationNext]_migrationVars /\ [AgentNext]_agentVars
                     /\ [JournalNext]_journalVars /\ [RotatingLogNext]_logVars
                     /\ [SecretNext]_secretVars /\ [WriteBackNext]_writeBackVars
                     /\ [FeedNext]_feedVars /\ [MarkdownNext]_markdownVars
                     /\ [AnnotationNext]_annotationVars /\ [ScoringNext]_scoringVars
                     /\ [SkillNext]_skillVars /\ [SettingsNext]_settingsVars
  <2> SUFFICES ASSUME [Next]_vars
               PROVE  /\ [MigrationNext]_migrationVars /\ [AgentNext]_agentVars
                      /\ [JournalNext]_journalVars /\ [RotatingLogNext]_logVars
                      /\ [SecretNext]_secretVars /\ [WriteBackNext]_writeBackVars
                      /\ [FeedNext]_feedVars /\ [MarkdownNext]_markdownVars
                      /\ [AnnotationNext]_annotationVars /\ [ScoringNext]_scoringVars
                      /\ [SkillNext]_skillVars /\ [SettingsNext]_settingsVars
    OBVIOUS
  <2> USE DEF sourceVars, taskVars, diskVars
  <2>1. CASE OnMarkdown \/ OnFeeds
    BY <2>1 DEF OnMarkdown, OnFeeds, InSources
  <2>2. CASE OnWriteBack
    BY <2>2 DEF OnWriteBack, InSources
  <2>3. CASE OnNotes
    BY <2>3 DEF OnNotes, InTasks
  <2>11. CASE OnScoring
    BY <2>11 DEF OnScoring, InTasks
  <2>4. CASE OnAgent
    BY <2>4 DEF OnAgent, InTasks
  <2>5. CASE OnSkills
    BY <2>5 DEF OnSkills, OnDisk
  <2>12. CASE OnSettings
    BY <2>12 DEF OnSettings, OnDisk
  <2>6. CASE OnSecrets
    BY <2>6 DEF OnSecrets, OnDisk
  <2>7. CASE OnJournal
    BY <2>7 DEF OnJournal, OnDisk
  <2>8. CASE OnLog
    BY <2>8 DEF OnLog, OnDisk
  <2>9. CASE OnMigration
    BY <2>9 DEF OnMigration, OnDisk
  <2>10. CASE UNCHANGED vars
    BY <2>10 DEF vars
  <2> QED BY <2>1, <2>2, <2>3, <2>4, <2>5, <2>6, <2>7, <2>8, <2>9, <2>10, <2>11,
            <2>12 DEF Next
<1> QED BY <1>1, <1>2, PTL
        DEF Spec, MigrationSpec, AgentSpec, JournalSpec, RotatingLogSpec, SecretSpec,
            WriteBackSpec, FeedSpec, MarkdownSpec, AnnotationSpec, ScoringSpec, SkillSpec,
            SettingsSpec

\* Whatever dies, fails or starts again, and however many of each there are: the
\* journal, the log, the schema and the agent's queue go on where they were left.
THEOREM NothingIsLostOnRestart == Spec => []RestartsLoseNothing
BY RunOfEachPart, JournalIsSafe, LogIsSafe, MigrationIsSafe, AgentIsSafe, PTL
   DEF RestartsLoseNothing

\* The stored secrets are the changes that landed, and those are recorded, with
\* any users, backends, passphrases, failures and deaths.
THEOREM SecretsStayKept == Spec => []SecretsAreKept
BY RunOfEachPart, SecretsAreSafe, PTL

\* A call upstream acts on the one task its id names and once per try, with any
\* lists, lost replies and a user in the same account.
THEOREM CallsAlwaysActOnce == Spec => []CallsActOnce
BY RunOfEachPart, WriteBackIsSafe, PTL

\* Nothing a source holds is lost on its way in, with any files, items, edits,
\* pages, cursors, processes and deaths.
THEOREM SourcesAlwaysReportEverything == Spec => []SourcesReportEverything
BY RunOfEachPart, MarkdownInvHolds, InvReports, FeedsAreRead, PTL
   DEF SourcesReportEverything

\* A line of a file is changed only by its user or by the call that names it,
\* whatever two processes do with one file.
THEOREM LinesAlwaysSurvive == Spec => LinesSurvive
BY RunOfEachPart, MarkdownLosesNothing, PTL

\* Who failed says why, a warning is given once, a review is of a run that was
\* reviewed, and no note is lost to a write that did not mean to replace it, with
\* any number of runs and however reaper, dispatcher and reflectors interleave.
THEOREM NotesStayTrue == Spec => NotesAreTrue
BY RunOfEachPart, NotesAreSafe, PTL

\* Every candidate is planned, and by a judgment of itself as it is now, with any
\* candidates, batches, limits and answers, and whatever the cache remembers.
THEOREM EveryoneIsAlwaysJudged == Spec => EveryoneIsJudged
BY RunOfEachPart, ScoringIsSafe, PTL

\* What is installed is what the state file and setup's report say, and what the
\* user edited stays, with any skills, versions and commands that fail or die.
THEOREM SkillsStayKept == Spec => SkillsAreKept
BY RunOfEachPart, SkillsAreSafe, PTL

\* The settings are what the commands asked for, what a command replaced can be
\* read in a backup, and the backups do not pile up, with any commands and deaths.
THEOREM SettingsStayKept == Spec => SettingsAreKept
BY RunOfEachPart, SettingsAreSafe, PTL

\* The texts that the conversions are given stay as they are.
LEMMA InputsStay == [Next]_vars => UNCHANGED formatVars
<1> SUFFICES ASSUME [Next]_vars PROVE UNCHANGED formatVars
  OBVIOUS
<1> USE DEF sourceVars
<1>1. CASE OnMarkdown \/ OnFeeds \/ OnWriteBack
  BY <1>1 DEF OnMarkdown, OnFeeds, OnWriteBack
<1>2. CASE OnNotes \/ OnScoring \/ OnAgent
  BY <1>2 DEF OnNotes, OnScoring, OnAgent, InTasks
<1>3. CASE OnSkills \/ OnSettings \/ OnSecrets \/ OnJournal \/ OnLog \/ OnMigration
  BY <1>3 DEF OnSkills, OnSettings, OnSecrets, OnJournal, OnLog, OnMigration, OnDisk
<1>4. CASE UNCHANGED vars
  BY <1>4 DEF vars
<1> QED BY <1>1, <1>2, <1>3, <1>4 DEF Next

\* The conversions do what their references say: for files and ids up to any
\* bounds, for every pair of the stamps, and for any manifest.
THEOREM ConversionsAreAlwaysRight == Spec => []ConversionsAreRight
<1>1. Init => FormatInputs
  <2>1. FormatsOff => FormatInputs
    <3>1. \A S : <<>> \in Seq(S)
      OBVIOUS
    <3>2. IsStamp(<<>>)
      BY DEF IsStamp
    <3> QED BY <3>1, <3>2 DEF FormatsOff, FormatInputs
  <2> QED BY <2>1, InputsBegin DEF Init
<1>2. FormatInputs /\ [Next]_vars => FormatInputs'
  BY InputsStay DEF formatVars, FormatInputs
<1> QED BY <1>1, <1>2, InputsAreConverted, PTL DEF Spec
==============================================================================
