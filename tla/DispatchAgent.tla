---------------------------- MODULE DispatchAgent ----------------------------
(***************************************************************************)
(* The dispatch agent (internal/cmux/dispatch_agent.go): a cmux workspace   *)
(* whose shell loop runs `marunage dispatch <id>' for every <id>.dispatch   *)
(* file of a queue directory, so that a web server outside cmux can have    *)
(* tasks dispatched by writing a file.  Start reuses the agent whose ref is *)
(* in the ws file when cmux still lists it.  Several servers may share the  *)
(* directory, servers crash, and the agent's workspace can be closed.       *)
(***************************************************************************)
EXTENDS Naturals, FiniteSets

CONSTANTS Server, Agent, Request

NoAgent == "none"

ASSUME AgentAssumption == NoAgent \notin Agent

VARIABLES
    step,      \* step[s]: where server s's Start is
    mine,      \* mine[s]: the agent s created and has still to record
    wsFile,    \* the recorded agent
    agent,     \* agent[a]: "unused", "up" or "closed"
    doing,     \* doing[a]: the request a's loop is dispatching, or NoAgent
    visited,   \* visited[a]: the files a's loop has passed in this round
    queue,     \* the requests whose .dispatch file exists
    asked,     \* asked[r]: "no", "fresh", or asked "during" a dispatch of r
    doubt      \* Starts overlapped, a ref was not recorded, a list failed

agentVars == <<step, mine, wsFile, agent, doing, visited, queue, asked, doubt>>
loopVars == <<doing, visited>>
askVars == <<queue, asked>>

Up == {a \in Agent : agent[a] = "up"}

AgentTypeOK ==
    /\ step \in [Server -> {"idle", "check", "create", "record", "ready"}]
    /\ mine \in [Server -> Agent \cup {NoAgent}] /\ wsFile \in Agent \cup {NoAgent}
    /\ agent \in [Agent -> {"unused", "up", "closed"}]
    /\ doing \in [Agent -> Request \cup {NoAgent}]
    /\ visited \in [Agent -> SUBSET Request] /\ queue \subseteq Request
    /\ asked \in [Request -> {"no", "fresh", "during"}] /\ doubt \in BOOLEAN

AgentInit ==
    /\ step = [s \in Server |-> "idle"] /\ mine = [s \in Server |-> NoAgent]
    /\ wsFile = NoAgent /\ agent = [a \in Agent |-> "unused"]
    /\ doing = [a \in Agent |-> NoAgent] /\ visited = [a \in Agent |-> {}]
    /\ queue = {} /\ asked = [r \in Request |-> "no"] /\ doubt = FALSE

---------------------------------------------------------------------------
\* Start

AgentStart(s) ==
    /\ step[s] \in {"idle", "ready"}
    /\ step' = [step EXCEPT ![s] = "check"]
    /\ doubt' = (doubt \/ \E o \in Server \ {s} : step[o] \in {"check", "create", "record"})
    /\ UNCHANGED <<mine, wsFile, agent, loopVars, askVars>>

\* A list that fails counts as "not alive".
CheckAlive(s) ==
    /\ step[s] = "check"
    /\ \/ /\ step' = [step EXCEPT ![s] = IF wsFile \in Up THEN "ready" ELSE "create"]
          /\ UNCHANGED doubt
       \/ step' = [step EXCEPT ![s] = "create"] /\ doubt' = TRUE
    /\ UNCHANGED <<mine, wsFile, agent, loopVars, askVars>>

NewAgent(s) ==
    /\ step[s] = "create"
    /\ \E a \in Agent :
           /\ agent[a] = "unused"
           /\ agent' = [agent EXCEPT ![a] = "up"] /\ mine' = [mine EXCEPT ![s] = a]
    /\ step' = [step EXCEPT ![s] = "record"]
    /\ UNCHANGED <<wsFile, loopVars, askVars, doubt>>

RecordAgent(s) ==
    /\ step[s] = "record"
    /\ wsFile' = mine[s] /\ mine' = [mine EXCEPT ![s] = NoAgent]
    /\ step' = [step EXCEPT ![s] = "ready"]
    /\ UNCHANGED <<agent, loopVars, askVars, doubt>>

\* Start fails or the server dies; a workspace it made stays unrecorded.
StartStops(s) ==
    /\ step[s] \in {"create", "record"}
    /\ step' = [step EXCEPT ![s] = "idle"] /\ mine' = [mine EXCEPT ![s] = NoAgent]
    /\ doubt' = (doubt \/ step[s] = "record")
    /\ UNCHANGED <<wsFile, agent, loopVars, askVars>>

AgentCloses(a) ==
    /\ a \in Up
    /\ agent' = [agent EXCEPT ![a] = "closed"]
    /\ doing' = [doing EXCEPT ![a] = NoAgent] /\ visited' = [visited EXCEPT ![a] = {}]
    /\ UNCHANGED <<step, mine, wsFile, askVars, doubt>>

---------------------------------------------------------------------------
\* Dispatch and the agent's loop

Enqueue(r) ==
    /\ queue' = queue \cup {r}
    /\ asked' = [asked EXCEPT ![r] = IF \E a \in Agent : doing[a] = r
                                     THEN "during" ELSE "fresh"]
    /\ UNCHANGED <<step, mine, wsFile, agent, loopVars, doubt>>

DispatchFile(a, r) ==
    /\ a \in Up /\ doing[a] = NoAgent /\ r \in queue \ visited[a]
    /\ doing' = [doing EXCEPT ![a] = r]
    /\ visited' = [visited EXCEPT ![a] = @ \cup {r}]
    /\ asked' = [asked EXCEPT ![r] = "no"]
    /\ UNCHANGED <<step, mine, wsFile, agent, queue, doubt>>

\* dispatch "$id" && rm -f "$f": the file of a dispatch that failed stays.
DispatchEnds(a) ==
    /\ a \in Up /\ doing[a] # NoAgent
    /\ queue' \in {queue, queue \ {doing[a]}}
    /\ doing' = [doing EXCEPT ![a] = NoAgent]
    /\ UNCHANGED <<step, mine, wsFile, agent, visited, asked, doubt>>

\* The glob is exhausted: sleep 1 and begin again.
NextRound(a) ==
    /\ a \in Up /\ doing[a] = NoAgent /\ queue \subseteq visited[a]
    /\ visited[a] # {} /\ visited' = [visited EXCEPT ![a] = {}]
    /\ UNCHANGED <<step, mine, wsFile, agent, doing, askVars, doubt>>

AgentRound(a) == (\E r \in Request : DispatchFile(a, r)) \/ DispatchEnds(a) \/ NextRound(a)

AgentNext ==
    \/ \E s \in Server : \/ AgentStart(s) \/ CheckAlive(s) \/ NewAgent(s)
                         \/ RecordAgent(s) \/ StartStops(s)
    \/ \E a \in Agent : AgentCloses(a) \/ AgentRound(a)
    \/ \E r \in Request : Enqueue(r)

AgentSpec == AgentInit /\ [][AgentNext]_agentVars

---------------------------------------------------------------------------

\* Servers that start one after the other share one agent, however often they
\* restart, and the ws file names it; a second agent needs an overlap of two
\* Starts, a list that failed, or a Start that died before it recorded.
OneAgentIsShared ==
    ~doubt => Up \subseteq {wsFile} \cup {mine[s] : s \in Server}
              /\ Cardinality(Up) <= 1

\* A request is gone from the queue only when a dispatch of it began after it
\* was made, unless it was made while one was running already.
RequestIsKept == \A r \in Request : asked[r] = "fresh" => r \in queue
=============================================================================
