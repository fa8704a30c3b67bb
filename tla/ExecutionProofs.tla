--------------------------- MODULE ExecutionProofs ---------------------------
(***************************************************************************)
(* The executor backends, the web server and the dispatcher's list, for any *)
(* number of panes, mishaps, browsers, events and rows.  MCExecution runs   *)
(* them one at a time; each alone is already enough for its invariant.      *)
(***************************************************************************)
EXTENDS MCExecution, FiniteSetTheorems, SequenceTheorems, WellFoundedInduction, TLAPS

---------------------------------------------------------------------------
(* Backends *)

\* What an executor call in progress says of the row and of the pane in hand.
CallIsOnRow ==
    /\ cur = NULL <=> pc \in {"idle", "create"}
    /\ pc \in {"create", "launch", "close", "wait"} => row = "pending"
    /\ pc \in {"type", "fallback", "enter", "await"} => row = "running" /\ cur = ws
    /\ row = "pending" <=> ws = NULL
    /\ pc \in {"launch", "close"} => backend = "herdr"
    /\ pc = "fallback" => backend = "cmux"
    /\ pc = "enter" => backend # "local"
    /\ backend = "local" => mishaps = 0
    /\ awaited # "none" => row # "pending"

\* How far the prompt has come, at each step of Send.
PromptIsOnWay ==
    /\ \A p \in Pane : typed[p] + submitted[p] > 0 => p = ws
    /\ pc = "type" => typed[ws] = 0 /\ submitted[ws] = 0
    /\ pc = "fallback" =>
           submitted[ws] = 0 /\ (typed[ws] = 0 \/ (typed[ws] = 1 /\ mishaps > 0))
    /\ pc = "enter" => typed[ws] = 1 /\ submitted[ws] = 0
    /\ row = "running" /\ backend # "local" => pane[ws] \in {"booted", "gone"}

\* The pane that Start or the row knows of.
InHand == IF row = "pending" THEN cur ELSE ws

\* Which panes may be there besides the known one, by backend and mishaps.
PanesAreKnown ==
    /\ mishaps = 0 => \A p \in Pane : pane[p] \in Live => p = InHand
    /\ backend = "tmux" =>
           \A p, q \in Pane : pane[p] \in Live /\ pane[q] \in Live => p = q
    /\ backend = "herdr" /\ mishaps <= 1 =>
           /\ \A p \in Claudes : p = InHand
           /\ pc = "launch" => pane[cur] \in {"shell", "gone"}
           /\ pc = "close" /\ mishaps = 0 => pane[cur] \in {"shell", "gone"}

BackendInv == AnswersAreTrue /\ CallIsOnRow /\ PromptIsOnWay /\ PanesAreKnown

\* While a pane is unused, Create takes such a one.
LEMMA FreshIsUnused == SomeFresh => Fresh \in Pane /\ pane[Fresh] = "unused"
BY DEF SomeFresh, Fresh

\* A process that has called nothing has nothing to answer for.
LEMMA BackendInitInv == BackendInit => BackendInv
<1> SUFFICES ASSUME BackendInit PROVE BackendInv
  OBVIOUS
<1> USE MishapAssumption DEF BackendInit
<1>1. BackendTypeOK
  <2>1. exited \in [Pane -> BOOLEAN] /\ wired \in BOOLEAN /\ late \in BOOLEAN
    BY Zenon
  <2>2. pane \in [Pane -> Live \cup {"unused", "gone"}] /\ missed \subseteq Pane
    OBVIOUS
  <2> QED BY <2>1, <2>2 DEF BackendTypeOK, Names, Calls
<1>2. CallIsOnRow /\ PromptIsOnWay
  BY DEF CallIsOnRow, PromptIsOnWay
<1>3. PanesAreKnown
  BY DEF PanesAreKnown, Live, Claudes
<1>4. PromptNeedsClaude /\ RunningWasPrompted /\ AwaitIsHonest /\ ListIsComplete
  BY DEF PromptNeedsClaude, RunningWasPrompted, AwaitIsHonest, ListIsComplete
<1> QED BY <1>1, <1>2, <1>3, <1>4 DEF BackendInv, AnswersAreTrue

\* Every step writes values of the right kind.
LEMMA BackendTyped == BackendInv /\ [BackendNext]_backendVars => BackendTypeOK'
<1> SUFFICES ASSUME BackendInv, [BackendNext]_backendVars PROVE BackendTypeOK'
  OBVIOUS
<1> USE MishapAssumption
    DEF BackendInv, AnswersAreTrue, BackendTypeOK, CallIsOnRow,
        PromptIsOnWay, Live, Names, Calls, promptVars,
        awaitVars, Mishap, FailWith, Retryable
<1>1. CASE StartCall
  BY <1>1 DEF StartCall
<1>2. CASE Create
  BY <1>2, FreshIsUnused DEF Create, Created
<1>3. CASE CreateFails
  BY <1>3 DEF CreateFails
<1>4. CASE CreateIsLost
  BY <1>4, FreshIsUnused DEF CreateIsLost, Created
<1>5. CASE Launch
  BY <1>5 DEF Launch
<1>6. CASE CloseWorkspace
  BY <1>6 DEF CloseWorkspace
<1>7. CASE WaitReady
  BY <1>7 DEF WaitReady
<1>8. CASE StartupTimeout \/ WaitFails
  BY <1>8 DEF StartupTimeout, WaitFails
<1>9. CASE SendText
  BY <1>9 DEF SendText
<1>10. CASE SendTextFails
  BY <1>10 DEF SendTextFails
<1>11. CASE Fallback
  BY <1>11 DEF Fallback, LastRun, Submits, SendIsDone
<1>12. CASE SendEnter
  BY <1>12 DEF SendEnter, LastRun, Submits, SendIsDone
<1>13. CASE Await \/ AwaitReturns
  BY <1>13 DEF Await, AwaitReturns
<1>14. CASE AwaitCancelled
  BY <1>14 DEF AwaitCancelled
<1>15. CASE ListSessions \/ ListFails \/ ListIsGarbled
  BY <1>15 DEF ListSessions, ListFails, ListIsGarbled, Lists
<1>16. CASE DeadlinePasses
  BY <1>16 DEF DeadlinePasses
<1>17. ASSUME NEW p \in Pane, ClaudeBoots(p) \/ PaneVanishes(p) \/ ClaudeExits(p)
       PROVE  BackendTypeOK'
  <2>1. CASE ClaudeBoots(p)
    BY <2>1 DEF ClaudeBoots
  <2>2. CASE PaneVanishes(p)
    BY <2>2 DEF PaneVanishes
  <2>3. CASE ClaudeExits(p)
    BY <2>3 DEF ClaudeExits
  <2> QED BY <1>17, <2>1, <2>2, <2>3
<1>18. CASE UNCHANGED backendVars
  BY <1>18 DEF backendVars
<1> QED BY <1>1, <1>2, <1>3, <1>4, <1>5, <1>6, <1>7, <1>8, <1>9, <1>10, <1>11, <1>12,
           <1>13, <1>14, <1>15, <1>16, <1>17, <1>18 DEF BackendNext, StartStep, SendStep

\* Each call goes on with the pane its row knows, and returns to idle.
LEMMA CallStaysOnRow ==
    BackendInv /\ BackendTypeOK' /\ [BackendNext]_backendVars => CallIsOnRow'
<1> SUFFICES ASSUME BackendInv, BackendTypeOK', [BackendNext]_backendVars
             PROVE  CallIsOnRow'
  OBVIOUS
<1> USE MishapAssumption
        DEF BackendInv, AnswersAreTrue, BackendTypeOK, CallIsOnRow,
            Live, Names, Calls, promptVars,
            awaitVars, Mishap, FailWith, Retryable
<1>1. CASE StartCall
  BY <1>1 DEF StartCall
<1>2. CASE Create
  BY <1>2, FreshIsUnused DEF Create, Created
<1>3. CASE CreateFails
  BY <1>3 DEF CreateFails
<1>4. CASE CreateIsLost
  BY <1>4, FreshIsUnused DEF CreateIsLost, Created
<1>5. CASE Launch
  BY <1>5 DEF Launch
<1>6. CASE CloseWorkspace
  BY <1>6 DEF CloseWorkspace
<1>7. CASE WaitReady
  BY <1>7 DEF WaitReady, ShowsReady
<1>8. CASE StartupTimeout
  BY <1>8 DEF StartupTimeout
<1>9. CASE WaitFails
  BY <1>9 DEF WaitFails
<1>10. CASE SendText
  BY <1>10 DEF SendText
<1>11. CASE SendTextFails
  BY <1>11 DEF SendTextFails
<1>12. CASE Fallback
  BY <1>12 DEF Fallback, LastRun, Submits, SendIsDone
<1>13. CASE SendEnter
  BY <1>13 DEF SendEnter, LastRun, Submits, SendIsDone
<1>14. CASE Await
  BY <1>14 DEF Await
<1>15. CASE AwaitReturns
  BY <1>15 DEF AwaitReturns, HasCode
<1>16. CASE AwaitCancelled
  BY <1>16 DEF AwaitCancelled
<1>17. CASE ListSessions
  BY <1>17 DEF ListSessions, Lists
<1>18. CASE ListFails \/ ListIsGarbled
  BY <1>18 DEF ListFails, ListIsGarbled, Lists
<1>19. CASE DeadlinePasses
  BY <1>19 DEF DeadlinePasses
<1>20. ASSUME NEW p \in Pane, ClaudeBoots(p) PROVE CallIsOnRow'
  BY <1>20 DEF ClaudeBoots
<1>21. ASSUME NEW p \in Pane, PaneVanishes(p) PROVE CallIsOnRow'
  BY <1>21 DEF PaneVanishes
<1>22. ASSUME NEW p \in Pane, ClaudeExits(p) PROVE CallIsOnRow'
  BY <1>22 DEF ClaudeExits
<1>23. CASE UNCHANGED backendVars
  BY <1>23 DEF backendVars
<1> QED BY <1>1, <1>2, <1>3, <1>4, <1>5, <1>6, <1>7, <1>8, <1>9, <1>10, <1>11, <1>12,
           <1>13, <1>14, <1>15, <1>16, <1>17, <1>18, <1>19, <1>20, <1>21, <1>22, <1>23
           DEF BackendNext, StartStep, SendStep

\* The prompt is in one pane only and moves from typed to submitted.
LEMMA PromptStaysOnWay ==
    BackendInv /\ BackendTypeOK' /\ [BackendNext]_backendVars => PromptIsOnWay'
<1> SUFFICES ASSUME BackendInv, BackendTypeOK', [BackendNext]_backendVars
             PROVE  PromptIsOnWay'
  OBVIOUS
<1> USE MishapAssumption
        DEF BackendInv, AnswersAreTrue, BackendTypeOK, CallIsOnRow,
            Live, Names, Calls, promptVars,
            awaitVars, Mishap, FailWith, Retryable, PromptIsOnWay
<1>1. CASE StartCall
  BY <1>1 DEF StartCall
<1>2. CASE Create
  BY <1>2, FreshIsUnused DEF Create, Created
<1>3. CASE CreateFails
  BY <1>3 DEF CreateFails
<1>4. CASE CreateIsLost
  BY <1>4, FreshIsUnused DEF CreateIsLost, Created
<1>5. CASE Launch
  BY <1>5 DEF Launch
<1>6. CASE CloseWorkspace
  BY <1>6 DEF CloseWorkspace
<1>7. CASE WaitReady
  BY <1>7 DEF WaitReady, ShowsReady
<1>8. CASE StartupTimeout
  BY <1>8 DEF StartupTimeout
<1>9. CASE WaitFails
  BY <1>9 DEF WaitFails
<1>10. CASE SendText
  BY <1>10 DEF SendText
<1>11. CASE SendTextFails
  BY <1>11 DEF SendTextFails
<1>12. CASE Fallback
  BY <1>12 DEF Fallback, LastRun, Submits, SendIsDone
<1>13. CASE SendEnter
  BY <1>13 DEF SendEnter, LastRun, Submits, SendIsDone
<1>14. CASE Await
  BY <1>14 DEF Await
<1>15. CASE AwaitReturns
  BY <1>15 DEF AwaitReturns, HasCode
<1>16. CASE AwaitCancelled
  BY <1>16 DEF AwaitCancelled
<1>17. CASE ListSessions
  BY <1>17 DEF ListSessions, Lists
<1>18. CASE ListFails \/ ListIsGarbled
  BY <1>18 DEF ListFails, ListIsGarbled, Lists
<1>19. CASE DeadlinePasses
  BY <1>19 DEF DeadlinePasses
<1>20. ASSUME NEW p \in Pane, ClaudeBoots(p) PROVE PromptIsOnWay'
  BY <1>20 DEF ClaudeBoots
<1>21. ASSUME NEW p \in Pane, PaneVanishes(p) PROVE PromptIsOnWay'
  BY <1>21 DEF PaneVanishes
<1>22. ASSUME NEW p \in Pane, ClaudeExits(p) PROVE PromptIsOnWay'
  BY <1>22 DEF ClaudeExits
<1>23. CASE UNCHANGED backendVars
  BY <1>23 DEF backendVars
<1> QED BY <1>1, <1>2, <1>3, <1>4, <1>5, <1>6, <1>7, <1>8, <1>9, <1>10, <1>11, <1>12,
           <1>13, <1>14, <1>15, <1>16, <1>17, <1>18, <1>19, <1>20, <1>21, <1>22, <1>23
           DEF BackendNext, StartStep, SendStep

\* A pane is created, and forgotten, only in the ways PanesAreKnown allows.
LEMMA PanesStayKnown ==
    BackendInv /\ BackendTypeOK' /\ [BackendNext]_backendVars => PanesAreKnown'
<1> SUFFICES ASSUME BackendInv, BackendTypeOK', [BackendNext]_backendVars
             PROVE  PanesAreKnown'
  OBVIOUS
<1> USE MishapAssumption
        DEF BackendInv, AnswersAreTrue, BackendTypeOK, CallIsOnRow,
            Live, Names, Calls, promptVars,
            awaitVars, Mishap, FailWith, Retryable
<1>1. CASE StartCall
  BY <1>1 DEF StartCall, PanesAreKnown, Claudes, InHand
<1>2. CASE Create
  <2>1. Fresh \in Pane /\ pane[Fresh] = "unused" /\ cur' = Fresh
    BY <1>2, FreshIsUnused DEF Create
  <2>2. pc = "create" /\ cur = NULL /\ row = "pending" /\ NULL \notin Pane
    BY <1>2 DEF Create
  <2>3. \A p \in Pane : p # Fresh => pane'[p] = pane[p]
    BY <1>2, <2>1 DEF Create, Created
  <2>4. backend = "herdr" => pane'[Fresh] = "shell" /\ pc' = "launch"
    BY <1>2, <2>1 DEF Create, Created
  <2>5. UNCHANGED <<backend, mishaps>>
    BY <1>2 DEF Create
  <2>6. InHand' = Fresh
    BY <1>2, <2>1, <2>2 DEF Create, InHand
  <2>7. mishaps' = 0 => \A p \in Pane : pane'[p] \in Live => p = InHand'
    <3>1. mishaps = 0 => \A p \in Pane : pane[p] \notin Live
      BY <2>2 DEF PanesAreKnown, InHand
    <3> QED BY <2>3, <2>5, <2>6, <3>1
  <2>8. backend' = "tmux" =>
            \A p, q \in Pane : pane'[p] \in Live /\ pane'[q] \in Live => p = q
    BY <1>2, <2>3, <2>5 DEF Create, NameIsFree
  <2>9. backend' = "herdr" /\ mishaps' <= 1 =>
            /\ \A p \in Claudes' : p = InHand'
            /\ pane'[cur'] = "shell" /\ pc' = "launch"
    <3>1. backend = "herdr" /\ mishaps <= 1 => Claudes = {}
      BY <2>2 DEF PanesAreKnown, InHand, Claudes
    <3> QED BY <2>1, <2>3, <2>4, <2>5, <3>1 DEF Claudes
  <2> QED BY <2>7, <2>8, <2>9 DEF PanesAreKnown
<1>3. CASE CreateFails
  BY <1>3 DEF CreateFails, PanesAreKnown, Claudes, InHand
<1>4. CASE CreateIsLost
  <2>1. Fresh \in Pane /\ pane[Fresh] = "unused"
    BY <1>4, FreshIsUnused DEF CreateIsLost
  <2>2. pc' = "idle" /\ UNCHANGED <<backend, row, ws>> /\ mishaps' = mishaps + 1
    BY <1>4 DEF CreateIsLost
  <2>3. \A p \in Pane : p # Fresh => pane'[p] = pane[p]
    BY <1>4, <2>1 DEF CreateIsLost, Created
  <2>4. backend = "tmux" =>
            \A p, q \in Pane : pane'[p] \in Live /\ pane'[q] \in Live => p = q
    BY <1>4, <2>3 DEF CreateIsLost, NameIsFree
  <2>5. backend = "herdr" => pane'[Fresh] = "shell"
    BY <1>4, <2>1 DEF CreateIsLost, Created
  <2>6. InHand' = InHand
    BY <1>4 DEF CreateIsLost, InHand
  <2>7. backend = "herdr" => Claudes' \subseteq Claudes
    BY <2>3, <2>5 DEF Claudes
  <2>8. mishaps \in Nat /\ mishaps' # 0 /\ (mishaps' <= 1 => mishaps <= 1)
    BY <2>2
  <2> QED BY <2>2, <2>4, <2>6, <2>7, <2>8 DEF PanesAreKnown
<1>5. CASE Launch
  BY <1>5 DEF Launch, PanesAreKnown, Claudes, InHand
<1>6. CASE CloseWorkspace
  BY <1>6 DEF CloseWorkspace, PanesAreKnown, Claudes, InHand
<1>7. CASE WaitReady
  BY <1>7 DEF WaitReady, ShowsReady, PanesAreKnown, Claudes, InHand
<1>8. CASE StartupTimeout
  BY <1>8 DEF StartupTimeout, PanesAreKnown, Claudes, InHand
<1>9. CASE WaitFails
  BY <1>9 DEF WaitFails, PanesAreKnown, Claudes, InHand
<1>10. CASE SendText
  BY <1>10 DEF SendText, PanesAreKnown, Claudes, InHand
<1>11. CASE SendTextFails
  BY <1>11 DEF SendTextFails, PanesAreKnown, Claudes, InHand
<1>12. CASE Fallback
  BY <1>12 DEF Fallback, LastRun, Submits, SendIsDone, PanesAreKnown, Claudes, InHand
<1>13. CASE SendEnter
  BY <1>13 DEF SendEnter, LastRun, Submits, SendIsDone, PanesAreKnown, Claudes, InHand
<1>14. CASE Await
  BY <1>14 DEF Await, PanesAreKnown, Claudes, InHand
<1>15. CASE AwaitReturns
  BY <1>15 DEF AwaitReturns, HasCode, PanesAreKnown, Claudes, InHand
<1>16. CASE AwaitCancelled
  BY <1>16 DEF AwaitCancelled, PanesAreKnown, Claudes, InHand
<1>17. CASE ListSessions
  BY <1>17 DEF ListSessions, Lists, PanesAreKnown, Claudes, InHand
<1>18. CASE ListFails \/ ListIsGarbled
  BY <1>18 DEF ListFails, ListIsGarbled, Lists, PanesAreKnown, Claudes, InHand
<1>19. CASE DeadlinePasses
  BY <1>19 DEF DeadlinePasses, PanesAreKnown, Claudes, InHand
<1>20. ASSUME NEW p \in Pane, ClaudeBoots(p) PROVE PanesAreKnown'
  BY <1>20 DEF ClaudeBoots, PanesAreKnown, Claudes, InHand
<1>21. ASSUME NEW p \in Pane, PaneVanishes(p) PROVE PanesAreKnown'
  BY <1>21 DEF PaneVanishes, PanesAreKnown, Claudes, InHand
<1>22. ASSUME NEW p \in Pane, ClaudeExits(p) PROVE PanesAreKnown'
  BY <1>22 DEF ClaudeExits, PanesAreKnown, Claudes, InHand
<1>23. CASE UNCHANGED backendVars
  BY <1>23 DEF backendVars, PanesAreKnown, Claudes, InHand
<1> QED BY <1>1, <1>2, <1>3, <1>4, <1>5, <1>6, <1>7, <1>8, <1>9, <1>10, <1>11, <1>12,
           <1>13, <1>14, <1>15, <1>16, <1>17, <1>18, <1>19, <1>20, <1>21, <1>22, <1>23
           DEF BackendNext, StartStep, SendStep

\* An answer that was so stays so: panes do not come back, rows keep their ws.
LEMMA AnswersStayTrue ==
    BackendInv /\ BackendTypeOK' /\ [BackendNext]_backendVars => AnswersAreTrue'
<1> SUFFICES ASSUME BackendInv, BackendTypeOK', [BackendNext]_backendVars
             PROVE  AnswersAreTrue'
  OBVIOUS
<1> USE MishapAssumption
        DEF BackendInv, AnswersAreTrue, BackendTypeOK, CallIsOnRow,
            Live, Names, Calls, promptVars,
            awaitVars, Mishap, FailWith, Retryable, PromptIsOnWay, PromptNeedsClaude,
            RunningWasPrompted, AwaitIsHonest, ListIsComplete
<1>1. CASE StartCall
  BY <1>1 DEF StartCall
<1>2. CASE Create
  BY <1>2, FreshIsUnused DEF Create, Created
<1>3. CASE CreateFails
  BY <1>3 DEF CreateFails
<1>4. CASE CreateIsLost
  BY <1>4, FreshIsUnused DEF CreateIsLost, Created
<1>5. CASE Launch
  BY <1>5 DEF Launch
<1>6. CASE CloseWorkspace
  BY <1>6 DEF CloseWorkspace
<1>7. CASE WaitReady
  BY <1>7 DEF WaitReady, ShowsReady
<1>8. CASE StartupTimeout
  BY <1>8 DEF StartupTimeout
<1>9. CASE WaitFails
  BY <1>9 DEF WaitFails
<1>10. CASE SendText
  BY <1>10 DEF SendText
<1>11. CASE SendTextFails
  BY <1>11 DEF SendTextFails
<1>12. CASE Fallback
  BY <1>12 DEF Fallback, LastRun, Submits, SendIsDone
<1>13. CASE SendEnter
  BY <1>13 DEF SendEnter, LastRun, Submits, SendIsDone
<1>14. CASE Await
  BY <1>14 DEF Await
<1>15. CASE AwaitReturns
  BY <1>15 DEF AwaitReturns, HasCode
<1>16. CASE AwaitCancelled
  BY <1>16 DEF AwaitCancelled
<1>17. CASE ListSessions
  BY <1>17 DEF ListSessions, Lists
<1>18. CASE ListFails \/ ListIsGarbled
  BY <1>18 DEF ListFails, ListIsGarbled, Lists
<1>19. CASE DeadlinePasses
  BY <1>19 DEF DeadlinePasses
<1>20. ASSUME NEW p \in Pane, ClaudeBoots(p) PROVE AnswersAreTrue'
  BY <1>20 DEF ClaudeBoots
<1>21. ASSUME NEW p \in Pane, PaneVanishes(p) PROVE AnswersAreTrue'
  BY <1>21 DEF PaneVanishes
<1>22. ASSUME NEW p \in Pane, ClaudeExits(p) PROVE AnswersAreTrue'
  BY <1>22 DEF ClaudeExits
<1>23. CASE UNCHANGED backendVars
  BY <1>23 DEF backendVars
<1> QED BY <1>1, <1>2, <1>3, <1>4, <1>5, <1>6, <1>7, <1>8, <1>9, <1>10, <1>11, <1>12,
           <1>13, <1>14, <1>15, <1>16, <1>17, <1>18, <1>19, <1>20, <1>21, <1>22, <1>23
           DEF BackendNext, StartStep, SendStep
\* The invariant of the backends is inductive.
LEMMA BackendInvStep == BackendInv /\ [BackendNext]_backendVars => BackendInv'
BY BackendTyped, CallStaysOnRow, PromptStaysOnWay, PanesStayKnown, AnswersStayTrue
   DEF BackendInv

\* A set whose members are all equal has at most one.
LEMMA AllEqualIsOne ==
    ASSUME NEW S, \A p, q \in S : p = q
    PROVE  IsFiniteSet(S) /\ Cardinality(S) <= 1
<1>1. CASE S = {}
  BY <1>1, FS_EmptySet
<1>2. CASE S # {}
  <2>1. PICK p \in S : S = {p}
    BY <1>2
  <2>2. IsFiniteSet({p}) /\ Cardinality({p}) = 1
    BY FS_Singleton
  <2> QED BY <2>1, <2>2
<1> QED BY <1>1, <1>2

\* Panes that are all the known one are one.
LEMMA KnownPanesAreOne == BackendInv => OneClaudePerRow
<1> SUFFICES ASSUME BackendInv PROVE OneClaudePerRow
  OBVIOUS
<1> USE DEF BackendInv, AnswersAreTrue, BackendTypeOK, CallIsOnRow
<1>1. mishaps = 0 /\ pc = "idle" => \A p \in Pane : pane[p] \in Live => p = ws
  BY DEF PanesAreKnown, InHand
<1>2. ASSUME ~(backend = "cmux" /\ mishaps >= 1), ~(backend = "herdr" /\ mishaps >= 2)
      PROVE  ~(Cardinality(Claudes) > 1)
  <2>1. mishaps = 0 \/ backend = "tmux" \/ (backend = "herdr" /\ mishaps <= 1)
    BY <1>2, MishapAssumption DEF Names
  <2>2. \A p, q \in Claudes : p = q
    BY <2>1 DEF PanesAreKnown, Claudes, Live
  <2>3. IsFiniteSet(Claudes) /\ Cardinality(Claudes) <= 1
    BY <2>2, AllEqualIsOne
  <2>4. Cardinality(Claudes) \in Nat
    BY <2>3, FS_CardinalityType
  <2> QED BY <2>3, <2>4
<1> QED BY <1>1, <1>2 DEF OneClaudePerRow

\* However often Start is retried and whatever a command line did and did not
\* report, a row has one Claude but for the two cases OneClaudePerRow names; and
\* what a call answers is so.  For every number of panes and of mishaps.
LEMMA BackendsAreTrue == BackendSpec => [](OneClaudePerRow /\ AnswersAreTrue)
<1>1. BackendInv => AnswersAreTrue
  BY DEF BackendInv
<1> QED BY <1>1, BackendInitInv, BackendInvStep, KnownPanesAreOne, PTL DEF BackendSpec

---------------------------------------------------------------------------
(* The contract of exec.Executor *)

\* A pane that somebody knows of was created, an exit code is of a pane that was
\* prompted, and of a process that is over, and AwaitExit is the last call.
CallsAreInOrder ==
    /\ cur # NULL => pane[cur] # "unused"
    /\ ws # NULL => pane[ws] # "unused"
    /\ \A p \in Pane : exited[p] =>
           /\ submitted[p] > 0 /\ pane[p] \in {"booted", "gone"}
           /\ backend = "local" => pane[p] = "gone"
    /\ pc # "idle" => awaited = "none"

ContractInv == BackendInv /\ CallsAreInOrder

LEMMA CallsStayInOrder ==
    BackendInv /\ CallsAreInOrder /\ [BackendNext]_backendVars => CallsAreInOrder'
<1> SUFFICES ASSUME BackendInv, CallsAreInOrder, [BackendNext]_backendVars
             PROVE  CallsAreInOrder'
  OBVIOUS
<1> USE MishapAssumption
        DEF BackendInv, AnswersAreTrue, BackendTypeOK, CallIsOnRow, CallsAreInOrder,
            Live, promptVars, awaitVars, FailWith, Retryable
<1>1. CASE StartCall \/ CreateFails
  BY <1>1 DEF StartCall, CreateFails
<1>2. CASE Create
  BY <1>2, FreshIsUnused DEF Create, Created
<1>3. CASE CreateIsLost
  BY <1>3, FreshIsUnused DEF CreateIsLost, Created
<1>4. CASE Launch
  BY <1>4 DEF Launch
<1>5. CASE CloseWorkspace
  BY <1>5 DEF CloseWorkspace
<1>6. CASE WaitReady \/ StartupTimeout \/ WaitFails
  BY <1>6 DEF WaitReady, StartupTimeout, WaitFails
<1>7. CASE SendText
  BY <1>7 DEF SendText
<1>8. CASE SendTextFails
  BY <1>8 DEF SendTextFails
<1>9. CASE Fallback \/ SendEnter
  BY <1>9 DEF Fallback, SendEnter, LastRun, Submits, SendIsDone
<1>10. CASE Await \/ AwaitReturns
  BY <1>10 DEF Await, AwaitReturns, HasCode
<1>11. CASE AwaitCancelled
  BY <1>11 DEF AwaitCancelled
<1>12. CASE ListSessions \/ ListFails \/ ListIsGarbled \/ DeadlinePasses
  BY <1>12 DEF ListSessions, ListFails, ListIsGarbled, Lists, DeadlinePasses
<1>13. ASSUME NEW p \in Pane, ClaudeBoots(p) \/ PaneVanishes(p) PROVE CallsAreInOrder'
  BY <1>13 DEF ClaudeBoots, PaneVanishes
<1>14. ASSUME NEW p \in Pane, ClaudeExits(p) PROVE CallsAreInOrder'
  BY <1>14 DEF ClaudeExits
<1>15. CASE UNCHANGED backendVars
  BY <1>15 DEF backendVars
<1> QED BY <1>1, <1>2, <1>3, <1>4, <1>5, <1>6, <1>7, <1>8, <1>9, <1>10, <1>11, <1>12,
           <1>13, <1>14, <1>15 DEF BackendNext, StartStep, SendStep

\* One session changes, or none does.
LEMMA OneSessionChanges ==
    ASSUME NEW p \in Pane, NEW st, SessionOf(p)' = st,
           \A q \in Pane \ {p} : SessionOf(q)' = SessionOf(q)
    PROVE  Sessions' = [Sessions EXCEPT ![p] = st]
BY DEF Sessions

LEMMA NoSessionChanges ==
    ASSUME \A q \in Pane : SessionOf(q)' = SessionOf(q)
    PROVE  Sessions' = Sessions
BY DEF Sessions

\* Start: what it creates is waited for, returned, given up or lost.
LEMMA StartKeepsContract ==
    ASSUME ContractInv, BackendTypeOK', StartStep
    PROVE  [Contract!Next]_Contract!vars
<1> USE MishapAssumption
        DEF ContractInv, BackendInv, AnswersAreTrue, BackendTypeOK, CallIsOnRow,
            CallsAreInOrder, PromptIsOnWay, Live, promptVars, awaitVars, Mishap,
            FailWith, Retryable
<1>1. \A q \in Pane : Sessions[q] = SessionOf(q)
  BY DEF Sessions
<1>2. row = "pending" => \A q \in Pane : submitted[q] = 0 /\ ~(q = ws)
  OBVIOUS
<1>3. \A q \in Pane : Sessions[q] = "starting" => q = cur
  BY <1>1 DEF SessionOf
<1>4. row = "pending"
  BY DEF StartStep, Create, CreateFails, CreateIsLost, Launch, CloseWorkspace,
         WaitReady, StartupTimeout, WaitFails
<1>5. cur \in Pane => Sessions[cur] = IF pane[cur] \in Live THEN "starting" ELSE "gone"
  BY <1>1, <1>2, <1>4 DEF SessionOf
<1>6. CASE Create
  <2> PICK p \in Pane : p = Fresh
    BY <1>6, FreshIsUnused DEF Create, CreateIsLost
  <2>1. /\ pane[p] = "unused" /\ cur = NULL /\ cur' = p
        /\ pane'[p] \in Live /\ \A q \in Pane \ {p} : pane'[q] = pane[q]
    BY <1>6, FreshIsUnused DEF Create, Created
  <2>2. UNCHANGED <<exited, submitted, awaited, mishaps>>
    BY <1>6 DEF Create
  <2>3. Sessions[p] = "unused" /\ Contract!OnlyStarting(p)
    BY <1>1, <1>3, <2>1 DEF SessionOf, Contract!OnlyStarting
  <2>4. CASE backend = "local"
    <3>1. row' = "running" /\ ws' = p
      BY <1>6, <2>4 DEF Create
    <3>2. SessionOf(p)' = "ready"
      BY <1>2, <1>4, <2>1, <2>2, <3>1 DEF SessionOf
    <3>3. \A q \in Pane \ {p} : SessionOf(q)' = SessionOf(q)
      BY <1>2, <1>4, <2>1, <2>2, <3>1 DEF SessionOf
    <3>4. Sessions' = [Sessions EXCEPT ![p] = "ready"]
      BY <3>2, <3>3, OneSessionChanges
    <3>5. Contract!StartIsReady(p)
      BY <1>4, <2>2, <2>3, <3>1, <3>4 DEF Contract!StartIsReady, Contract!Becomes, Answer
    <3> QED BY <2>1, <3>5 DEF Contract!Next
  <2>5. CASE backend # "local"
    <3>1. UNCHANGED <<row, ws>>
      BY <1>6, <2>5 DEF Create
    <3>2. SessionOf(p)' = "starting"
      BY <1>2, <1>4, <2>1, <2>2, <3>1 DEF SessionOf
    <3>3. \A q \in Pane \ {p} : SessionOf(q)' = SessionOf(q)
      BY <1>2, <1>4, <2>1, <2>2, <3>1 DEF SessionOf
    <3>4. Sessions' = [Sessions EXCEPT ![p] = "starting"]
      BY <3>2, <3>3, OneSessionChanges
    <3>5. Contract!Begin(p)
      BY <1>4, <2>2, <2>3, <3>1, <3>4 DEF Contract!Begin, Contract!Becomes, Answer
    <3> QED BY <2>1, <3>5 DEF Contract!Next
  <2> QED BY <2>4, <2>5
<1>7. CASE CreateFails
  <2>1. UNCHANGED <<pane, exited, submitted, row, ws, cur, awaited, mishaps>>
    BY <1>7 DEF CreateFails
  <2>2. Sessions' = Sessions
    BY <2>1, NoSessionChanges DEF SessionOf
  <2> QED BY <2>1, <2>2 DEF Contract!vars, Answer
<1>8. CASE CreateIsLost
  <2> PICK p \in Pane : p = Fresh
    BY <1>8, FreshIsUnused DEF Create, CreateIsLost
  <2>1. /\ pane[p] = "unused" /\ cur = NULL /\ cur' = NULL
        /\ pane'[p] \in Live /\ \A q \in Pane \ {p} : pane'[q] = pane[q]
    BY <1>8, FreshIsUnused DEF CreateIsLost, Created
  <2>2. UNCHANGED <<exited, submitted, row, ws, awaited>> /\ mishaps' > 0
    BY <1>8 DEF CreateIsLost
  <2>3. Sessions[p] = "unused"
    BY <1>1, <2>1 DEF SessionOf
  <2>4. SessionOf(p)' = "orphan"
    BY <1>2, <1>4, <2>1, <2>2 DEF SessionOf
  <2>5. \A q \in Pane \ {p} : SessionOf(q)' = SessionOf(q)
    BY <2>1, <2>2 DEF SessionOf
  <2>6. Sessions' = [Sessions EXCEPT ![p] = "orphan"]
    BY <2>4, <2>5, OneSessionChanges
  <2>7. Contract!StartLoses(p)
    BY <1>4, <2>2, <2>3, <2>6 DEF Contract!StartLoses, Contract!Becomes, Answer
  <2> QED BY <2>1, <2>7 DEF Contract!Next
<1>9. CASE Launch
  <2>1. /\ UNCHANGED <<exited, submitted, row, ws, cur, awaited>>
        /\ \A q \in Pane : pane'[q] = pane[q] \/ (pane[q] \in Live /\ pane'[q] \in Live)
        /\ mishaps' = mishaps \/ mishaps' > 0
    BY <1>9 DEF Launch
  <2>2. Sessions' = Sessions
    BY <2>1, NoSessionChanges DEF SessionOf
  <2>3. CASE mishaps' = mishaps
    BY <2>1, <2>2, <2>3 DEF Contract!vars, Answer
  <2>4. CASE mishaps' > 0
    BY <2>1, <2>2, <2>4 DEF Contract!Next, Contract!ReplyIsLost, Answer
  <2> QED BY <2>1, <2>3, <2>4
<1>10. CASE CloseWorkspace
  <2> PICK p \in Pane : p = cur
    BY <1>10 DEF CloseWorkspace
  <2>1. /\ UNCHANGED <<exited, submitted, row, ws, awaited>>
        /\ cur = p /\ cur' = NULL
    BY <1>10 DEF CloseWorkspace
  <2>2. CASE pane[p] \in Live /\ pane' = [pane EXCEPT ![p] = "gone"] /\ UNCHANGED mishaps
    <3>1. SessionOf(p)' = "gone" /\ \A q \in Pane \ {p} : SessionOf(q)' = SessionOf(q)
      <4>1. pane'[p] = "gone" /\ ~exited'[p] /\ \A q \in Pane \ {p} : pane'[q] = pane[q]
        BY <1>2, <1>4, <2>1, <2>2
      <4> QED BY <2>1, <4>1 DEF SessionOf
    <3>2. Sessions' = [Sessions EXCEPT ![p] = "gone"]
      BY <3>1, OneSessionChanges
    <3> QED BY <1>5, <2>1, <2>2, <3>2
            DEF Contract!Next, Contract!Disappears, Contract!Becomes, Answer
  <2>3. CASE pane[p] \in Live /\ mishaps' > 0 /\ UNCHANGED pane
    <3>1. SessionOf(p)' = "orphan" /\ \A q \in Pane \ {p} : SessionOf(q)' = SessionOf(q)
      BY <1>2, <1>4, <2>1, <2>3 DEF SessionOf
    <3>2. Sessions' = [Sessions EXCEPT ![p] = "orphan"]
      BY <3>1, OneSessionChanges
    <3> QED BY <1>4, <1>5, <2>1, <2>3, <3>2
            DEF Contract!Next, Contract!StartLoses, Contract!Becomes, Answer
  <2>4. CASE pane[p] \notin Live /\ (mishaps' = mishaps \/ mishaps' > 0) /\ pane' = pane
    <3>1. Sessions' = Sessions
      BY <2>1, <2>4, NoSessionChanges DEF SessionOf
    <3>2. CASE mishaps' = mishaps
      BY <2>1, <3>1, <3>2 DEF Contract!vars, Answer
    <3>3. CASE mishaps' > 0
      BY <2>1, <3>1, <3>3 DEF Contract!Next, Contract!ReplyIsLost, Answer
    <3> QED BY <2>4, <3>2, <3>3
  <2> QED BY <1>10, <2>1, <2>2, <2>3, <2>4 DEF CloseWorkspace
<1>11. CASE WaitReady
  <2> PICK p \in Pane : p = cur
    BY <1>11 DEF WaitReady
  <2>1. /\ UNCHANGED <<pane, exited, submitted, cur, awaited, mishaps>>
        /\ cur = p /\ row' = "running" /\ ws' = p /\ pane[p] = "booted"
    BY <1>11 DEF WaitReady, ShowsReady
  <2>2. SessionOf(p)' = "ready" /\ \A q \in Pane \ {p} : SessionOf(q)' = SessionOf(q)
    BY <1>2, <1>4, <2>1 DEF SessionOf
  <2>3. Sessions' = [Sessions EXCEPT ![p] = "ready"]
    BY <2>2, OneSessionChanges
  <2>4. Contract!OnlyStarting(p)
    BY <1>3 DEF Contract!OnlyStarting
  <2> QED BY <1>4, <1>5, <2>1, <2>3, <2>4
          DEF Contract!Next, Contract!StartIsReady, Contract!Becomes, Answer
<1>12. CASE StartupTimeout \/ WaitFails
  <2> PICK p \in Pane : p = cur
    BY <1>12 DEF StartupTimeout, WaitFails
  <2>1. /\ UNCHANGED <<pane, exited, submitted, awaited, mishaps>>
        /\ cur = p /\ cur' = NULL /\ row' = "failed" /\ ws' = p
    BY <1>12 DEF StartupTimeout, WaitFails
  <2> DEFINE st == IF pane[p] \in Live THEN "kept" ELSE "gone"
  <2>2. SessionOf(p)' = st /\ \A q \in Pane \ {p} : SessionOf(q)' = SessionOf(q)
    BY <1>2, <1>4, <2>1 DEF SessionOf
  <2>3. Sessions' = [Sessions EXCEPT ![p] = st]
    BY <2>2, OneSessionChanges
  <2>4. Contract!OnlyStarting(p)
    BY <1>3 DEF Contract!OnlyStarting
  <2> QED BY <1>4, <1>5, <2>1, <2>3, <2>4
          DEF Contract!Next, Contract!StartFails, Contract!Becomes, Answer
<1> QED BY <1>6, <1>7, <1>8, <1>9, <1>10, <1>11, <1>12 DEF StartStep

\* Send: the prompt reaches a ready session, or the row fails.
LEMMA SendKeepsContract ==
    ASSUME ContractInv, BackendTypeOK', SendStep
    PROVE  [Contract!Next]_Contract!vars
<1> USE MishapAssumption
        DEF ContractInv, BackendInv, AnswersAreTrue, BackendTypeOK, CallIsOnRow,
            CallsAreInOrder, PromptIsOnWay, Live, promptVars, awaitVars, Mishap
<1>1. PICK p \in Pane : p = cur
  BY DEF SendStep, SendText, SendTextFails, Fallback, SendEnter
<1>2. /\ row = "running" /\ ws = p /\ submitted[p] = 0 /\ ~exited[p] /\ awaited = "none"
      /\ UNCHANGED <<exited, awaited>> /\ UNCHANGED pane
  BY <1>1 DEF SendStep, SendText, SendTextFails, Fallback, SendEnter, LastRun
<1>3. Sessions[p] = IF pane[p] \in Live THEN "ready" ELSE "gone"
  BY <1>2 DEF Sessions, SessionOf
<1>4. Answer = "none" /\ Answer' = Answer
  BY <1>2 DEF Answer
<1>5. ASSUME FailWith(p), UNCHANGED submitted, mishaps' = mishaps \/ mishaps' > 0
      PROVE  Contract!SendFails(p)
  <2> DEFINE st == IF pane[p] \in Live THEN "kept" ELSE "gone"
  <2>1. row' = "failed" /\ ws' = p /\ cur' = NULL
    BY <1>5 DEF FailWith
  <2>2. SessionOf(p)' = st /\ \A q \in Pane \ {p} : SessionOf(q)' = SessionOf(q)
    BY <1>1, <1>2, <1>5, <2>1 DEF SessionOf
  <2>3. Sessions' = [Sessions EXCEPT ![p] = st]
    BY <2>2, OneSessionChanges
  <2>4. Sessions[p] = "gone" => Sessions' = Sessions
    BY <1>3, <2>3 DEF Sessions
  <2> QED BY <1>2, <1>3, <1>4, <1>5, <2>1, <2>3, <2>4
          DEF Contract!SendFails, Contract!Becomes
<1>6. ASSUME pane[p] \in Live, submitted'[p] > 0, \A q \in Pane \ {p} : submitted'[q] = submitted[q],
             cur' = NULL, UNCHANGED <<row, ws, mishaps>>
      PROVE  Contract!Send(p)
  <2>1. SessionOf(p)' = "working" /\ \A q \in Pane \ {p} : SessionOf(q)' = SessionOf(q)
    BY <1>1, <1>2, <1>6 DEF SessionOf
  <2>2. Sessions' = [Sessions EXCEPT ![p] = "working"]
    BY <2>1, OneSessionChanges
  <2> QED BY <1>2, <1>3, <1>4, <1>6, <2>2 DEF Contract!Send, Contract!Becomes
<1>7. ASSUME UNCHANGED <<submitted, row, ws, cur>> PROVE Sessions' = Sessions
  BY <1>2, <1>7, NoSessionChanges DEF SessionOf
<1>8. CASE SendText
  <2>1. CASE backend = "local"
    <3>1. /\ pane[p] \in Live /\ submitted'[p] > 0
          /\ \A q \in Pane \ {p} : submitted'[q] = submitted[q]
          /\ cur' = NULL /\ UNCHANGED <<row, ws, mishaps>>
      BY <1>1, <1>2, <1>8, <2>1 DEF SendText
    <3> QED BY <1>6, <3>1 DEF Contract!Next
  <2>2. CASE backend # "local"
    <3>1. UNCHANGED <<submitted, row, ws, cur, mishaps>>
      BY <1>8, <2>2 DEF SendText
    <3> QED BY <1>4, <1>7, <3>1 DEF Contract!vars
  <2> QED BY <2>1, <2>2
<1>9. CASE SendTextFails
  <2>1. UNCHANGED submitted /\ (mishaps' = mishaps \/ mishaps' > 0)
    BY <1>9 DEF SendTextFails
  <2>2. CASE FailWith(p)
    BY <1>5, <2>1, <2>2 DEF Contract!Next
  <2>3. CASE UNCHANGED <<row, ws, cur>>
    <3>1. Sessions' = Sessions
      BY <1>7, <2>1, <2>3
    <3>2. CASE mishaps' = mishaps
      BY <1>4, <2>3, <3>1, <3>2 DEF Contract!vars
    <3>3. CASE mishaps' > 0
      BY <1>4, <2>3, <3>1, <3>3 DEF Contract!Next, Contract!ReplyIsLost
    <3> QED BY <2>1, <3>2, <3>3
  <2> QED BY <1>1, <1>9, <2>2, <2>3 DEF SendTextFails
<1>10. CASE Fallback \/ SendEnter
  <2>1. CASE FailWith(p) /\ UNCHANGED <<submitted, mishaps>>
    BY <1>5, <2>1 DEF Contract!Next
  <2>2. PICK n \in {0, 1} : LastRun(n) /\ (n = 0 => typed[p] = 1)
    BY <1>1, <1>2, <1>10 DEF Fallback, SendEnter
  <2>3. ASSUME Submits(n)
        PROVE  /\ pane[p] \in Live /\ submitted'[p] > 0
               /\ \A q \in Pane \ {p} : submitted'[q] = submitted[q]
    BY <1>1, <1>2, <2>2, <2>3 DEF Submits
  <2>4. CASE Submits(n) /\ SendIsDone /\ UNCHANGED mishaps
    BY <1>6, <2>3, <2>4 DEF Contract!Next, SendIsDone
  <2>5. CASE Submits(n) /\ FailWith(p) /\ mishaps' > 0
    <3>1. row' = "failed" /\ ws' = p /\ cur' = NULL
      BY <2>5 DEF FailWith
    <3>2. SessionOf(p)' = "working" /\ \A q \in Pane \ {p} : SessionOf(q)' = SessionOf(q)
      BY <1>1, <1>2, <2>3, <2>5, <3>1 DEF SessionOf
    <3>3. Sessions' = [Sessions EXCEPT ![p] = "working"]
      BY <3>2, OneSessionChanges
    <3>4. Contract!SendFails(p)
      BY <1>2, <1>3, <1>4, <2>3, <2>5, <3>1, <3>3
         DEF Contract!SendFails, Contract!Becomes
    <3> QED BY <3>4 DEF Contract!Next
  <2>6. Submits(n) /\ FailWith(p) /\ Mishap => mishaps' > 0
    OBVIOUS
  <2> QED BY <1>1, <2>1, <2>2, <2>4, <2>5, <2>6 DEF LastRun
<1> QED BY <1>8, <1>9, <1>10 DEF SendStep

\* AwaitExit, the lists and the world keep the contract as well.
LEMMA OthersKeepContract ==
    ASSUME ContractInv, BackendTypeOK'
    PROVE  /\ Await \/ AwaitReturns \/ AwaitCancelled => [Contract!Next]_Contract!vars
           /\ StartCall \/ ListSessions \/ ListFails \/ ListIsGarbled \/ DeadlinePasses =>
                  [Contract!Next]_Contract!vars
           /\ \A p \in Pane : ClaudeBoots(p) \/ PaneVanishes(p) \/ ClaudeExits(p) =>
                  [Contract!Next]_Contract!vars
<1> USE MishapAssumption
        DEF ContractInv, BackendInv, AnswersAreTrue, BackendTypeOK, CallIsOnRow,
            CallsAreInOrder, PromptIsOnWay, Live, promptVars, awaitVars
<1>1. ASSUME StartCall \/ ListSessions \/ ListFails \/ ListIsGarbled \/ DeadlinePasses
      PROVE  [Contract!Next]_Contract!vars
  <2>1. /\ UNCHANGED <<pane, exited, submitted, row, ws, cur, awaited>>
        /\ mishaps' = mishaps \/ mishaps' > 0
    BY <1>1 DEF StartCall, ListSessions, ListFails, ListIsGarbled, Lists, DeadlinePasses, Mishap
  <2>2. Sessions' = Sessions
    BY <2>1, NoSessionChanges DEF SessionOf
  <2>3. CASE mishaps' = mishaps
    BY <2>1, <2>2, <2>3 DEF Contract!vars, Answer
  <2>4. CASE mishaps' > 0
    BY <2>1, <2>2, <2>4 DEF Contract!Next, Contract!ReplyIsLost, Answer
  <2> QED BY <2>1, <2>3, <2>4
<1>2. ASSUME Await \/ AwaitReturns \/ AwaitCancelled PROVE [Contract!Next]_Contract!vars
  <2>1. /\ row = "running" /\ awaited = "none" /\ ws \in Pane
        /\ pc \in {"idle", "await"} /\ (pc = "await" => cur = ws)
        /\ UNCHANGED <<exited, submitted, row, ws, mishaps>>
    BY <1>2 DEF Await, AwaitReturns, AwaitCancelled
  <2>2. PICK p \in Pane : p = ws
    BY <2>1
  <2>3. submitted[p] > 0
    BY <2>1, <2>2 DEF RunningWasPrompted
  <2>4. Sessions[p] = IF exited[p] THEN "ended" ELSE IF pane[p] \in Live THEN "working" ELSE "gone"
    BY <2>2, <2>3 DEF Sessions, SessionOf
  <2>5. cur \in {NULL, p} /\ cur' \in {NULL, p}
    BY <1>2, <2>1, <2>2 DEF Await, AwaitReturns, AwaitCancelled
  <2>6. ASSUME UNCHANGED pane PROVE Sessions' = Sessions
    BY <2>1, <2>2, <2>5, <2>6, NoSessionChanges DEF SessionOf
  <2>7. CASE Await
    <3>1. Sessions' = Sessions
      BY <2>6, <2>7 DEF Await
    <3>2. CASE awaited' = awaited
      BY <2>1, <3>1, <3>2 DEF Contract!vars, Answer
    <3>3. CASE awaited' = "no_dir"
      <4>1. Answer = "none" /\ Answer' = "error"
        BY <2>1, <3>3 DEF Answer
      <4> QED BY <2>1, <2>2, <2>4, <3>1, <4>1 DEF Contract!Next, Contract!AwaitExit
    <3> QED BY <2>7, <3>2, <3>3 DEF Await
  <2>8. CASE AwaitReturns
    <3>1. Sessions' = Sessions /\ Sessions[p] \in {"ended", "gone"} /\ awaited' = "code"
      BY <2>1, <2>2, <2>4, <2>6, <2>8 DEF AwaitReturns, HasCode
    <3>2. Answer = "none" /\ Answer' = "code"
      BY <2>1, <3>1 DEF Answer
    <3> QED BY <2>1, <2>2, <2>4, <3>1, <3>2 DEF Contract!Next, Contract!AwaitExit
  <2>9. CASE AwaitCancelled
    <3>1. Answer = "none" /\ Answer' = "error"
      BY <2>1, <2>9 DEF Answer, AwaitCancelled
    <3>2. CASE UNCHANGED pane
      BY <2>1, <2>2, <2>4, <2>6, <3>1, <3>2 DEF Contract!Next, Contract!AwaitExit
    <3>3. CASE pane' = [pane EXCEPT ![p] = "gone"] /\ Sessions[p] = "working"
      <4>1. ~exited[p] /\ pane[p] \in Live
        BY <2>4, <3>3
      <4>2. pane'[p] = "gone" /\ \A q \in Pane \ {p} : pane'[q] = pane[q]
        BY <3>3
      <4>3. SessionOf(p)' = "gone" /\ \A q \in Pane \ {p} : SessionOf(q)' = SessionOf(q)
        BY <2>1, <2>2, <2>5, <4>1, <4>2 DEF SessionOf
      <4>4. Sessions' = [Sessions EXCEPT ![p] = "gone"]
        BY <4>3, OneSessionChanges
      <4> QED BY <2>1, <2>2, <3>1, <3>3, <4>4
              DEF Contract!Next, Contract!AwaitExit, Contract!Becomes
    <3>4. CASE pane' = [pane EXCEPT ![p] = "gone"] /\ Sessions[p] # "working"
      <4>1. pane[p] = "gone"
        <5>1. backend = "local" \/ pane' = pane
          BY <2>1, <2>2, <2>9 DEF AwaitCancelled
        <5>2. CASE backend = "local"
          BY <2>1, <2>2, <2>4, <3>4, <5>2
        <5>3. CASE pane' = pane
          BY <2>1, <2>2, <3>4, <5>3
        <5> QED BY <5>1, <5>2, <5>3
      <4>2. pane' = pane
        BY <3>4, <4>1
      <4> QED BY <3>2, <4>2
    <3> QED BY <2>1, <2>2, <2>9, <3>2, <3>3, <3>4 DEF AwaitCancelled
  <2> QED BY <1>2, <2>7, <2>8, <2>9
<1>3. ASSUME NEW p \in Pane, ClaudeBoots(p) PROVE [Contract!Next]_Contract!vars
  <2>1. /\ UNCHANGED <<exited, submitted, row, ws, cur, awaited, mishaps>>
        /\ \A q \in Pane : pane'[q] = pane[q] \/ (pane[q] \in Live /\ pane'[q] \in Live)
    BY <1>3 DEF ClaudeBoots
  <2>2. Sessions' = Sessions
    BY <2>1, NoSessionChanges DEF SessionOf
  <2> QED BY <2>1, <2>2 DEF Contract!vars, Answer
<1>4. ASSUME NEW p \in Pane, PaneVanishes(p) PROVE [Contract!Next]_Contract!vars
  <2>1. /\ UNCHANGED <<exited, submitted, row, ws, cur, awaited, mishaps>>
        /\ pane[p] \in Live /\ pane'[p] = "gone" /\ \A q \in Pane \ {p} : pane'[q] = pane[q]
    BY <1>4 DEF PaneVanishes
  <2>2. CASE exited[p]
    <3>1. Sessions' = Sessions
      BY <2>1, <2>2, NoSessionChanges DEF SessionOf
    <3> QED BY <2>1, <3>1 DEF Contract!vars, Answer
  <2>3. CASE ~exited[p]
    <3>1. Sessions[p] \in {"starting", "ready", "kept", "working", "orphan"}
      BY <2>1, <2>3 DEF Sessions, SessionOf
    <3>2. SessionOf(p)' = "gone" /\ \A q \in Pane \ {p} : SessionOf(q)' = SessionOf(q)
      BY <2>1, <2>3 DEF SessionOf
    <3>3. Sessions' = [Sessions EXCEPT ![p] = "gone"]
      BY <3>2, OneSessionChanges
    <3> QED BY <2>1, <3>1, <3>3
            DEF Contract!Next, Contract!Disappears, Contract!Becomes, Answer
  <2> QED BY <2>2, <2>3
<1>5. ASSUME NEW p \in Pane, ClaudeExits(p) PROVE [Contract!Next]_Contract!vars
  <2>1. /\ UNCHANGED <<submitted, row, ws, cur, awaited, mishaps>>
        /\ pane[p] \in Live /\ ~exited[p] /\ submitted[p] > 0 /\ exited'[p]
        /\ \A q \in Pane \ {p} : pane'[q] = pane[q] /\ exited'[q] = exited[q]
    BY <1>5 DEF ClaudeExits
  <2>2. p = ws
    BY <2>1
  <2>3. Sessions[p] = "working"
    BY <2>1, <2>2 DEF Sessions, SessionOf
  <2>4. SessionOf(p)' = "ended" /\ \A q \in Pane \ {p} : SessionOf(q)' = SessionOf(q)
    BY <2>1 DEF SessionOf
  <2>5. Sessions' = [Sessions EXCEPT ![p] = "ended"]
    BY <2>4, OneSessionChanges
  <2> QED BY <2>1, <2>3, <2>5 DEF Contract!Next, Contract!Ends, Contract!Becomes, Answer
<1> QED BY <1>1, <1>2, <1>3, <1>4, <1>5

\* The four backends implement the contract, for any panes and mishaps.
LEMMA BackendsKeepContract == BackendSpec => ImplementsExecutor
<1>1. BackendInit => CallsAreInOrder /\ Contract!Init
  <2> SUFFICES ASSUME BackendInit PROVE CallsAreInOrder /\ Contract!Init
    OBVIOUS
  <2>1. CallsAreInOrder
    BY DEF BackendInit, CallsAreInOrder
  <2>2. Sessions = [p \in Pane |-> "unused"]
    BY DEF BackendInit, Sessions, SessionOf, Live
  <2> QED BY <2>1, <2>2 DEF BackendInit, Contract!Init, Answer
<1>2. ContractInv /\ [BackendNext]_backendVars => ContractInv'
  BY BackendInvStep, CallsStayInOrder DEF ContractInv
<1>3. ContractInv /\ [BackendNext]_backendVars => [Contract!Next]_Contract!vars
  <2> SUFFICES ASSUME ContractInv, [BackendNext]_backendVars
               PROVE  [Contract!Next]_Contract!vars
    OBVIOUS
  <2>1. BackendTypeOK'
    BY BackendTyped DEF ContractInv
  <2>2. CASE UNCHANGED backendVars
    <3>1. Sessions' = Sessions
      BY <2>2, NoSessionChanges DEF SessionOf, backendVars
    <3> QED BY <2>2, <3>1 DEF Contract!vars, Answer, backendVars
  <2> QED BY <2>1, <2>2, StartKeepsContract, SendKeepsContract, OthersKeepContract
          DEF BackendNext
<1> QED BY <1>1, <1>2, <1>3, BackendInitInv, PTL
        DEF BackendSpec, ContractInv, ImplementsExecutor, Contract!Spec

---------------------------------------------------------------------------
(* The web server *)

\* What the factory may hold open before each of its steps, and the end.
OpenedSoFar ==
    /\ phase = "db" => open = {}
    /\ phase = "port" => open \subseteq {"db"}
    /\ phase = "log" => open \subseteq {"db", "port"}
    /\ phase = "watcher" => open \subseteq {"db", "port", "log"}
    /\ phase = "dispatcher" => open \subseteq {"db", "port", "log", "watcher"}
    /\ NothingStaysOpen

\* A server that was told to stop returned with no handler running, or late.
ReturnedDrained ==
    phase \in {"returned", "closed"} /\ stopping /\ ~grace =>
        \A c \in Client : request[c] = "none"

\* Subscribers and the handlers of /events are the same clients in every phase.
SubscribersHaveHandlers ==
    /\ subs = {c \in Client : request[c] = "events"}
    /\ IsFiniteSet(subs) /\ Cardinality(subs) <= MaxSubs

\* Of what a client was sent or will be, no event comes after one that was only
\* published when that event's Publish had ended.
QueuesAreOrdered ==
    /\ \A c \in Client : \A i \in 1..Len(Seen(c)) : Seen(c)[i] <= event
    /\ DeliveredInOrder
    /\ \A e \in Event : Sending(e) => e <= event
    /\ \A d, e \in Event : Sending(d) /\ Sending(e) /\ d # e => MayFollow(d, e)
    /\ \A e \in Event, c \in Client : <<e, c>> \in targets =>
           \A i \in 1..Len(Seen(c)) : MayFollow(Seen(c)[i], e)

WebInv == WebTypeOK /\ OpenedSoFar /\ ReturnedDrained /\ SubscribersHaveHandlers
              /\ QueuesAreOrdered

\* The steps of the factory, spelled out.
LEMMA StepsOfFactory ==
    Steps = {"db", "port", "log", "watcher", "dispatcher", "prefixes", "assemble"}
BY DEF Steps, After

\* Nothing is open and nobody connected at first.
LEMMA WebInitInv == WebInit => WebInv
<1> SUFFICES ASSUME WebInit PROVE WebInv
  OBVIOUS
<1> USE WebAssumption DEF WebInit
<1>1. WebTypeOK
  <2>1. phase \in Steps /\ request \in [Client -> {"none", "events", "live", "dispatch"}]
    BY StepsOfFactory
  <2>2. stopping \in BOOLEAN /\ grace \in BOOLEAN
    BY Zenon
  <2> QED BY <2>1, <2>2 DEF WebTypeOK
<1>2. OpenedSoFar /\ ReturnedDrained
  BY DEF OpenedSoFar, NothingStaysOpen, ReturnedDrained
<1>3. SubscribersHaveHandlers
  BY FS_EmptySet DEF SubscribersHaveHandlers
<1>4. QueuesAreOrdered
  <2>1. \A c \in Client : Seen(c) = <<>>
    BY DEF Seen
  <2>2. \A e \in Event : ~Sending(e)
    BY DEF Sending
  <2> QED BY <2>1, <2>2 DEF QueuesAreOrdered, DeliveredInOrder
<1> QED BY <1>1, <1>2, <1>3, <1>4 DEF WebInv

\* Every step writes values of the right kind.
LEMMA WebTyped ==
    WebTypeOK /\ [WebNext]_webVars => WebTypeOK'
<1> SUFFICES ASSUME WebTypeOK, [WebNext]_webVars PROVE WebTypeOK'
  OBVIOUS
<1> USE WebAssumption, StepsOfFactory
        DEF WebTypeOK, Ended, Resources, phaseVars, hubVars, publishVars, sessionVars, Running, Event
<1>1. CASE Acquire
  BY <1>1 DEF Acquire, After
<1>2. CASE AcquireFails
  <2>1. CASE phase = "watcher"
    BY <1>2, <2>1 DEF AcquireFails, After
  <2>2. CASE phase # "watcher"
    BY <1>2, <2>2 DEF AcquireFails
  <2> QED BY <2>1, <2>2
<1>3. CASE BeginShutdown
  BY <1>3 DEF BeginShutdown
<1>4. CASE Drained
  BY <1>4 DEF Drained
<1>5. CASE GraceElapses
  BY <1>5 DEF GraceElapses
<1>6. CASE Close
  BY <1>6 DEF Close
<1>7. CASE Signal
  BY <1>7 DEF Signal
<1>8. CASE ServeFails
  BY <1>8 DEF ServeFails
<1>9. CASE Publish
  BY <1>9 DEF Publish
<1>10. ASSUME NEW e \in Event, NEW c \in Client, SendTo(e, c) PROVE WebTypeOK'
  BY <1>10 DEF SendTo
<1>11. ASSUME NEW e \in Event, SendOnClosed(e) PROVE WebTypeOK'
  BY <1>11 DEF SendOnClosed
<1>12. ASSUME NEW c \in Client, Subscribe(c) PROVE WebTypeOK'
  BY <1>12 DEF Subscribe
<1>13. ASSUME NEW c \in Client, WriteEvent(c) PROVE WebTypeOK'
  BY <1>13 DEF WriteEvent
<1>14. ASSUME NEW c \in Client, Unsubscribe(c) PROVE WebTypeOK'
  <2>1. /\ targets' \subseteq targets /\ closed' \subseteq Event /\ subs' \subseteq subs
        /\ request' \in [Client -> {"none", "events", "live", "dispatch"}]
    BY <1>14 DEF Unsubscribe
  <2>3. buffer' \in [Client -> Seq(Event)] /\ got' \in [Client -> Seq(Event)]
    <3>1. <<>> \in Seq(Event)
      OBVIOUS
    <3> QED BY <1>14, <3>1 DEF Unsubscribe
  <2>2. UNCHANGED <<phase, open, stopping, grace, event, overlap, rowWs, screen>>
    BY <1>14 DEF Unsubscribe
  <2> QED BY <2>1, <2>2, <2>3
<1>15. ASSUME NEW c \in Client, OpenStream(c) PROVE WebTypeOK'
  BY <1>15 DEF OpenStream
<1>16. ASSUME NEW c \in Client, PollOutput(c) PROVE WebTypeOK'
  BY <1>16 DEF PollOutput
<1>17. ASSUME NEW c \in Client, CloseStream(c) PROVE WebTypeOK'
  BY <1>17 DEF CloseStream
<1>18. ASSUME NEW c \in Client, BeginDispatch(c) PROVE WebTypeOK'
  BY <1>18 DEF BeginDispatch
<1>19. ASSUME NEW c \in Client, EndDispatch(c) PROVE WebTypeOK'
  BY <1>19 DEF EndDispatch
<1>20. CASE ScreenChanges
  BY <1>20 DEF ScreenChanges
<1>21. CASE UNCHANGED webVars
  BY <1>21 DEF webVars
<1> QED BY <1>1, <1>2, <1>3, <1>4, <1>5, <1>6, <1>7, <1>8, <1>9, <1>10, <1>11, <1>12,
           <1>13, <1>14, <1>15, <1>16, <1>17, <1>18, <1>19, <1>20, <1>21
         DEF WebNext, Factory, Shutdown, PublishStep

\* Each step of the factory adds one thing, each error path closes all but the log.
LEMMA FactoryCleansUp ==
    WebTypeOK /\ OpenedSoFar /\ [WebNext]_webVars => OpenedSoFar'
<1> SUFFICES ASSUME WebTypeOK, OpenedSoFar, [WebNext]_webVars PROVE OpenedSoFar'
  OBVIOUS
<1> USE DEF WebTypeOK, After, Cleanup, Ended, Resources, phaseVars, hubVars, publishVars,
            sessionVars, Running, OpenedSoFar, NothingStaysOpen
<1>1. CASE Acquire
  <2>1. CASE phase \in {"db", "port", "log"}
    BY <1>1, <2>1 DEF Acquire
  <2>2. CASE phase \in {"watcher", "dispatcher"}
    BY <1>1, <2>2 DEF Acquire
  <2>3. CASE phase \in {"prefixes", "assemble"}
    BY <1>1, <2>3 DEF Acquire
  <2> QED BY <1>1, <2>1, <2>2, <2>3, StepsOfFactory DEF Acquire
<1>2. CASE AcquireFails
  <2>1. CASE phase = "watcher"
    BY <1>2, <2>1 DEF AcquireFails
  <2>2. CASE phase \in {"db", "port", "log"}
    <3>1. phase' = "failed" /\ open' = open \ Cleanup[phase]
      BY <1>2, <2>2 DEF AcquireFails
    <3>2. open' = {}
      <4>1. CASE phase = "db"
        BY <3>1, <4>1
      <4>2. CASE phase = "port"
        BY <3>1, <4>2
      <4>3. CASE phase = "log"
        BY <3>1, <4>3
      <4> QED BY <2>2, <4>1, <4>2, <4>3
    <3> QED BY <3>1, <3>2
  <2>3. CASE phase \in {"dispatcher", "prefixes", "assemble"}
    <3>1. phase' = "failed" /\ open' = open \ Cleanup[phase]
      BY <1>2, <2>3 DEF AcquireFails
    <3>2. open' \subseteq {"log"}
      <4>1. CASE phase = "dispatcher"
        BY <3>1, <4>1
      <4>2. CASE phase = "prefixes"
        BY <3>1, <4>2
      <4>3. CASE phase = "assemble"
        BY <3>1, <4>3
      <4> QED BY <2>3, <4>1, <4>2, <4>3
    <3> QED BY <3>1, <3>2
  <2> QED BY <1>2, <2>1, <2>2, <2>3, StepsOfFactory DEF AcquireFails
<1>3. CASE BeginShutdown
  BY <1>3 DEF BeginShutdown
<1>4. CASE Drained
  BY <1>4 DEF Drained
<1>5. CASE GraceElapses
  BY <1>5 DEF GraceElapses
<1>6. CASE Close
  BY <1>6 DEF Close
<1>7. CASE Signal
  BY <1>7 DEF Signal
<1>8. CASE ServeFails
  BY <1>8 DEF ServeFails
<1>9. CASE Publish
  BY <1>9 DEF Publish
<1>10. ASSUME NEW e \in Event, NEW c \in Client, SendTo(e, c) PROVE OpenedSoFar'
  BY <1>10 DEF SendTo
<1>11. ASSUME NEW e \in Event, SendOnClosed(e) PROVE OpenedSoFar'
  BY <1>11 DEF SendOnClosed
<1>12. ASSUME NEW c \in Client, Subscribe(c) PROVE OpenedSoFar'
  BY <1>12 DEF Subscribe
<1>13. ASSUME NEW c \in Client, WriteEvent(c) PROVE OpenedSoFar'
  BY <1>13 DEF WriteEvent
<1>14. ASSUME NEW c \in Client, Unsubscribe(c) PROVE OpenedSoFar'
  BY <1>14 DEF Unsubscribe
<1>15. ASSUME NEW c \in Client, OpenStream(c) PROVE OpenedSoFar'
  BY <1>15 DEF OpenStream
<1>16. ASSUME NEW c \in Client, PollOutput(c) PROVE OpenedSoFar'
  BY <1>16 DEF PollOutput
<1>17. ASSUME NEW c \in Client, CloseStream(c) PROVE OpenedSoFar'
  BY <1>17 DEF CloseStream
<1>18. ASSUME NEW c \in Client, BeginDispatch(c) PROVE OpenedSoFar'
  BY <1>18 DEF BeginDispatch
<1>19. ASSUME NEW c \in Client, EndDispatch(c) PROVE OpenedSoFar'
  BY <1>19 DEF EndDispatch
<1>20. CASE ScreenChanges
  BY <1>20 DEF ScreenChanges
<1>21. CASE UNCHANGED webVars
  BY <1>21 DEF webVars
<1> QED BY <1>1, <1>2, <1>3, <1>4, <1>5, <1>6, <1>7, <1>8, <1>9, <1>10, <1>11, <1>12,
           <1>13, <1>14, <1>15, <1>16, <1>17, <1>18, <1>19, <1>20, <1>21
         DEF WebNext, Factory, Shutdown, PublishStep

\* Serve returns after the last handler, or late, or without a signal.
LEMMA ReturnsDrained ==
    WebTypeOK /\ ReturnedDrained /\ [WebNext]_webVars => ReturnedDrained'
<1> SUFFICES ASSUME WebTypeOK, ReturnedDrained, [WebNext]_webVars PROVE ReturnedDrained'
  OBVIOUS
<1> USE DEF WebTypeOK, Steps, After, Ended, phaseVars, hubVars, publishVars, sessionVars, Running,
            ReturnedDrained
<1>1. CASE Acquire
  BY <1>1 DEF Acquire, After
<1>2. CASE AcquireFails
  BY <1>2 DEF AcquireFails
<1>3. CASE BeginShutdown
  BY <1>3 DEF BeginShutdown
<1>4. CASE Drained
  BY <1>4 DEF Drained
<1>5. CASE GraceElapses
  BY <1>5 DEF GraceElapses
<1>6. CASE Close
  BY <1>6 DEF Close
<1>7. CASE Signal
  BY <1>7 DEF Signal
<1>8. CASE ServeFails
  BY <1>8 DEF ServeFails
<1>9. CASE Publish
  BY <1>9 DEF Publish
<1>10. ASSUME NEW e \in Event, NEW c \in Client, SendTo(e, c) PROVE ReturnedDrained'
  BY <1>10 DEF SendTo
<1>11. ASSUME NEW e \in Event, SendOnClosed(e) PROVE ReturnedDrained'
  BY <1>11 DEF SendOnClosed
<1>12. ASSUME NEW c \in Client, Subscribe(c) PROVE ReturnedDrained'
  BY <1>12 DEF Subscribe
<1>13. ASSUME NEW c \in Client, WriteEvent(c) PROVE ReturnedDrained'
  BY <1>13 DEF WriteEvent
<1>14. ASSUME NEW c \in Client, Unsubscribe(c) PROVE ReturnedDrained'
  BY <1>14 DEF Unsubscribe
<1>15. ASSUME NEW c \in Client, OpenStream(c) PROVE ReturnedDrained'
  BY <1>15 DEF OpenStream
<1>16. ASSUME NEW c \in Client, PollOutput(c) PROVE ReturnedDrained'
  BY <1>16 DEF PollOutput
<1>17. ASSUME NEW c \in Client, CloseStream(c) PROVE ReturnedDrained'
  BY <1>17 DEF CloseStream
<1>18. ASSUME NEW c \in Client, BeginDispatch(c) PROVE ReturnedDrained'
  BY <1>18 DEF BeginDispatch
<1>19. ASSUME NEW c \in Client, EndDispatch(c) PROVE ReturnedDrained'
  BY <1>19 DEF EndDispatch
<1>20. CASE ScreenChanges
  BY <1>20 DEF ScreenChanges
<1>21. CASE UNCHANGED webVars
  BY <1>21 DEF webVars
<1> QED BY <1>1, <1>2, <1>3, <1>4, <1>5, <1>6, <1>7, <1>8, <1>9, <1>10, <1>11, <1>12,
           <1>13, <1>14, <1>15, <1>16, <1>17, <1>18, <1>19, <1>20, <1>21
         DEF WebNext, Factory, Shutdown, PublishStep

\* Subscribe and Unsubscribe change handler and subscriber together.
LEMMA SubscribersStay ==
    WebTypeOK /\ SubscribersHaveHandlers /\ [WebNext]_webVars => SubscribersHaveHandlers'
<1> SUFFICES ASSUME WebTypeOK, SubscribersHaveHandlers, [WebNext]_webVars
             PROVE  SubscribersHaveHandlers'
  OBVIOUS
<1> USE WebAssumption
        DEF WebTypeOK, phaseVars, hubVars, publishVars, sessionVars, Running,
            SubscribersHaveHandlers
<1>1. CASE Acquire
  BY <1>1 DEF Acquire, After
<1>2. CASE AcquireFails
  BY <1>2 DEF AcquireFails
<1>3. CASE BeginShutdown
  BY <1>3 DEF BeginShutdown
<1>4. CASE Drained
  BY <1>4 DEF Drained
<1>5. CASE GraceElapses
  BY <1>5 DEF GraceElapses
<1>6. CASE Close
  BY <1>6 DEF Close
<1>7. CASE Signal
  BY <1>7 DEF Signal
<1>8. CASE ServeFails
  BY <1>8 DEF ServeFails
<1>9. CASE Publish
  BY <1>9 DEF Publish
<1>10. ASSUME NEW e \in Event, NEW c \in Client, SendTo(e, c) PROVE SubscribersHaveHandlers'
  BY <1>10 DEF SendTo
<1>11. ASSUME NEW e \in Event, SendOnClosed(e) PROVE SubscribersHaveHandlers'
  BY <1>11 DEF SendOnClosed
<1>12. ASSUME NEW c \in Client, Subscribe(c) PROVE SubscribersHaveHandlers'
  <2>1. subs' = {b \in Client : request'[b] = "events"}
    BY <1>12 DEF Subscribe
  <2>2. IsFiniteSet(subs') /\ Cardinality(subs')
                                   \in {Cardinality(subs), Cardinality(subs) + 1}
    BY <1>12, FS_AddElement DEF Subscribe
  <2> QED BY <1>12, <2>1, <2>2, FS_CardinalityType DEF Subscribe
<1>13. ASSUME NEW c \in Client, WriteEvent(c) PROVE SubscribersHaveHandlers'
  BY <1>13 DEF WriteEvent
<1>14. ASSUME NEW c \in Client, Unsubscribe(c) PROVE SubscribersHaveHandlers'
  <2>1. subs' = {b \in Client : request'[b] = "events"}
    BY <1>14 DEF Unsubscribe
  <2>2. IsFiniteSet(subs') /\ Cardinality(subs')
                                   \in {Cardinality(subs), Cardinality(subs) - 1}
    BY <1>14, FS_RemoveElement DEF Unsubscribe
  <2> QED BY <1>14, <2>1, <2>2, FS_CardinalityType DEF Unsubscribe
<1>15. ASSUME NEW c \in Client, OpenStream(c) PROVE SubscribersHaveHandlers'
  BY <1>15 DEF OpenStream
<1>16. ASSUME NEW c \in Client, PollOutput(c) PROVE SubscribersHaveHandlers'
  BY <1>16 DEF PollOutput
<1>17. ASSUME NEW c \in Client, CloseStream(c) PROVE SubscribersHaveHandlers'
  BY <1>17 DEF CloseStream
<1>18. ASSUME NEW c \in Client, BeginDispatch(c) PROVE SubscribersHaveHandlers'
  BY <1>18 DEF BeginDispatch
<1>19. ASSUME NEW c \in Client, EndDispatch(c) PROVE SubscribersHaveHandlers'
  BY <1>19 DEF EndDispatch
<1>20. CASE ScreenChanges
  BY <1>20 DEF ScreenChanges
<1>21. CASE UNCHANGED webVars
  BY <1>21 DEF webVars
<1> QED BY <1>1, <1>2, <1>3, <1>4, <1>5, <1>6, <1>7, <1>8, <1>9, <1>10, <1>11, <1>12,
           <1>13, <1>14, <1>15, <1>16, <1>17, <1>18, <1>19, <1>20, <1>21
         DEF WebNext, Factory, Shutdown, PublishStep

\* What was sent to a client is a sequence of events.
LEMMA SeenAreEvents ==
    ASSUME WebTypeOK, NEW c \in Client
    PROVE  Seen(c) \in Seq(Event) /\ \A i \in 1..Len(Seen(c)) : Seen(c)[i] \in Event
<1>1. buffer[c] \in Seq(Event) /\ got[c] \in Seq(Event)
  BY DEF WebTypeOK
<1>2. Seen(c) \in Seq(Event)
  BY <1>1 DEF Seen
<1>3. ASSUME NEW s \in Seq(Event), NEW i \in 1..Len(s) PROVE s[i] \in Event
  OBVIOUS
<1> QED BY <1>2, <1>3

\* Taking the first of the queue to the end of what was written changes nothing.
LEMMA WrittenIsSeen ==
    ASSUME NEW s \in Seq(Event), NEW t \in Seq(Event), t # <<>>
    PROVE  Append(s, Head(t)) \o Tail(t) = s \o t
<1>1. /\ Head(t) = t[1] /\ Head(t) \in Event /\ Tail(t) \in Seq(Event)
      /\ Len(t) \in Nat \ {0} /\ Len(s) \in Nat /\ Len(Tail(t)) = Len(t) - 1
      /\ \A k \in 1..Len(t) - 1 : Tail(t)[k] = t[k + 1]
  OBVIOUS
<1>2. /\ Append(s, Head(t)) \in Seq(Event) /\ Len(Append(s, Head(t))) = Len(s) + 1
      /\ Append(s, Head(t))[Len(s) + 1] = t[1]
      /\ \A k \in 1..Len(s) : Append(s, Head(t))[k] = s[k]
  BY <1>1
<1> DEFINE u == Append(s, Head(t))
<1> DEFINE v == Tail(t)
<1> HIDE DEF u, v
<1>3. u \in Seq(Event) /\ v \in Seq(Event) /\ Len(u) = Len(s) + 1 /\ Len(v) = Len(t) - 1
  BY <1>1, <1>2 DEF u, v
<1>4. u \o v \in Seq(Event) /\ Len(u \o v) = Len(s) + Len(t)
  BY <1>1, <1>3
<1>5. s \o t \in Seq(Event) /\ Len(s \o t) = Len(s) + Len(t)
  BY <1>1
<1>6. ASSUME NEW k \in 1..(Len(s) + Len(t)) PROVE (u \o v)[k] = (s \o t)[k]
  <2>1. CASE k <= Len(s)
    <3>1. (u \o v)[k] = u[k] /\ u[k] = s[k]
      BY <1>1, <1>2, <1>3, <2>1 DEF u
    <3> QED BY <1>1, <2>1, <3>1
  <2>2. CASE k = Len(s) + 1
    <3>1. (u \o v)[k] = u[k] /\ u[k] = t[1]
      BY <1>1, <1>2, <1>3, <2>2 DEF u
    <3>2. (s \o t)[k] = t[1]
      BY <1>1, <2>2
    <3> QED BY <3>1, <3>2
  <2>3. CASE k > Len(s) + 1
    <3>1. (u \o v)[k] = v[k - Len(s) - 1]
      BY <1>1, <1>3, <2>3
    <3>2. v[k - Len(s) - 1] = t[k - Len(s)]
      BY <1>1, <2>3 DEF v
    <3>3. (s \o t)[k] = t[k - Len(s)]
      BY <1>1, <2>3
    <3> QED BY <3>1, <3>2, <3>3
  <2>4. k <= Len(s) \/ k = Len(s) + 1 \/ k > Len(s) + 1
    <3>1. \A m, n \in Int : m <= n \/ m = n + 1 \/ m > n + 1
      OBVIOUS
    <3>2. k \in Int /\ Len(s) \in Int
      BY <1>1
    <3> QED BY <3>1, <3>2
  <2> QED BY <2>1, <2>2, <2>3, <2>4
<1>7. u \o v = s \o t
  BY <1>4, <1>5, <1>6, SeqEqual
<1> QED BY <1>7 DEF u, v

\* What Append adds is last and moves nothing.
LEMMA QueuedIsLast ==
    ASSUME NEW s \in Seq(Event), NEW t \in Seq(Event), NEW e \in Event
    PROVE  /\ Len(s \o Append(t, e)) = Len(s \o t) + 1 /\ Len(s \o t) \in Nat
           /\ (s \o Append(t, e))[Len(s \o t) + 1] = e
           /\ \A k \in 1..Len(s \o t) : (s \o Append(t, e))[k] = (s \o t)[k]
OBVIOUS

\* Events that are neither sent nor newly published keep the queues as they are.
LEMMA QuietKeepsOrder ==
    ASSUME QueuesAreOrdered, UNCHANGED <<buffer, got, event, overlap>>,
           targets' \subseteq targets, closed' \subseteq closed
    PROVE  QueuesAreOrdered'
<1>1. \A c \in Client : Seen(c)' = Seen(c)
  BY DEF Seen
<1>2. \A e \in Event : Sending(e)' => Sending(e)
  BY DEF Sending
<1>3. \A d, e \in Event : MayFollow(d, e)' <=> MayFollow(d, e)
  BY DEF MayFollow
<1>4. DeliveredInOrder'
  BY <1>1 DEF DeliveredInOrder, QueuesAreOrdered, MayFollow
<1>5. \A e \in Event, c \in Client : <<e, c>> \in targets' =>
          \A i \in 1..Len(Seen(c)') : MayFollow(Seen(c)[i], e)'
  BY <1>1 DEF QueuesAreOrdered, MayFollow
<1> QED BY <1>1, <1>2, <1>3, <1>4, <1>5 DEF QueuesAreOrdered

\* A snapshot: the new event is later than all, and overlaps what is being sent.
LEMMA PublishKeepsOrder ==
    ASSUME WebTypeOK, QueuesAreOrdered, Publish PROVE QueuesAreOrdered'
<1>0. event + 1 \in Event
  BY WebAssumption DEF Publish, WebTypeOK, Event
<1> PICK n \in Event : n = event + 1
  BY <1>0
<1>1. /\ n \in Event /\ event \in Nat /\ event' = n
      /\ UNCHANGED <<buffer, got, closed>> /\ targets' = targets \cup ({n} \X subs)
      /\ overlap' = [overlap EXCEPT ![n] = {e \in Event : Sending(e)}]
  BY WebAssumption DEF Publish, WebTypeOK, Event
<1>2. \A c \in Client : Seen(c)' = Seen(c)
  BY <1>1 DEF Seen
<1>3. \A d \in Event : d <= event => d < n /\ d # n
  BY <1>1 DEF Event
<1>4. \A d, e \in Event : d <= event => (MayFollow(d, e)' <=> MayFollow(d, e))
  BY <1>1, <1>3 DEF MayFollow, WebTypeOK
<1>5. \A c \in Client : \A i \in 1..Len(Seen(c)) : Seen(c)[i] \in Event /\ Seen(c)[i] <= event
  BY SeenAreEvents DEF QueuesAreOrdered
<1>6. \A d \in Event : d <= event => MayFollow(d, n)'
  BY <1>1, <1>3 DEF MayFollow
<1>7. \A e \in Event : Sending(e)' => Sending(e) \/ e = n
  BY <1>1 DEF Sending
<1>8. \A e \in Event : Sending(e) => e <= event
  BY DEF QueuesAreOrdered
<1>9. \A e \in Event : Sending(e) => MayFollow(n, e)'
  BY <1>1 DEF MayFollow, WebTypeOK
<1>10. \A c \in Client : \A i \in 1..Len(Seen(c)') : Seen(c)'[i] <= event'
  <2> TAKE c \in Client
  <2> TAKE i \in 1..Len(Seen(c)')
  <2>1. Seen(c)' = Seen(c)
    BY <1>2
  <2>2. PICK d \in Event : d = Seen(c)[i] /\ d <= event
    BY <1>5, <2>1
  <2>3. d <= n
    BY <1>3, <2>2 DEF Event
  <2> QED BY <1>1, <2>1, <2>2, <2>3
<1>11. DeliveredInOrder'
  <2> SUFFICES ASSUME NEW c \in Client, NEW i \in 1..Len(Seen(c)), NEW j \in 1..Len(Seen(c)),
                      i < j
               PROVE  MayFollow(Seen(c)[i], Seen(c)[j])'
    BY <1>2 DEF DeliveredInOrder
  <2>1. MayFollow(Seen(c)[i], Seen(c)[j])
    BY DEF QueuesAreOrdered, DeliveredInOrder
  <2>2. PICK d \in Event, e \in Event : d = Seen(c)[i] /\ e = Seen(c)[j] /\ d <= event
    BY <1>5
  <2>3. MayFollow(d, e)'
    BY <1>4, <2>1, <2>2 DEF MayFollow
  <2>4. Seen(c)' = Seen(c)
    BY <1>2
  <2> QED BY <2>2, <2>3, <2>4 DEF MayFollow
<1>12. \A e \in Event : Sending(e)' => e <= event'
  BY <1>1, <1>3, <1>7, <1>8 DEF Event
<1>13. \A d, e \in Event : Sending(d)' /\ Sending(e)' /\ d # e => MayFollow(d, e)'
  <2> SUFFICES ASSUME NEW d \in Event, NEW e \in Event, Sending(d)', Sending(e)', d # e
               PROVE  MayFollow(d, e)'
    OBVIOUS
  <2>1. CASE d = n
    BY <1>7, <1>9, <2>1
  <2>2. CASE d # n /\ e = n
    BY <1>6, <1>7, <1>8, <2>2
  <2>3. CASE d # n /\ e # n
    BY <1>4, <1>7, <1>8, <2>3 DEF QueuesAreOrdered
  <2> QED BY <2>1, <2>2, <2>3
<1>14. \A e \in Event, c \in Client : <<e, c>> \in targets' =>
           \A i \in 1..Len(Seen(c)') : MayFollow(Seen(c)[i], e)'
  <2> SUFFICES ASSUME NEW e \in Event, NEW c \in Client, <<e, c>> \in targets',
                      NEW i \in 1..Len(Seen(c))
               PROVE  MayFollow(Seen(c)[i], e)'
    BY <1>2
  <2>1. PICK d \in Event : d = Seen(c)[i] /\ d <= event
    BY <1>5
  <2>2. MayFollow(d, e)'
    <3>1. CASE e = n
      BY <1>6, <2>1, <3>1
    <3>2. CASE e # n
      <4>1. <<e, c>> \in targets
        BY <1>1, <3>2
      <4>2. MayFollow(d, e)
        BY <2>1, <4>1 DEF QueuesAreOrdered
      <4> QED BY <1>4, <2>1, <4>2
    <3> QED BY <3>1, <3>2
  <2>3. Seen(c)' = Seen(c)
    BY <1>2
  <2> QED BY <2>1, <2>2, <2>3 DEF MayFollow
<1> QED BY <1>10, <1>11, <1>12, <1>13, <1>14 DEF QueuesAreOrdered

\* A send: what comes last may follow everything before it, and what is still to
\* be sent may follow it.
LEMMA SendKeepsOrder ==
    ASSUME WebTypeOK, QueuesAreOrdered, NEW e \in Event, NEW c \in Client, SendTo(e, c)
    PROVE  QueuesAreOrdered'
<1>1. /\ UNCHANGED <<got, event, closed, overlap>> /\ <<e, c>> \in targets
      /\ targets' = targets \ {<<e, c>>}
      /\ buffer' = buffer \/ buffer' = [buffer EXCEPT ![c] = Append(@, e)]
  BY DEF SendTo
<1>2. CASE buffer' = buffer
  BY <1>1, <1>2, QuietKeepsOrder
<1>3. CASE buffer' = [buffer EXCEPT ![c] = Append(@, e)]
  <2> DEFINE old == Seen(c)
  <2> DEFINE new == Seen(c)'
  <2>1. buffer[c] \in Seq(Event) /\ got[c] \in Seq(Event) /\ buffer \in [Client -> Seq(Event)]
    BY DEF WebTypeOK
  <2>2. old = got[c] \o buffer[c] /\ new = got[c] \o Append(buffer[c], e)
    BY <1>1, <1>3, <2>1 DEF Seen
  <2> HIDE DEF old, new
  <2>3. /\ Len(new) = Len(old) + 1 /\ Len(old) \in Nat
        /\ new[Len(old) + 1] = e /\ \A k \in 1..Len(old) : new[k] = old[k]
    BY <2>1, <2>2, QueuedIsLast
  <2>4. \A b \in Client : b # c => Seen(b)' = Seen(b)
    BY <1>1, <1>3, <2>1 DEF Seen
  <2>5. \A d, f \in Event : MayFollow(d, f)' <=> MayFollow(d, f)
    BY <1>1 DEF MayFollow
  <2>6. \A k \in 1..Len(old) : old[k] \in Event /\ old[k] <= event /\ MayFollow(old[k], e)
    BY <1>1, SeenAreEvents DEF QueuesAreOrdered, old
  <2>7. Sending(e) /\ e <= event
    BY <1>1 DEF Sending, QueuesAreOrdered
  <2>8. \A k \in 1..Len(new) : new[k] = e \/ (k \in 1..Len(old) /\ new[k] = old[k])
    BY <2>3
  <2>9. \A b \in Client : \A i \in 1..Len(Seen(b)') : Seen(b)'[i] <= event'
    <3> TAKE b \in Client
    <3>1. CASE b = c
      BY <1>1, <2>6, <2>7, <2>8, <3>1 DEF new
    <3>2. CASE b # c
      BY <1>1, <2>4, <3>2 DEF QueuesAreOrdered
    <3> QED BY <3>1, <3>2
  <2>10. \A i, j \in 1..Len(new) : i < j => MayFollow(new[i], new[j])
    <3> SUFFICES ASSUME NEW i \in 1..Len(new), NEW j \in 1..Len(new), i < j
                 PROVE  MayFollow(new[i], new[j])
      OBVIOUS
    <3>1. i \in 1..Len(old) /\ new[i] = old[i]
      BY <2>3
    <3>2. CASE j \in 1..Len(old)
      BY <2>3, <3>1, <3>2 DEF QueuesAreOrdered, DeliveredInOrder, old
    <3>3. CASE j \notin 1..Len(old)
      BY <2>6, <2>8, <3>1, <3>3
    <3> QED BY <3>2, <3>3
  <2>11. DeliveredInOrder'
    <3> SUFFICES ASSUME NEW b \in Client, NEW i \in 1..Len(Seen(b)'),
                        NEW j \in 1..Len(Seen(b)'), i < j
                 PROVE  MayFollow(Seen(b)[i], Seen(b)[j])'
      BY DEF DeliveredInOrder
    <3>1. CASE b = c
      BY <1>1, <2>10, <3>1 DEF new, MayFollow
    <3>2. CASE b # c
      BY <1>1, <2>4, <3>2 DEF QueuesAreOrdered, DeliveredInOrder, MayFollow
    <3> QED BY <3>1, <3>2
  <2>12. \A d \in Event : Sending(d)' => Sending(d)
    BY <1>1 DEF Sending
  <2>13. \A d \in Event, b \in Client : <<d, b>> \in targets' =>
             \A i \in 1..Len(Seen(b)') : MayFollow(Seen(b)[i], d)'
    <3> SUFFICES ASSUME NEW d \in Event, NEW b \in Client, <<d, b>> \in targets',
                        NEW i \in 1..Len(Seen(b)')
                 PROVE  MayFollow(Seen(b)[i], d)'
      OBVIOUS
    <3>1. <<d, b>> \in targets /\ Sending(d)
      BY <1>1 DEF Sending
    <3>2. CASE b # c
      BY <1>1, <2>4, <3>1, <3>2 DEF QueuesAreOrdered, MayFollow
    <3>3. CASE b = c
      <4>1. d # e
        BY <1>1, <3>3
      <4>2. MayFollow(e, d)
        BY <2>7, <3>1, <4>1 DEF QueuesAreOrdered
      <4>3. \A k \in 1..Len(old) : MayFollow(old[k], d)
        BY <3>1, <3>3 DEF QueuesAreOrdered, old
      <4>4. i \in 1..Len(new)
        BY <3>3 DEF new
      <4>5. MayFollow(new[i], d)
        BY <2>8, <4>2, <4>3, <4>4
      <4> QED BY <1>1, <3>3, <4>5 DEF new, MayFollow
    <3> QED BY <3>2, <3>3
  <2> QED BY <1>1, <2>5, <2>9, <2>11, <2>12, <2>13 DEF QueuesAreOrdered
<1> QED BY <1>1, <1>2, <1>3

\* A subscriber that leaves takes its queue and leaves its sends behind, closed.
LEMMA LeavingKeepsOrder ==
    ASSUME WebTypeOK, QueuesAreOrdered, NEW c \in Client, Unsubscribe(c)
    PROVE  QueuesAreOrdered'
<1>1. /\ UNCHANGED <<event, overlap>> /\ targets' = {t \in targets : t[2] # c}
      /\ closed' = closed \cup {e \in Event : <<e, c>> \in targets}
      /\ buffer' = [buffer EXCEPT ![c] = <<>>] /\ got' = [got EXCEPT ![c] = <<>>]
  BY DEF Unsubscribe
<1>2. Seen(c)' = <<>>
  BY <1>1 DEF Seen, WebTypeOK
<1>3. \A b \in Client : b # c => Seen(b)' = Seen(b)
  BY <1>1 DEF Seen, WebTypeOK
<1>4. \A e \in Event : Sending(e)' => Sending(e)
  BY <1>1 DEF Sending
<1>5. \A d, e \in Event : MayFollow(d, e)' <=> MayFollow(d, e)
  BY <1>1 DEF MayFollow
<1>6. DeliveredInOrder'
  <2> SUFFICES ASSUME NEW b \in Client, NEW i \in 1..Len(Seen(b)'),
                      NEW j \in 1..Len(Seen(b)'), i < j
               PROVE  MayFollow(Seen(b)[i], Seen(b)[j])'
    BY DEF DeliveredInOrder
  <2>1. b # c
    BY <1>2
  <2> QED BY <1>1, <1>3, <2>1 DEF QueuesAreOrdered, DeliveredInOrder, MayFollow
<1>7. \A e \in Event, b \in Client : <<e, b>> \in targets' =>
          \A i \in 1..Len(Seen(b)') : MayFollow(Seen(b)[i], e)'
  <2> SUFFICES ASSUME NEW e \in Event, NEW b \in Client, <<e, b>> \in targets',
                      NEW i \in 1..Len(Seen(b)')
               PROVE  MayFollow(Seen(b)[i], e)'
    OBVIOUS
  <2>1. b # c /\ <<e, b>> \in targets
    BY <1>1, <1>2
  <2> QED BY <1>1, <1>3, <2>1 DEF QueuesAreOrdered, MayFollow
<1>8. \A b \in Client : \A i \in 1..Len(Seen(b)') : Seen(b)'[i] <= event'
  BY <1>1, <1>2, <1>3 DEF QueuesAreOrdered
<1>9. \A d, e \in Event : Sending(d)' /\ Sending(e)' /\ d # e => MayFollow(d, e)'
  BY <1>4, <1>5 DEF QueuesAreOrdered
<1>10. \A e \in Event : Sending(e)' => e <= event'
  BY <1>1, <1>4 DEF QueuesAreOrdered
<1> QED BY <1>6, <1>7, <1>8, <1>9, <1>10 DEF QueuesAreOrdered

\* What the handler writes it takes from the front of the queue.
LEMMA WritingKeepsOrder ==
    ASSUME WebTypeOK, QueuesAreOrdered, NEW c \in Client, WriteEvent(c)
    PROVE  QueuesAreOrdered'
<1>1. buffer[c] \in Seq(Event) /\ got[c] \in Seq(Event) /\ buffer[c] # <<>>
  BY DEF WriteEvent, WebTypeOK
<1>2. /\ UNCHANGED <<event, targets, closed, overlap>>
      /\ buffer' = [buffer EXCEPT ![c] = Tail(@)]
      /\ got' = [got EXCEPT ![c] = Append(@, Head(buffer[c]))]
  BY DEF WriteEvent, publishVars
<1>3. Append(got[c], Head(buffer[c])) \o Tail(buffer[c]) = got[c] \o buffer[c]
  BY <1>1, WrittenIsSeen
<1>4. \A b \in Client : Seen(b)' = Seen(b)
  BY <1>2, <1>3 DEF Seen, WebTypeOK
<1>5. \A e \in Event : Sending(e)' <=> Sending(e)
  BY <1>2 DEF Sending
<1>6. DeliveredInOrder'
  BY <1>2, <1>4 DEF QueuesAreOrdered, DeliveredInOrder, MayFollow
<1>7. \A e \in Event, b \in Client : <<e, b>> \in targets' =>
          \A i \in 1..Len(Seen(b)') : MayFollow(Seen(b)[i], e)'
  BY <1>2, <1>4 DEF QueuesAreOrdered, MayFollow
<1>8. \A b \in Client : \A i \in 1..Len(Seen(b)') : Seen(b)'[i] <= event'
  BY <1>2, <1>4 DEF QueuesAreOrdered
<1>9. \A d, e \in Event : MayFollow(d, e)' <=> MayFollow(d, e)
  BY <1>2 DEF MayFollow
<1>10. \A d, e \in Event : Sending(d)' /\ Sending(e)' /\ d # e => MayFollow(d, e)'
  BY <1>5, <1>9 DEF QueuesAreOrdered
<1>11. \A e \in Event : Sending(e)' => e <= event'
  BY <1>2, <1>5 DEF QueuesAreOrdered
<1> QED BY <1>6, <1>7, <1>8, <1>10, <1>11 DEF QueuesAreOrdered

\* No step of any client, of Publish or of its sends brings a queue out of order.
LEMMA QueuesStayOrdered ==
    WebTypeOK /\ QueuesAreOrdered /\ [WebNext]_webVars => QueuesAreOrdered'
<1> SUFFICES ASSUME WebTypeOK, QueuesAreOrdered, [WebNext]_webVars
             PROVE  QueuesAreOrdered'
  OBVIOUS
<1> USE DEF phaseVars, hubVars, publishVars, sessionVars
<1>1. CASE Factory \/ Shutdown \/ Signal \/ ServeFails \/ ScreenChanges
  <2>1. UNCHANGED hubVars
    BY <1>1 DEF Factory, Acquire, AcquireFails, Shutdown, BeginShutdown, Drained,
                GraceElapses, Close, Signal, ServeFails, ScreenChanges
  <2> QED BY <2>1, QuietKeepsOrder
<1>2. CASE Publish
  BY <1>2, PublishKeepsOrder
<1>3. ASSUME NEW e \in Event, PublishStep(e) PROVE QueuesAreOrdered'
  <2>1. CASE SendOnClosed(e)
    BY <2>1, QuietKeepsOrder DEF SendOnClosed
  <2> QED BY <1>3, <2>1, SendKeepsOrder DEF PublishStep
<1>4. ASSUME NEW c \in Client, WriteEvent(c) \/ Unsubscribe(c) PROVE QueuesAreOrdered'
  BY <1>4, WritingKeepsOrder, LeavingKeepsOrder
<1>5. ASSUME NEW c \in Client,
             Subscribe(c) \/ OpenStream(c) \/ PollOutput(c) \/ CloseStream(c)
                 \/ BeginDispatch(c) \/ EndDispatch(c)
      PROVE  QueuesAreOrdered'
  <2>1. UNCHANGED <<buffer, got, event, overlap, targets, closed>>
    BY <1>5 DEF Subscribe, OpenStream, PollOutput, CloseStream, BeginDispatch, EndDispatch
  <2> QED BY <2>1, QuietKeepsOrder
<1>6. CASE UNCHANGED webVars
  BY <1>6, QuietKeepsOrder DEF webVars
<1> QED BY <1>1, <1>2, <1>3, <1>4, <1>5, <1>6 DEF WebNext

\* The invariant of the web server is inductive.
LEMMA WebInvStep == WebInv /\ [WebNext]_webVars => WebInv'
BY WebTyped, FactoryCleansUp, ReturnsDrained, SubscribersStay, QueuesStayOrdered
   DEF WebInv

\* The server closes what it opened, under no handler it waited for; the hub keeps
\* its cap and gives every subscription back; and each subscriber sees the events of
\* Publish calls that do not overlap in their order.  For any clients, cap, buffer size and events.
LEMMA ServerStaysOrderly == WebSpec => []ServerIsOrderly
<1>1. WebInv => ServerIsOrderly
  BY DEF QueuesAreOrdered, WebInv, ServerIsOrderly, OpenedSoFar, ReturnedDrained, ClosedAfterDraining,
         SubscribersHaveHandlers, SubscriptionsAreBalanced
<1> QED BY <1>1, WebInitInv, WebInvStep, PTL DEF WebSpec

---------------------------------------------------------------------------
(* The dispatcher's list *)

\* A set of rows has a first one.
LEMMA FirstRow ==
    ASSUME NEW S \in SUBSET Nat, S # {}
    PROVE  \E x \in S : \A y \in S : x <= y
<1>1. IsWellFoundedOn(OpToRel(<, Nat), Nat)
  BY NatLessThanWellFounded
<1>2. PICK x \in S : \A y \in S : ~(<<y, x>> \in OpToRel(<, Nat))
  BY <1>1, WFMin
<1>3. \A y \in S : ~(y < x)
  BY <1>2 DEF OpToRel
<1> QED BY <1>3

\* Rows are finitely many, and numbers.
LEMMA RowsAreFinite ==
    ASSUME NEW S \in SUBSET Rank
    PROVE  IsFiniteSet(S) /\ Cardinality(S) \in Nat /\ S \in SUBSET Nat
<1>1. 1 \in Int /\ Ranks \in Int /\ 1..Ranks \subseteq Nat
  BY OrderingAssumption
<1>2. IsFiniteSet(Rank)
  BY <1>1, FS_Interval DEF Rank
<1>3. IsFiniteSet(S)
  BY <1>2, FS_Subset
<1> QED BY <1>1, <1>3, FS_CardinalityType DEF Rank

\* The rows before one are finitely many, and fewer than those before a later one.
LEMMA FewerBefore ==
    ASSUME NEW S \in SUBSET Rank, NEW r \in S, NEW q \in S, r < q
    PROVE  /\ Cardinality(Before(r, S)) \in Nat /\ Cardinality(Before(q, S)) \in Nat
           /\ Cardinality(Before(r, S)) < Cardinality(Before(q, S))
<1>1. IsFiniteSet(S) /\ S \in SUBSET Nat
  BY RowsAreFinite
<1>2. IsFiniteSet(Before(r, S)) /\ IsFiniteSet(Before(q, S))
  BY <1>1, FS_Subset DEF Before
<1>3. Before(r, S) \subseteq Before(q, S)
  <2> SUFFICES ASSUME NEW o \in Before(r, S) PROVE o \in Before(q, S)
    OBVIOUS
  <2>1. o \in S /\ o < r /\ o \in Nat /\ r \in Nat /\ q \in Nat
    BY <1>1 DEF Before
  <2>2. o < q
    BY <2>1
  <2> QED BY <2>1, <2>2 DEF Before
<1>4. r \in Before(q, S) /\ r \notin Before(r, S)
  <2>1. r \in Nat /\ ~(r < r)
    BY <1>1
  <2> QED BY <2>1 DEF Before
<1> QED BY <1>2, <1>3, <1>4, FS_Subset, FS_CardinalityType

\* Every place of the list has its row.
LEMMA PlaceHasRow ==
    ASSUME NEW S \in SUBSET Rank, NEW n \in Nat, n < Cardinality(S)
    PROVE  \E r \in S : Cardinality(Before(r, S)) = n
<1> DEFINE Empty == {k \in Nat : k < Cardinality(S) /\ \A r \in S : Cardinality(Before(r, S)) # k}
<1>1. IsFiniteSet(S) /\ Cardinality(S) \in Nat /\ S \in SUBSET Nat
  BY RowsAreFinite
<1>2. SUFFICES ASSUME Empty # {} PROVE FALSE
  OBVIOUS
<1>3. PICK k \in Empty : \A m \in Empty : k <= m
  BY <1>2, FirstRow
<1>4. CASE k = 0
  <2>1. S # {}
    BY <1>1, <1>3, <1>4, FS_EmptySet
  <2>2. PICK r \in S : \A y \in S : r <= y
    BY <1>1, <2>1, FirstRow
  <2>3. \A o \in S : o \in Nat /\ r \in Nat /\ r <= o /\ ~(o < r)
    BY <1>1, <2>2
  <2>4. Before(r, S) = {}
    BY <2>3 DEF Before
  <2> QED BY <1>3, <1>4, <2>4, FS_EmptySet
<1>5. CASE k > 0
  <2>1. k \in Nat /\ k - 1 \in Nat /\ k - 1 < Cardinality(S) /\ k - 1 \notin Empty
    BY <1>1, <1>3, <1>5
  <2>2. PICK r \in S : Cardinality(Before(r, S)) = k - 1
    BY <2>1
  <2> DEFINE Behind == {o \in S : r < o}
  <2>3. IsFiniteSet(Before(r, S)) /\ r \notin Before(r, S)
    <3>1. r \in Nat /\ ~(r < r)
      BY <1>1
    <3> QED BY <1>1, <3>1, FS_Subset DEF Before
  <2>4. Cardinality(Before(r, S) \cup {r}) = k
    <3>1. Cardinality(Before(r, S) \cup {r}) = Cardinality(Before(r, S)) + 1
      BY <2>3, FS_AddElement
    <3> QED BY <2>1, <2>2, <3>1
  <2>5. Behind # {}
    <3>0. S # Before(r, S) \cup {r}
      <4>1. k \in Nat /\ k < Cardinality(S)
        BY <1>3
      <4> HIDE DEF Empty
      <4> QED BY <1>1, <2>4, <4>1
    <3> SUFFICES ASSUME Behind = {} PROVE S = Before(r, S) \cup {r}
      BY <3>0
    <3>1. \A o \in S : o < r \/ o = r
      <4> TAKE o \in S
      <4>1. o \in Nat /\ r \in Nat /\ ~(r < o)
        BY <1>1
      <4> QED BY <4>1
    <3> QED BY <3>1 DEF Before
  <2>6. PICK q \in Behind : \A y \in Behind : q <= y
    BY <1>1, <2>5, FirstRow
  <2>7. Before(q, S) = Before(r, S) \cup {r}
    <3>1. \A o \in S : o < q <=> o < r \/ o = r
      <4> TAKE o \in S
      <4>1. o \in Nat /\ r \in Nat /\ q \in Nat /\ r < q /\ (r < o => q <= o)
        BY <1>1, <2>6
      <4> QED BY <4>1
    <3> QED BY <3>1 DEF Before
  <2> QED BY <1>3, <2>4, <2>6, <2>7
<1> QED BY <1>3, <1>4, <1>5

Rising(s) == \A i, j \in 1..Len(s) : i < j => s[i] < s[j]

\* The list has the rows of S, each once, the first ones first.
LEMMA InOrderRises ==
    ASSUME NEW S \in SUBSET Rank
    PROVE  InOrder(S) \in Seq(S) /\ Len(InOrder(S)) = Cardinality(S) /\ Rising(InOrder(S))
<1>1. Cardinality(S) \in Nat
  BY RowsAreFinite
<1>2. ASSUME NEW i \in 1..Cardinality(S)
      PROVE  InOrder(S)[i] \in S /\ Cardinality(Before(InOrder(S)[i], S)) = i - 1
  <2>1. \E r \in S : Cardinality(Before(r, S)) = i - 1
    BY <1>1, PlaceHasRow
  <2> QED BY <2>1 DEF InOrder
<1>3. InOrder(S) \in [1..Cardinality(S) -> S]
  <2>1. InOrder(S) = [i \in 1..Cardinality(S) |-> InOrder(S)[i]]
    BY DEF InOrder
  <2> QED BY <1>2, <2>1
<1>4. InOrder(S) \in Seq(S) /\ Len(InOrder(S)) = Cardinality(S)
  BY <1>1, <1>3
<1>5. ASSUME NEW i \in 1..Cardinality(S), NEW j \in 1..Cardinality(S), i < j
      PROVE  InOrder(S)[i] < InOrder(S)[j]
  <2> DEFINE r == InOrder(S)[i]
  <2> DEFINE q == InOrder(S)[j]
  <2>1. r \in S /\ q \in S /\ Cardinality(Before(r, S)) = i - 1 /\ Cardinality(Before(q, S)) = j - 1
    BY <1>2
  <2> HIDE DEF r, q
  <2>2. r \in Nat /\ q \in Nat
    BY <2>1, OrderingAssumption DEF Rank
  <2>3. ~(q < r)
    BY <1>1, <1>5, <2>1, FewerBefore
  <2>4. q # r
    BY <1>1, <1>5, <2>1
  <2>5. r < q
    BY <2>2, <2>3, <2>4
  <2> QED BY <2>5 DEF r, q
<1> QED BY <1>4, <1>5 DEF Rising

\* What a Run has still to try is in order, and it may dispatch one more of it.
OrderingInv == OrderingTypeOK /\ Rising(batch) /\ (batch # <<>> => budget > 0)

LEMMA OrderingInitInv == OrderingInit => OrderingInv
BY OrderingAssumption
   DEF OrderingInit, OrderingInv, OrderingTypeOK, Rising

\* The rest of what is left is in order too.
LEMMA RestRises ==
    ASSUME NEW s \in Seq(Rank), s # <<>>, Rising(s)
    PROVE  /\ Tail(s) \in Seq(Rank) /\ Len(Tail(s)) = Len(s) - 1 /\ Rising(Tail(s))
           /\ Head(s) \in Rank /\ \A i \in 1..Len(s) : Head(s) <= s[i]
<1>1. /\ Tail(s) \in Seq(Rank) /\ Len(Tail(s)) = Len(s) - 1 /\ Len(s) \in Nat \ {0}
      /\ \A i \in 1..Len(Tail(s)) : Tail(s)[i] = s[i + 1]
  OBVIOUS
<1>2. Rising(Tail(s))
  BY <1>1 DEF Rising
<1>3. Head(s) = s[1] /\ \A i \in 1..Len(s) : s[i] \in Rank
  BY <1>1
<1>4. \A i \in 1..Len(s) : Head(s) <= s[i]
  BY <1>1, <1>3, OrderingAssumption DEF Rising, Rank
<1> QED BY <1>1, <1>2, <1>3, <1>4

LEMMA ListKeepsOrder == ASSUME OrderingInv, ListCandidates PROVE OrderingInv'
<1> DEFINE s == InOrder(Pending)
<1> DEFINE n == IF Len(s) < Limit THEN Len(s) ELSE Limit
<1>1. Pending \in SUBSET Rank
  BY DEF Pending
<1>2. s \in Seq(Pending) /\ Len(s) \in Nat /\ Rising(s)
  BY <1>1, InOrderRises
<1>3. s \in Seq(Rank)
  BY <1>1, <1>2
<1>4. Limit \in Nat /\ Limit = 4 * Parallel /\ Parallel \in Nat \ {0}
  BY OrderingAssumption DEF Limit
<1>5. /\ batch' = SubSeq(s, 1, n) /\ budget' = Parallel
      /\ UNCHANGED <<state, named, keyed, reopens>>
  BY DEF ListCandidates, FirstOf
<1> HIDE DEF s
<1>6. n \in 0..Len(s) /\ n <= 4 * Parallel
  BY <1>2, <1>4
<1> HIDE DEF n
<1>7. batch' \in Seq(Rank) /\ Len(batch') = n /\ \A i \in 1..n : batch'[i] = s[i]
  BY <1>2, <1>3, <1>5, <1>6, SubSeqProperties
<1>8. Rising(batch')
  BY <1>2, <1>6, <1>7 DEF Rising
<1>9. OrderingTypeOK'
  BY <1>4, <1>5, <1>6, <1>7 DEF OrderingInv, OrderingTypeOK
<1>10. budget' > 0
  BY <1>4, <1>5
<1> QED BY <1>8, <1>9, <1>10 DEF OrderingInv, Rising

LEMMA TryKeepsOrder ==
    ASSUME OrderingInv, TryHead
    PROVE  /\ OrderingInv'
           /\ \A r \in Rank : state[r] = "pending" /\ state'[r] = "running" =>
                  \A i \in 1..Len(batch) : r <= batch[i]
<1> DEFINE h == Head(batch)
<1>1. /\ batch \in Seq(Rank) /\ batch # <<>> /\ Rising(batch) /\ budget \in 1..Parallel
      /\ Len(batch) \in Nat /\ Len(batch) <= 4 * Parallel /\ Parallel \in Nat
  BY OrderingAssumption DEF TryHead, OrderingInv, OrderingTypeOK
<1>2. /\ Tail(batch) \in Seq(Rank) /\ Len(Tail(batch)) = Len(batch) - 1
      /\ Rising(Tail(batch)) /\ h \in Rank /\ \A i \in 1..Len(batch) : h <= batch[i]
  BY <1>1, RestRises
<1> HIDE DEF h
<1>3. CASE batch' = Tail(batch) /\ UNCHANGED <<state, named, budget, reopens>>
           /\ (keyed' = keyed \/ keyed' = keyed \ {h})
  <2>1. OrderingTypeOK'
    BY <1>1, <1>2, <1>3 DEF OrderingInv, OrderingTypeOK
  <2> QED BY <1>1, <1>2, <1>3, <2>1 DEF OrderingInv, OrderingTypeOK, Rising
<1>4. CASE Dispatch(h) /\ UNCHANGED reopens
  <2>1. /\ state' = [state EXCEPT ![h] = "running"] /\ named' = named \cup {h}
        /\ keyed' \in {keyed, keyed \cup {h}} /\ budget' = budget - 1
        /\ batch' = IF budget = 1 THEN <<>> ELSE Tail(batch)
    BY <1>4 DEF Dispatch, Taken
  <2>2. /\ state' \in [Rank -> {"pending", "running", "waiting_human", "done"}]
        /\ named' \subseteq Rank /\ keyed' \subseteq Rank
    BY <1>2, <2>1 DEF OrderingInv, OrderingTypeOK
  <2>3. batch' \in Seq(Rank) /\ Len(batch') <= 4 * Parallel /\ Rising(batch')
    BY <1>1, <1>2, <2>1 DEF Rising
  <2>4. budget' \in 0..Parallel /\ (batch' # <<>> => budget' > 0)
    BY <1>1, <2>1
  <2>5. OrderingInv'
    BY <1>4, <2>2, <2>3, <2>4 DEF OrderingInv, OrderingTypeOK, Rising
  <2>6. \A r \in Rank : state[r] = "pending" /\ state'[r] = "running" => r = h
    BY <2>1 DEF OrderingInv, OrderingTypeOK
  <2> QED BY <1>2, <2>5, <2>6
<1> QED BY <1>3, <1>4 DEF TryHead, LoseClaim, h

\* Nothing but a Run's turn starts a row, and nothing else touches the list.
LEMMA OthersKeepOrder ==
    ASSUME OrderingInv, NEW r \in Rank, Ends(r) \/ AsksHuman(r) \/ HumanAnswers(r) \/ Reopen(r)
    PROVE  OrderingInv' /\ \A o \in Rank : state[o] = "pending" => state'[o] # "running"
<1>1. UNCHANGED <<keyed, batch, budget>> /\ named' \in {named, named \ {r}}
  BY DEF Ends, AsksHuman, HumanAnswers, Reopen
<1>2. PICK to \in {"done", "waiting_human", "pending"} : state' = [state EXCEPT ![r] = to]
  BY DEF Ends, AsksHuman, HumanAnswers, Reopen
<1>3. reopens' \in 0..MaxReopens
  BY OrderingAssumption
     DEF Ends, AsksHuman, HumanAnswers, Reopen, OrderingInv, OrderingTypeOK
<1>4. OrderingTypeOK'
  BY <1>1, <1>2, <1>3 DEF OrderingInv, OrderingTypeOK
<1>5. \A o \in Rank : state[o] = "pending" => state'[o] # "running"
  BY <1>2 DEF OrderingInv, OrderingTypeOK
<1> QED BY <1>1, <1>4, <1>5 DEF OrderingInv, Rising

\* The list is in order, with any rows, keys and parallelism.
LEMMA ListIsInOrder == OrderingSpec => []OrderingTypeOK /\ BatchKeepsOrder
<1> DEFINE InTurn == \A r \in Rank : state[r] = "pending" /\ state'[r] = "running" =>
                         \A i \in 1..Len(batch) : r <= batch[i]
<1>1. OrderingInv /\ [OrderingNext]_orderingVars => OrderingInv' /\ InTurn
  <2> SUFFICES ASSUME OrderingInv, [OrderingNext]_orderingVars PROVE OrderingInv' /\ InTurn
    OBVIOUS
  <2>1. CASE UNCHANGED orderingVars
    BY <2>1 DEF orderingVars, OrderingInv, OrderingTypeOK, Rising
  <2>2. CASE ListCandidates
    <3>1. UNCHANGED state
      BY <2>2 DEF ListCandidates
    <3> QED BY <2>2, <3>1, ListKeepsOrder
  <2>3. CASE TryHead
    BY <2>3, TryKeepsOrder
  <2>4. ASSUME NEW r \in Rank, Ends(r) \/ AsksHuman(r) \/ HumanAnswers(r) \/ Reopen(r)
        PROVE  OrderingInv' /\ InTurn
    BY <2>4, OthersKeepOrder
  <2> QED BY <2>1, <2>2, <2>3, <2>4 DEF OrderingNext, DispatchRun
<1>2. OrderingInv => OrderingTypeOK
  BY DEF OrderingInv
<1> QED BY <1>1, <1>2, OrderingInitInv, PTL DEF OrderingSpec, BatchKeepsOrder

---------------------------------------------------------------------------
(* The run that checks them *)

\* A behaviour of MCExecution is one of each component, so what is proved of the
\* components holds in it, for every value of its constants.
LEMMA PartsOfTheRun == Spec => BackendSpec /\ WebSpec /\ OrderingSpec
<1>1. Init => BackendInit /\ WebInit /\ OrderingInit
  BY DEF Init
<1>2. [Next]_vars =>
          [BackendNext]_backendVars /\ [WebNext]_webVars /\ [OrderingNext]_orderingVars
  BY DEF Next, vars, OnBackend, OnWeb, OnOrder
<1> QED BY <1>1, <1>2, PTL DEF Spec, BackendSpec, WebSpec, OrderingSpec

\* A row has at most one Claude, in a pane that its row knows, except for the
\* lost reply that the property names; for any panes and mishaps.
THEOREM RowHasOneClaude == Spec => []OneClaudePerRow
BY PartsOfTheRun, BackendsAreTrue, PTL

\* What a backend answers of prompts, exits and sessions is so, for any panes
\* and mishaps.
THEOREM BackendsAnswerTruly == Spec => []AnswersAreTrue
BY PartsOfTheRun, BackendsAreTrue, PTL

\* Every backend keeps the contract of exec.Executor for its row: each of its
\* steps is one of the contract's or cannot be seen in it.
THEOREM BackendsImplementExecutor == Spec => ImplementsExecutor
BY PartsOfTheRun, BackendsKeepContract, PTL

\* The web server leaves nothing open, waits for its handlers, keeps the hub's
\* books and the order of events whose Publish calls do not overlap; for any
\* clients, caps, buffers and events.
THEOREM ServerIsAlwaysOrderly == Spec => []ServerIsOrderly
BY PartsOfTheRun, ServerStaysOrderly, PTL

\* A Run lists no more than four times as many rows as it may dispatch, and no
\* row starts before the ones that are dispatched first and are in the list too;
\* for any rows, keys and parallelism.
THEOREM ListStaysInOrder == Spec => []OrderingTypeOK /\ BatchKeepsOrder
BY PartsOfTheRun, ListIsInOrder, PTL
==============================================================================
