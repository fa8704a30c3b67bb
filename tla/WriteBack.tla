------------------------------ MODULE WriteBack ------------------------------
(***************************************************************************)
(* Complete, Delete and Add of the remote sources: what a call does         *)
(* upstream, request by request, for ONE task.  A request may fail, or do   *)
(* its work and lose its reply; the user works in the same account; and a   *)
(* caller that was given an error may call again.                           *)
(*                                                                         *)
(* googletasks has to find the list that holds the id first; github comments*)
(* before it closes; the Slack sources only post a message.                 *)
(***************************************************************************)
EXTENDS Naturals, Sequences, FiniteSets

CONSTANTS
    TaskLists,   \* googletasks: the account's lists in their order
    MaxTries     \* bound: calls

Place == {TaskLists[i] : i \in DOMAIN TaskLists}

ASSUME WriteBackAssumption == TaskLists \in Seq(Place) \ {<<>>} /\ MaxTries \in Nat

VARIABLES
    plugin,     \* the source the task is from
    task,       \* task[l]: the task's state in list l (one place, except googletasks)
    posts,      \* comments or messages posted
    op, at,     \* the call in progress and the request it is at
    todo,       \* lists findTaskList has still to read
    found,      \* lists it has found the id in
    result,     \* what the last call answered
    tries,
    acted,      \* the places the last call has changed
    held,       \* the places that held the task when the last call began
    unsure      \* the user has touched the task since, or a full page hid it

callVars == <<op, at, todo, found, result, tries, acted, held, unsure>>
writeBackVars == <<plugin, task, posts, callVars>>

Home == TaskLists[1]
Holders == {l \in Place : task[l] # "none"}
HasState == {"googletasks", "github", "gmail", "notion"}
Completers == HasState \cup {"slack", "reaction"}
Deleters == {"googletasks", "notion"}

WriteBackTypeOK ==
    /\ plugin \in Completers
    /\ task \in [Place -> {"none", "open", "done"}]
    /\ op \in {"none", "complete", "delete"}
    /\ at \in {"none", "find", "comment", "dm", "change"}
    /\ result \in {"none", "ok", "error", "not_found", "ambiguous"}
    /\ acted \cup held \cup found \subseteq Place
    /\ tries \in 0..MaxTries /\ posts \in 0..MaxTries

\* googletasks ids are unique in a list only.
WriteBackInit ==
    /\ plugin \in Completers
    /\ \E H \in SUBSET Place :
           /\ plugin # "googletasks" => H = {Home}
           /\ task = [l \in Place |-> IF l \in H THEN "open" ELSE "none"]
    /\ posts = 0 /\ op = "none" /\ at = "none" /\ todo = <<>> /\ found = {}
    /\ result = "none" /\ tries = 0 /\ acted = {} /\ held = {} /\ unsure = FALSE

FirstRequest ==
    CASE plugin = "googletasks" -> "find"
      [] plugin = "github" -> "comment"
      [] plugin = "reaction" -> "dm"
      [] OTHER -> "change"

\* A call that has answered ok is not repeated.
Call ==
    /\ op = "none" /\ result # "ok" /\ tries < MaxTries
    /\ \E o \in {"complete", "delete"} :
           /\ o = "delete" => plugin \in Deleters
           /\ op' = o
    /\ at' = FirstRequest /\ tries' = tries + 1 /\ result' = "none"
    /\ todo' = IF plugin = "googletasks" THEN TaskLists ELSE <<>>
    /\ found' = IF plugin = "googletasks" THEN {} ELSE {Home}
    /\ acted' = {} /\ held' = Holders /\ unsure' = FALSE
    /\ UNCHANGED <<plugin, task, posts>>

Answer(r) == op' = "none" /\ at' = "none" /\ todo' = <<>> /\ found' = {} /\ result' = r

\* A mutant: one of the holders will do.
NeverAmbiguous(S) == FALSE

Ambiguous(S) == Cardinality(S) > 1

\* findTaskList: it reads every list, so that a second holder is noticed.
FindIn ==
    /\ at = "find" /\ todo # <<>>
    /\ LET l == Head(todo)
           now == IF task[l] # "none" THEN found \cup {l} ELSE found
       IN IF Ambiguous(now)
          THEN Answer("ambiguous")
          ELSE found' = now /\ todo' = Tail(todo) /\ UNCHANGED <<op, at, result>>
    /\ UNCHANGED <<plugin, task, posts, tries, acted, held, unsure>>

\* The gws client reads the first hundred tasks of a list and no more.
FindPastPage ==
    /\ at = "find" /\ todo # <<>> /\ task[Head(todo)] # "none"
    /\ todo' = Tail(todo) /\ unsure' = TRUE
    /\ UNCHANGED <<plugin, task, posts, op, at, found, result, tries, acted, held>>

Found ==
    /\ at = "find" /\ todo = <<>>
    /\ IF found = {} THEN Answer("not_found")
       ELSE at' = "change" /\ UNCHANGED <<op, todo, found, result>>
    /\ UNCHANGED <<plugin, task, posts, tries, acted, held, unsure>>

\* gh issue comment; then gh issue close.
Comment ==
    /\ at = "comment" /\ posts' = posts + 1
    /\ at' = "change" /\ UNCHANGED <<op, todo, found, result>>
    /\ UNCHANGED <<plugin, task, tries, acted, held, unsure>>

CommentReplyIsLost ==
    /\ at = "comment" /\ posts' = posts + 1 /\ Answer("error")
    /\ UNCHANGED <<plugin, task, tries, acted, held, unsure>>

\* conversations.open
OpenDM ==
    /\ at = "dm" /\ at' = "change" /\ UNCHANGED <<op, todo, found, result>>
    /\ UNCHANGED <<plugin, task, posts, tries, acted, held, unsure>>

Chosen == CHOOSE l \in found : TRUE

Becomes(state) ==
    /\ task[Chosen] # "none" /\ acted' = {Chosen}
    /\ task' = [task EXCEPT ![Chosen] = state] /\ UNCHANGED posts

\* What the request does for each source.  Archiving is notion's Complete and
\* its Delete.
CloseIssue   == plugin = "github" /\ Becomes("done")
ModifyLabels == plugin = "gmail" /\ Becomes("done")
UpdatePage   == plugin = "notion" /\ Becomes("done")
PatchTask    == plugin = "googletasks" /\ op = "complete" /\ Becomes("done")
DeleteTask   == plugin = "googletasks" /\ op = "delete" /\ Becomes("none")
PostDM == plugin \in {"slack", "reaction"} /\ posts' = posts + 1 /\ UNCHANGED <<task, acted>>

\* The reply may be lost.
Change ==
    /\ at = "change" /\ (Answer("ok") \/ Answer("error"))
    /\ \/ CloseIssue \/ ModifyLabels \/ UpdatePage
       \/ PatchTask \/ DeleteTask \/ PostDM
    /\ UNCHANGED <<plugin, tries, held, unsure>>

\* The task is not in that list any more (the gws client has no such answer).
ChangeFindsNothing ==
    /\ at = "change" /\ plugin \in HasState /\ task[Chosen] = "none"
    /\ Answer("not_found") \/ Answer("error")
    /\ UNCHANGED <<plugin, task, posts, tries, acted, held, unsure>>

RequestFails ==
    /\ at # "none" /\ Answer("error")
    /\ UNCHANGED <<plugin, task, posts, tries, acted, held, unsure>>

\* The user removes the task or moves it to another list.
UserMoves ==
    /\ op # "none" /\ ~unsure /\ unsure' = TRUE
    /\ \E l \in Holders :
           \/ task' = [task EXCEPT ![l] = "none"]
           \/ \E k \in Place \ Holders :
                  /\ plugin = "googletasks"
                  /\ task' = [task EXCEPT ![l] = "none", ![k] = task[l]]
    /\ UNCHANGED <<plugin, posts, op, at, todo, found, result, tries, acted, held>>

WriteBackNext ==
    \/ Call \/ FindIn \/ FindPastPage \/ Found \/ Comment \/ CommentReplyIsLost \/ OpenDM
    \/ Change \/ ChangeFindsNothing \/ RequestFails \/ UserMoves

WriteBackSpec == WriteBackInit /\ [][WriteBackNext]_writeBackVars

---------------------------------------------------------------------------

\* A call changes the task only where the id names one task: while the user
\* keeps away and the lists fit a page it never picks one of two, and ok means that it was changed.
ActsOnTheOneTask ==
    /\ acted # {} /\ ~unsure => held = acted
    /\ result = "ok" /\ plugin \in {"googletasks", "github", "gmail", "notion"} =>
           Cardinality(acted) = 1

\* "Not found" is true: no list held the task, unless the user moved it while
\* the lists were read or it is behind a first page.
NotFoundMeansGone == result = "not_found" /\ ~unsure => held = {}

\* An issue is not closed without the comment; what is posted is posted once per
\* try, so again only when the try before was answered with an error.
SaysItOncePerTry ==
    /\ posts <= tries
    /\ plugin = "github" /\ acted # {} => posts >= 1
    /\ posts > 1 => tries > 1

\* A call upstream does what it was asked for, to the one task its id names and
\* once per try, and answers what it did.
CallsActOnce == WriteBackTypeOK /\ ActsOnTheOneTask /\ NotFoundMeansGone /\ SaysItOncePerTry
=============================================================================
