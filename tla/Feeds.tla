-------------------------------- MODULE Feeds --------------------------------
(***************************************************************************)
(* How the remote sources (slack, slack/reaction, github, gmail, notion,    *)
(* googletasks, calendar) read their upstream, and what the cursor that     *)
(* collect.Gather moves afterwards lets fall through.  Pipeline.tla has the *)
(* rest of a collect; here one source is read round after round while items *)
(* appear, are edited and are closed upstream.                              *)
(*                                                                         *)
(* A source is one of the kinds below; "_own" is the plugin with a          *)
(* Checkpointer of its own, which Gather's cursor does not reach.           *)
(***************************************************************************)
EXTENDS Naturals, FiniteSets

CONSTANTS
    Item,      \* what upstream holds
    Page,      \* items one request returns at most, where nobody asks for more
    MaxTime    \* bound: the clock

ASSUME FeedAssumption == Page \in Nat /\ MaxTime \in Nat \ {0}

\* What an upstream client answers: "newest" items first or "any", both cut at
\* one page, or the "whole" list page after page; a refused request may pass
\* for an empty page; an item may appear with an old stamp.
Client(page, silent, old) == [page |-> page, silent |-> silent, old |-> old]

SlackHistory   == Client("newest", TRUE, FALSE)
ReactedHistory == Client("newest", TRUE, TRUE)     \* of a message of any age
GhSearch       == Client("any", FALSE, FALSE)
GmailMessages  == Client("newest", FALSE, TRUE)    \* an old mail is marked unread
NotionQuery    == Client("whole", FALSE, FALSE)    \* follows next_cursor
TaskPages      == Client("any", FALSE, FALSE)
EventPage      == Client("any", FALSE, FALSE)

\* What Since makes of it: whose cursor it reads with ("gather", its "own" or
\* "none"), its requests, and the items it passes: those "after" the cursor,
\* "from" it on, or all up to the "mark" it left.
Feed(client, owner, requests, passes) ==
    [client |-> client, owner |-> owner, requests |-> requests, passes |-> passes]

SlackFeed(owner)  == Feed(SlackHistory, owner, 2, "after")
ReactionFeed      == Feed(ReactedHistory, "gather", 1, "after")
GithubFeed        == Feed(GhSearch, "gather", 2, "from")
GmailFeed(owner)  == Feed(GmailMessages, owner, 1, IF owner = "own" THEN "mark" ELSE "from")
NotionFeed(owner) == Feed(NotionQuery, owner, 1, "from")
GoogleTasksFeed   == Feed(TaskPages, "none", 1, "from")
CalendarFeed      == Feed(EventPage, "none", 1, "from")

Feeds ==
    [slack |-> SlackFeed("gather"), slack_own |-> SlackFeed("own"), reaction |-> ReactionFeed,
     github |-> GithubFeed, gmail |-> GmailFeed("none"), gmail_own |-> GmailFeed("own"),
     notion |-> NotionFeed("none"), notion_own |-> NotionFeed("own"),
     googletasks |-> GoogleTasksFeed, calendar |-> CalendarFeed]

Kinds == DOMAIN Feeds

VARIABLES
    kind,
    second,    \* the items the second request finds (DMs, pull requests)
    time,
    stamp,     \* stamp[i]: the time upstream filters and sorts i by, 0 before it exists
    open,      \* the items upstream reports as open
    phase,     \* where the round is
    cursor,    \* the stored checkpoint, 0 for none
    since,     \* the checkpoint this round reads with
    got,       \* the items this round was given
    base,      \* the items open when the round began
    changed,   \* the items that appeared or were edited since then
    queued,    \* the items that have a row
    due,       \* the items without a row that a round that ended well had to find
    why        \* the reasons an item without a row may have been missed for

upstreamVars == <<second, time, stamp, open>>
feedVars == <<kind, upstreamVars, phase, cursor, since, got, base, changed, queued, due, why>>

Owner == Feeds[kind].owner
Requests == Feeds[kind].requests
Marked == Feeds[kind].passes = "mark"
Exact == Feeds[kind].passes # "from"      \* the stamps are finer than the clock
Upstream == Feeds[kind].client

Reasons == {"page", "silent", "raced", "old", "died"}

FeedTypeOK ==
    /\ kind \in Kinds /\ second \subseteq Item /\ time \in 1..MaxTime
    /\ stamp \in [Item -> 0..MaxTime] /\ open \subseteq Item
    /\ phase \in {"idle", "first", "second", "persist", "advance", "record"}
    /\ cursor \in 0..MaxTime /\ since \in 0..MaxTime
    /\ got \cup base \cup changed \cup queued \cup due \subseteq Item
    /\ why \subseteq Item \X Reasons

FeedInit ==
    /\ kind \in Kinds /\ time = 1
    /\ second \in (IF Requests = 2 THEN SUBSET Item ELSE {{}})
    /\ stamp = [i \in Item |-> 0] /\ open = {}
    /\ phase = "idle" /\ cursor = 0 /\ since = 0
    /\ got = {} /\ base = {} /\ changed = {} /\ queued = {} /\ due = {} /\ why = {}

Blame(S, reason) == (S \ queued) \X {reason}

---------------------------------------------------------------------------
\* Upstream

\* Slack's and gmail's stamps are finer than anything that happens here; those
\* of the others may be equal.
Clock == /\ time' \in IF Exact THEN {time + 1} ELSE {time, time + 1}
         /\ time' <= MaxTime

\* A reaction is put on a message of any age, an old mail is marked unread.
Appear(i) ==
    /\ stamp[i] = 0 /\ open' = open \cup {i} /\ changed' = changed \cup {i}
    /\ \/ Clock /\ stamp' = [stamp EXCEPT ![i] = time'] /\ UNCHANGED why
       \/ /\ Upstream.old /\ Owner # "none" /\ UNCHANGED time
          /\ \E s \in 1..time : /\ \A j \in Item : stamp[j] # s
                                /\ stamp' = [stamp EXCEPT ![i] = s]
          /\ why' = why \cup {<<i, "old">>}
    /\ UNCHANGED <<kind, second, phase, cursor, since, got, base, queued, due>>

Edit(i) ==
    /\ i \in open /\ kind \in {"github", "notion", "notion_own"}
    /\ Clock /\ stamp' = [stamp EXCEPT ![i] = time'] /\ changed' = changed \cup {i}
    /\ UNCHANGED <<kind, second, open, phase, cursor, since, got, base, queued, due, why>>

Close(i) ==
    /\ i \in open /\ open' = open \ {i}
    /\ UNCHANGED <<kind, second, time, stamp, phase, cursor, since, got, base, changed,
                   queued, due, why>>

---------------------------------------------------------------------------
\* One round

BeginRound ==
    /\ phase = "idle" /\ phase' = "first"
    /\ since' = IF Owner = "none" THEN 0 ELSE cursor
    /\ got' = {} /\ base' = open /\ changed' = {}
    /\ UNCHANGED <<kind, upstreamVars, cursor, queued, due, why>>

\* What the upstream query lets through (gmail's asks for no time).
Passes(i, after) == IF Exact THEN stamp[i] > after ELSE stamp[i] >= after

RequestItems(n) == IF n = 1 THEN Item \ second ELSE second
Matching(n) == {i \in open \cap RequestItems(n) : Marked \/ Passes(i, since)}

\* gmail cuts the page at the newest mail of the last round, if it is still there.
Newer(P) == IF Marked /\ \E i \in P : stamp[i] = since
            THEN {i \in P : stamp[i] > since} ELSE P

\* Slack, gmail and the reactions come newest first; github in any order.
FirstPage(S) ==
    IF Upstream.page = "whole" \/ Cardinality(S) <= Page THEN {S}
    ELSE {P \in SUBSET S : /\ Cardinality(P) = Page
                           /\ \/ Upstream.page = "any"
                              \/ \A i \in P, j \in S \ P : stamp[i] >= stamp[j]}

AfterRequest(n) ==
    IF n < Requests THEN "second"
    ELSE IF Owner = "own" THEN "persist" ELSE "advance"

\* slack and reaction fetchHistory: "endpoint not supported by this server".
Refused(n) == /\ Upstream.silent /\ UNCHANGED got
              /\ why' = why \cup Blame(Matching(n), "silent")

Answered(n) == \E P \in FirstPage(Matching(n)) :
                   /\ got' = got \cup Newer(P)
                   /\ why' = why \cup Blame(Matching(n) \ P, "page")

Fetch(n) ==
    /\ phase = (IF n = 1 THEN "first" ELSE "second")
    /\ Answered(n) \/ Refused(n)
    /\ phase' = AfterRequest(n)
    /\ UNCHANGED <<kind, upstreamVars, cursor, since, base, changed, queued, due>>

\* An error of one request is one of the source: its cursor stays where it was.
FetchFails ==
    /\ phase \in {"first", "second", "persist"}
    /\ phase' = "idle" /\ got' = {}
    /\ UNCHANGED <<kind, upstreamVars, cursor, since, base, changed, queued, due, why>>

Latest(S) == CHOOSE s \in {stamp[i] : i \in S} : \A i \in S : stamp[i] <= s

\* What came in during the round and is now behind the cursor.
Raced(c) == {i \in open \cap changed : i \notin got /\ ~Passes(i, c)}

\* The plugin's own checkpoint: the latest stamp it was given.  Slack and notion
\* store it only if it is later than the one they began with.
Persist ==
    /\ phase = "persist" /\ phase' = "advance"
    /\ LET c == IF got # {} /\ (Latest(got) > since \/ Marked)
                THEN Latest(got) ELSE cursor
       IN cursor' = c /\ why' = why \cup Blame(Raced(c), "raced")
    /\ UNCHANGED <<kind, upstreamVars, since, got, base, changed, queued, due>>

\* Gather stores the time of now; a failure is reported and the items kept.
Advance ==
    /\ phase = "advance" /\ phase' = "record"
    /\ \/ /\ Owner = "gather"
          /\ cursor' = time /\ why' = why \cup Blame(Raced(time), "raced")
       \/ UNCHANGED <<cursor, why>>
    /\ UNCHANGED <<kind, upstreamVars, since, got, base, changed, queued, due>>

Record ==
    /\ phase = "record" /\ phase' = "idle"
    /\ queued' = queued \cup got /\ due' = (due \cup base) \ queued'
    /\ why' = {w \in why : w[1] \notin queued'}
    /\ got' = {} /\ base' = {} /\ changed' = {}
    /\ UNCHANGED <<kind, upstreamVars, cursor, since>>

\* The process dies, or the caller fails, with items in hand.
Dies ==
    /\ phase \in {"advance", "record"} /\ phase' = "idle"
    /\ why' = why \cup Blame({i \in got : ~Passes(i, cursor)}, "died")
    /\ got' = {}
    /\ UNCHANGED <<kind, upstreamVars, cursor, since, base, changed, queued, due>>

FeedNext ==
    \/ \E i \in Item : Appear(i) \/ Edit(i) \/ Close(i)
    \/ BeginRound \/ Fetch(1) \/ Fetch(2) \/ FetchFails
    \/ Persist \/ Advance \/ Record \/ Dies

FeedSpec == FeedInit /\ [][FeedNext]_feedVars

---------------------------------------------------------------------------

\* What each kind of source may miss for good.  Those without a cursor read
\* everything again and miss only what a full first page hides.
MayMiss ==
    CASE kind = "slack"      -> {"page", "silent", "raced", "died"}
      [] kind = "slack_own"  -> {"page", "silent", "raced", "died"}
      [] kind = "reaction"   -> Reasons
      [] kind = "github"     -> {"page", "raced", "died"}
      [] kind = "gmail_own"  -> {"page", "old", "died"}
      [] kind = "notion_own" -> {"died", "raced"}
      [] kind = "notion"     -> {}
      [] OTHER               -> {"page"}

\* Once a round that began with an item open has ended well, the item has its
\* row, unless the source is of a kind that loses items in just this way.  That
\* a request failed is never a reason.
NothingIsMissed ==
    phase = "idle" => \A i \in due \cap open : \E r \in MayMiss : <<i, r>> \in why
=============================================================================
