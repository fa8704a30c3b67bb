------------------------------ MODULE WebServer ------------------------------
(***************************************************************************)
(* `marunage web': the factory that opens what the server needs, one thing  *)
(* after the other (internal/cli/web.go); the server's life until shutdown  *)
(* (internal/web/server.go); the event hub behind GET /events (sse.go); and *)
(* the handlers that look at or type into a row's session (livestream.go).  *)
(*                                                                         *)
(* Each client has one connection and each handler is a goroutine, so every *)
(* step below may fall between two steps of any other.  Publish looks at    *)
(* the subscribers under the hub's lock and sends after it has let go, so   *)
(* that two calls of it may send in turns.                                  *)
(***************************************************************************)
EXTENDS Naturals, Sequences, FiniteSets

CONSTANTS Client,      \* browsers
          MaxSubs,     \* the hub's cap on subscribers
          BufferSize,  \* events a slow subscriber may have queued
          MaxEvents,   \* bound: events published
          MaxScreens   \* bound: sessions of the row, screens of a session

ASSUME WebAssumption == MaxSubs \in Nat /\ BufferSize \in Nat /\ MaxEvents \in Nat
                    /\ MaxScreens \in Nat

VARIABLES
    phase,      \* how far the command has come
    open,       \* what the process holds open
    stopping,   \* SIGINT or SIGTERM has arrived
    grace,      \* shutdownGracePeriod has elapsed
    request,    \* request[c]: what the handler serving c is doing
    subs,       \* the hub's subscribers
    buffer,     \* buffer[c]: events queued for subscriber c
    got,        \* got[c]: the events written to c's connection
    event,      \* the last event published: events are numbered as Publish began
    targets,    \* the sends that Publish calls still have to make: event and client
    closed,     \* the events of which one of those sends is to a closed channel
    overlap,    \* overlap[e]: the events still being sent when e was published
    rowWs,      \* the ws of the row the clients look at: which session of it
    screen,     \* what that row's session shows
    tail        \* tail[c]: the session c's handler reads and what it last wrote

phaseVars == <<phase, open, stopping, grace>>
hubVars == <<subs, buffer, got, event, targets, closed, overlap>>
publishVars == <<event, targets, closed, overlap>>
sessionVars == <<rowWs, screen>>
webVars == <<phaseVars, request, hubVars, sessionVars, tail>>

Resources == {"db", "port", "log", "watcher", "dispatcher"}

\* The factory's steps in their order, and what each error path closes.
After == [db |-> "port", port |-> "log", log |-> "watcher", watcher |-> "dispatcher",
          dispatcher |-> "prefixes", prefixes |-> "assemble", assemble |-> "serving"]

Cleanup == [db |-> {}, port |-> {"db"}, log |-> {"db", "port"},
            dispatcher |-> Resources, assemble |-> Resources,
            prefixes |-> {"db", "port", "watcher", "dispatcher"}]

Steps == DOMAIN After
Event == 1..MaxEvents
Ended == {"failed", "closed", "crashed"}

WebTypeOK ==
    /\ phase \in Steps \cup {"serving", "draining", "returned"} \cup Ended
    /\ open \subseteq Resources
    /\ stopping \in BOOLEAN /\ grace \in BOOLEAN
    /\ request \in [Client -> {"none", "events", "live", "dispatch"}]
    /\ subs \subseteq Client /\ targets \subseteq Event \X Client /\ closed \subseteq Event
    /\ buffer \in [Client -> Seq(Event)] /\ got \in [Client -> Seq(Event)]
    /\ overlap \in [Event -> SUBSET Event]
    /\ event \in 0..MaxEvents /\ rowWs \in 0..MaxScreens /\ screen \in 0..MaxScreens

WebInit ==
    /\ phase = "db" /\ open = {} /\ stopping = FALSE /\ grace = FALSE
    /\ request = [c \in Client |-> "none"]
    /\ subs = {} /\ targets = {} /\ closed = {} /\ event = 0 /\ overlap = [e \in Event |-> {}]
    /\ buffer = [c \in Client |-> <<>>] /\ got = [c \in Client |-> <<>>]
    /\ rowWs = 0 /\ screen = 0
    /\ tail = [c \in Client |-> [ws |-> 0, last |-> 0]]

---------------------------------------------------------------------------
\* productionWebFactory

Acquire ==
    /\ phase \in Steps
    /\ open' = open \cup ({phase} \cap Resources)
    /\ phase' = After[phase]
    /\ UNCHANGED <<stopping, grace, request, hubVars, sessionVars, tail>>

\* A watcher that cannot be built is only logged.
AcquireFails ==
    /\ phase \in Steps
    /\ IF phase = "watcher"
       THEN phase' = After[phase] /\ UNCHANGED open
       ELSE phase' = "failed" /\ open' = open \ Cleanup[phase]
    /\ UNCHANGED <<stopping, grace, request, hubVars, sessionVars, tail>>

---------------------------------------------------------------------------
\* Server.Serve

Signal ==
    /\ phase = "serving" /\ ~stopping /\ stopping' = TRUE
    /\ UNCHANGED <<phase, open, grace, request, hubVars, sessionVars, tail>>

\* The listener breaks; a signal that comes later finds nobody waiting for it.
ServeFails ==
    /\ phase = "serving" /\ ~stopping /\ phase' = "returned"
    /\ UNCHANGED <<open, stopping, grace, request, hubVars, sessionVars, tail>>

\* Shutdown closes the listener and waits for the connections, whose contexts
\* it does not cancel: an event stream is waited for until the grace period.
BeginShutdown ==
    /\ phase = "serving" /\ stopping
    /\ phase' = "draining" /\ open' = open \ {"port"}
    /\ UNCHANGED <<stopping, grace, request, hubVars, sessionVars, tail>>

\* A mutant: nobody is waited for.
DrainedAtOnce ==
    /\ phase = "draining" /\ phase' = "returned"
    /\ UNCHANGED <<open, stopping, grace, request, hubVars, sessionVars, tail>>

Drained ==
    /\ phase = "draining" /\ \A c \in Client : request[c] = "none"
    /\ phase' = "returned"
    /\ UNCHANGED <<open, stopping, grace, request, hubVars, sessionVars, tail>>

GraceElapses ==
    /\ phase = "draining" /\ grace' = TRUE /\ phase' = "returned"
    /\ UNCHANGED <<open, stopping, request, hubVars, sessionVars, tail>>

\* The deferred closer; then the process exits and every handler with it.
Close ==
    /\ phase = "returned" /\ phase' = "closed" /\ open' = {}
    /\ UNCHANGED <<stopping, grace, request, hubVars, sessionVars, tail>>

---------------------------------------------------------------------------
\* GET /events and the hub

Running == phase \in {"serving", "draining"}

\* Above the cap the handler answers 503 and is done.
Subscribe(c) ==
    /\ phase = "serving" /\ request[c] = "none" /\ Cardinality(subs) < MaxSubs
    /\ request' = [request EXCEPT ![c] = "events"]
    /\ subs' = subs \cup {c}
    /\ UNCHANGED <<phaseVars, buffer, got, publishVars, sessionVars, tail>>

WriteEvent(c) ==
    /\ Running /\ c \in subs /\ buffer[c] # <<>>
    /\ got' = [got EXCEPT ![c] = Append(@, Head(buffer[c]))]
    /\ buffer' = [buffer EXCEPT ![c] = Tail(@)]
    /\ UNCHANGED <<phaseVars, request, subs, publishVars, sessionVars, tail>>

\* The browser goes away: the handler's deferred Unsubscribe closes the channel.
Unsubscribe(c) ==
    /\ Running /\ request[c] = "events"
    /\ request' = [request EXCEPT ![c] = "none"] /\ subs' = subs \ {c}
    /\ buffer' = [buffer EXCEPT ![c] = <<>>] /\ got' = [got EXCEPT ![c] = <<>>]
    /\ targets' = {t \in targets : t[2] # c}
    /\ closed' = closed \cup {e \in Event : <<e, c>> \in targets}
    /\ UNCHANGED <<phaseVars, event, overlap, sessionVars, tail>>

\* The call that publishes e has not ended.
Sending(e) == e \in closed \/ \E c \in Client : <<e, c>> \in targets

\* The snapshot that one call takes; other calls may still be sending.
Publish ==
    /\ Running /\ event < MaxEvents
    /\ event' = event + 1
    /\ targets' = targets \cup ({event + 1} \X subs)
    /\ overlap' = [overlap EXCEPT ![event + 1] = {e \in Event : Sending(e)}]
    /\ UNCHANGED <<phaseVars, request, subs, buffer, got, closed, sessionVars, tail>>

\* One send: queued, or dropped when the buffer is full.
SendTo(e, c) ==
    /\ Running /\ <<e, c>> \in targets
    /\ targets' = targets \ {<<e, c>>}
    /\ buffer' = IF Len(buffer[c]) < BufferSize
                 THEN [buffer EXCEPT ![c] = Append(@, e)] ELSE buffer
    /\ UNCHANGED <<phaseVars, request, subs, got, event, closed, overlap, sessionVars, tail>>

\* The subscriber left after Publish had copied the list: a send on a closed
\* channel panics, also in a select with a default, and ends the process.  A
\* browser that comes back is a new subscription; the old channel stays closed.
SendOnClosed(e) ==
    /\ Running /\ e \in closed
    /\ phase' = "crashed" /\ open' = {} /\ targets' = {} /\ closed' = {}
    /\ UNCHANGED <<stopping, grace, request, subs, buffer, got, event, overlap, sessionVars, tail>>

---------------------------------------------------------------------------
\* GET /api/tasks/{id}/stream and POST /api/tasks/{id}/dispatch

\* The handler looks up the row's workspace once, when the stream begins.
OpenStream(c) ==
    /\ phase = "serving" /\ request[c] = "none"
    /\ request' = [request EXCEPT ![c] = "live"]
    /\ tail' = [tail EXCEPT ![c] = [ws |-> rowWs, last |-> 0]]
    /\ UNCHANGED <<phaseVars, hubVars, sessionVars>>

\* Poll and write the difference.  A session the row no longer has cannot be
\* read; like every failed read that is skipped and the stream stays open.
PollOutput(c) ==
    /\ Running /\ request[c] = "live" /\ tail[c].ws = rowWs
    /\ screen # tail[c].last
    /\ tail' = [tail EXCEPT ![c].last = screen]
    /\ UNCHANGED <<phaseVars, request, hubVars, sessionVars>>

CloseStream(c) ==
    /\ Running /\ request[c] = "live"
    /\ request' = [request EXCEPT ![c] = "none"]
    /\ tail' = [tail EXCEPT ![c] = [ws |-> 0, last |-> 0]]
    /\ UNCHANGED <<phaseVars, hubVars, sessionVars>>

\* A dispatch runs inside its handler, for as long as the session takes to boot.
BeginDispatch(c) ==
    /\ phase = "serving" /\ request[c] = "none"
    /\ request' = [request EXCEPT ![c] = "dispatch"]
    /\ UNCHANGED <<phaseVars, hubVars, sessionVars, tail>>

EndDispatch(c) ==
    /\ Running /\ request[c] = "dispatch"
    /\ request' = [request EXCEPT ![c] = "none"]
    /\ \/ /\ rowWs < MaxScreens /\ rowWs' = rowWs + 1 /\ screen' = 0
       \/ UNCHANGED sessionVars
    /\ UNCHANGED <<phaseVars, hubVars, tail>>

ScreenChanges ==
    /\ Running /\ screen < MaxScreens /\ screen' = screen + 1
    /\ UNCHANGED <<phaseVars, request, hubVars, rowWs, tail>>

Factory == Acquire \/ AcquireFails
Shutdown == BeginShutdown \/ Drained \/ GraceElapses \/ Close
PublishStep(e) == SendOnClosed(e) \/ \E c \in Client : SendTo(e, c)

WebNext ==
    \/ Factory \/ Shutdown \/ Signal \/ ServeFails
    \/ Publish \/ \E e \in Event : PublishStep(e)
    \/ \E c \in Client :
           \/ Subscribe(c) \/ WriteEvent(c) \/ Unsubscribe(c)
           \/ OpenStream(c) \/ PollOutput(c) \/ CloseStream(c)
           \/ BeginDispatch(c) \/ EndDispatch(c)
    \/ ScreenChanges

WebSpec == WebInit /\ [][WebNext]_webVars

---------------------------------------------------------------------------

\* However far the factory came before something could not be opened, only the
\* daemon log may stay open; and the closer of a server that ran closes all.
NothingStaysOpen ==
    /\ phase = "failed" => open \subseteq {"log"}
    /\ phase \in {"closed", "crashed"} => open = {}

\* The database and the dispatcher are closed under a handler that still runs
\* only when the grace period is over or the listener itself failed.
ClosedAfterDraining ==
    phase = "closed" /\ stopping /\ ~grace => \A c \in Client : request[c] = "none"

\* Every handler's subscription is given back, and the hub never has more than
\* its cap.
SubscriptionsAreBalanced ==
    /\ Running => subs = {c \in Client : request[c] = "events"}
    /\ Cardinality(subs) <= MaxSubs

Seen(c) == got[c] \o buffer[c]

\* Event e may come after event d: it is later, or was still being sent.
MayFollow(d, e) == d < e \/ e \in overlap[d]

\* What a subscriber is sent comes without repetition, and in the order of
\* publication but for two Publish calls that overlap, whatever was dropped for
\* it in between.
DeliveredInOrder ==
    \A c \in Client : \A i, j \in 1..Len(Seen(c)) :
        i < j => MayFollow(Seen(c)[i], Seen(c)[j])

\* Publish ends although no subscriber reads: a paused tab cannot stall it.
PublishEnds == \A e \in Event : Sending(e) ~> (~Sending(e) \/ ~Running)

\* A signalled server comes to its end although event streams stay open.
ShutdownEnds == stopping ~> phase \in Ended

\* A stream that stays open shows the session's latest screen in the end, for
\* as long as the row keeps the session it was opened for.
StreamCatchesUp ==
    \A c \in Client : \A s \in 1..MaxScreens :
        (Running /\ request[c] = "live" /\ tail[c].ws = rowWs /\ screen = s)
            ~> (~Running \/ request[c] # "live" \/ tail[c].ws # rowWs
                \/ screen # s \/ tail[c].last = s)

\* Nothing the server opened outlives it, nothing is closed under a handler that
\* was waited for, every subscription is given back, and the events of Publish
\* calls that do not overlap keep their order.
ServerIsOrderly ==
    /\ WebTypeOK
    /\ NothingStaysOpen /\ ClosedAfterDraining /\ SubscriptionsAreBalanced /\ DeliveredInOrder
=============================================================================
