------------------------------- MODULE Journal --------------------------------
(***************************************************************************)
(* The work journal (internal/journal).  A tick takes the time, asks every  *)
(* collector for what is newer than the checkpoint, appends one entry to    *)
(* the day's file and moves the checkpoint to the time it took.  `journal   *)
(* start' and `journal start --once' are processes of their own.  An        *)
(* activity is the second it happened in, as its collector tells it.        *)
(***************************************************************************)
EXTENDS Integers

CONSTANTS
    Journaler,    \* the processes that tick
    Collector,    \* of git, marunage and github, the ones configured
    Interval,     \* how far the first tick looks back
    MaxSeconds    \* bound: seconds that pass

ASSUME JournalAssumption ==
    Collector \subseteq {"git", "marunage", "github"} /\ Interval \in Nat /\ MaxSeconds \in Nat

NoCheckpoint == -1
Time == 0..MaxSeconds

VARIABLES
    wall,
    happened,    \* happened[c]: the seconds in which c has something to tell
    written,     \* written[c]: the ones the journal has
    checkpoint,
    tick,        \* tick[j]: the tick j is at
    unseen       \* unseen[c]: the ones no tick had to find

journalVars == <<wall, happened, written, checkpoint, tick, unseen>>
activityVars == <<wall, happened>>

NoActivity == [c \in Collector |-> {}]
NoTick == [step |-> "idle", at |-> 0, since |-> 0, todo |-> {}, items |-> NoActivity]

TickState == [step : {"idle", "collect", "checkpoint"}, at : Time,
              since : (-Interval)..MaxSeconds, todo : SUBSET Collector,
              items : [Collector -> SUBSET Time]]

JournalTypeOK ==
    /\ wall \in Time /\ checkpoint \in Time \cup {NoCheckpoint}
    /\ \A v \in {happened, written, unseen} : v \in [Collector -> SUBSET Time]
    /\ tick \in [Journaler -> TickState]

JournalInit ==
    /\ wall = 0 /\ happened = NoActivity /\ written = NoActivity /\ unseen = NoActivity
    /\ checkpoint = NoCheckpoint /\ tick = [j \in Journaler |-> NoTick]

---------------------------------------------------------------------------
\* What goes on

\* git asks for what is not older than the second, the others for what is newer.
After(c, since) == {t \in Time : IF c = "git" THEN t >= since ELSE t > since}

\* An activity in the very second a tick has taken, after it has asked, is not
\* newer than the checkpoint that tick leaves.
Happens(c) ==
    /\ happened' = [happened EXCEPT ![c] = @ \cup {wall}]
    /\ unseen' = IF /\ c # "git"
                    /\ \/ wall = checkpoint
                       \/ \E j \in Journaler : tick[j].step # "idle" /\ tick[j].at = wall
                 THEN [unseen EXCEPT ![c] = @ \cup {wall}] ELSE unseen
    /\ UNCHANGED <<wall, written, checkpoint, tick>>

ClockTicks ==
    /\ wall < MaxSeconds /\ wall' = wall + 1
    /\ UNCHANGED <<happened, written, checkpoint, tick, unseen>>

---------------------------------------------------------------------------
\* A tick

Stop(j) == tick' = [tick EXCEPT ![j] = NoTick]

\* Without a checkpoint the tick looks back one interval; with one that is not
\* in the past it does nothing.
Tick(j) ==
    /\ tick[j].step = "idle" /\ wall > checkpoint
    /\ LET since == IF checkpoint = NoCheckpoint THEN wall - Interval ELSE checkpoint
       IN /\ tick' = [tick EXCEPT ![j] = [NoTick EXCEPT !.step = "collect", !.at = wall,
                                                        !.since = since, !.todo = Collector]]
          /\ unseen' = IF checkpoint # NoCheckpoint THEN unseen
                       ELSE [c \in Collector |-> unseen[c] \cup (happened[c] \ After(c, since))]
    /\ UNCHANGED <<activityVars, written, checkpoint>>

Asked(j, c) == tick[j].step = "collect" /\ c \in tick[j].todo

\* The collectors are asked in the order of the configuration, here in any.
Collect(j, c) ==
    /\ Asked(j, c)
    /\ tick' = [tick EXCEPT ![j].todo = @ \ {c},
                            ![j].items[c] = happened[c] \cap After(c, tick[j].since)]
    /\ UNCHANGED <<activityVars, written, checkpoint, unseen>>

\* A collector that fails is skipped; the checkpoint moves all the same.
CollectFails(j, c) ==
    /\ Asked(j, c)
    /\ tick' = [tick EXCEPT ![j].todo = @ \ {c}]
    /\ unseen' = [unseen EXCEPT ![c] = @ \cup {t \in happened[c] : t <= tick[j].at}]
    /\ UNCHANGED <<activityVars, written, checkpoint>>

AppendEntry(j) ==
    /\ tick[j].step = "collect" /\ tick[j].todo = {}
    /\ written' = [c \in Collector |-> written[c] \cup tick[j].items[c]]
    /\ tick' = [tick EXCEPT ![j].step = "checkpoint", ![j].items = NoActivity]
    /\ UNCHANGED <<activityVars, checkpoint, unseen>>

\* A mutant: the checkpoint is the time it is written at.
CheckpointNow(j) ==
    /\ tick[j].step = "checkpoint" /\ Stop(j) /\ checkpoint' = wall
    /\ UNCHANGED <<activityVars, written, unseen>>

UpdateCheckpoint(j) ==
    /\ tick[j].step = "checkpoint" /\ Stop(j) /\ checkpoint' = tick[j].at
    /\ UNCHANGED <<activityVars, written, unseen>>

\* The file cannot be written, the checkpoint cannot, or the process is
\* stopped or dies: the next tick starts from the checkpoint there is.
TickFails(j) ==
    /\ tick[j].step # "idle" /\ Stop(j)
    /\ UNCHANGED <<activityVars, written, checkpoint, unseen>>

JournalNext ==
    \/ ClockTicks
    \/ \E c \in Collector : Happens(c)
    \/ \E j \in Journaler :
        \/ Tick(j) \/ AppendEntry(j) \/ UpdateCheckpoint(j) \/ TickFails(j)
        \/ \E c \in Collector : Collect(j, c) \/ CollectFails(j, c)

JournalSpec == JournalInit /\ [][JournalNext]_journalVars

---------------------------------------------------------------------------
\* Properties

\* What lies behind the checkpoint is in the journal, with overlapping ticks,
\* failed writes and deaths too, except what happened before the first window,
\* in the second of a tick, or while its collector failed.
NothingLeftBehind ==
    \A c \in Collector : \A t \in happened[c] :
        t < checkpoint => t \in written[c] \cup unseen[c]
=============================================================================
