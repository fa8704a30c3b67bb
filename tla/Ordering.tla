------------------------------- MODULE Ordering -------------------------------
(***************************************************************************)
(* The order of Dispatcher.Run: it lists the first 4 * MaxParallel pending  *)
(* rows by priority and tries them one after the other, so rows that stay   *)
(* pending at the head of the list (their key is held by a row that waits   *)
(* for a human, or their ws column still names an old session) use up the   *)
(* places of the rows behind them.  Dispatch.tla has the steps of one       *)
(* attempt; here an attempt is one step and the order of the list is kept.  *)
(***************************************************************************)
EXTENDS Naturals, Sequences, FiniteSets

CONSTANTS
    Ranks,      \* rows are their place in the list: 1 is dispatched first
    KeyOf,      \* KeyOf[r]: the lock key of r, or NoKey
    NoKey,
    Parallel,   \* execution.max_parallel
    MaxReopens  \* bound: rows put back into the queue

ASSUME OrderingAssumption ==
    Ranks \in Nat /\ Parallel \in Nat \ {0} /\ MaxReopens \in Nat

Rank == 1..Ranks

VARIABLES
    state,      \* state[r]: the row's status
    named,      \* the rows whose ws column is not NULL
    keyed,      \* the rows whose lock_key column is set
    batch,      \* the candidates the Run has not tried yet
    budget,     \* how many of them it may still dispatch
    reopens

orderingVars == <<state, named, keyed, batch, budget, reopens>>

OrderingTypeOK ==
    /\ state \in [Rank -> {"pending", "running", "waiting_human", "done"}]
    /\ named \subseteq Rank /\ keyed \subseteq Rank
    /\ batch \in Seq(Rank) /\ Len(batch) <= 4 * Parallel
    /\ budget \in 0..Parallel /\ reopens \in 0..MaxReopens

\* Rows that have run keep their ws and their lock_key.
OrderingInit ==
    /\ state \in [Rank -> {"pending", "done"}]
    /\ named = {r \in Rank : state[r] = "done"}
    /\ keyed = {r \in named : KeyOf[r] # NoKey}
    /\ batch = <<>> /\ budget = 0 /\ reopens = 0

Pending == {r \in Rank : state[r] = "pending"}

Before(r, S) == {o \in S : o < r}

\* The rows of S in dispatch order: the i-th has i - 1 before it.
InOrder(S) == [i \in 1..Cardinality(S) |-> CHOOSE r \in S : Cardinality(Before(r, S)) = i - 1]

\* Mutant: the list is no longer than what one Run may dispatch.
LimitWithoutSlack == Parallel

Limit == Parallel * 4

FirstOf(s, n) == SubSeq(s, 1, IF Len(s) < n THEN Len(s) ELSE n)

ListCandidates ==
    /\ batch = <<>>
    /\ batch' = FirstOf(InOrder(Pending), Limit)
    /\ budget' = Parallel
    /\ UNCHANGED <<state, named, keyed, reopens>>

\* AcquireLock's conflict: another row with the key that runs or may yet run.
KeyIsHeld(r) ==
    \E o \in keyed \ {r} : KeyOf[o] = KeyOf[r] /\ state[o] \in {"pending", "running"}

Taken(r) == IF KeyOf[r] = NoKey THEN keyed ELSE keyed \cup {r}

Dispatch(r) ==
    /\ r \notin named
    /\ state' = [state EXCEPT ![r] = "running"]
    /\ named' = named \cup {r} /\ keyed' = Taken(r)
    /\ budget' = budget - 1
    /\ batch' = IF budget = 1 THEN <<>> ELSE Tail(batch)

\* The claim finds a ws that is not NULL and gives the key back.
LoseClaim(r) ==
    /\ r \in named
    /\ keyed' = keyed \ {r} /\ batch' = Tail(batch)
    /\ UNCHANGED <<state, named, budget>>

\* Nobody else dispatches, so a candidate is still pending when its turn comes.
TryHead ==
    /\ batch # <<>>
    /\ LET r == Head(batch) IN
       IF KeyIsHeld(r) /\ KeyOf[r] # NoKey
       THEN batch' = Tail(batch) /\ UNCHANGED <<state, named, keyed, budget>>
       ELSE Dispatch(r) \/ LoseClaim(r)
    /\ UNCHANGED reopens

\* A session ends, or asks for a human, who may take any time.
Ends(r) ==
    /\ state[r] = "running" /\ state' = [state EXCEPT ![r] = "done"]
    /\ UNCHANGED <<named, keyed, batch, budget, reopens>>

AsksHuman(r) ==
    /\ state[r] = "running" /\ state' = [state EXCEPT ![r] = "waiting_human"]
    /\ UNCHANGED <<named, keyed, batch, budget, reopens>>

HumanAnswers(r) ==
    /\ state[r] = "waiting_human" /\ state' = [state EXCEPT ![r] = "done"]
    /\ UNCHANGED <<named, keyed, batch, budget, reopens>>

\* `marunage reopen` clears the ws column and the web server does not; neither
\* clears the lock_key.
Reopen(r) ==
    /\ state[r] = "done" /\ reopens < MaxReopens
    /\ state' = [state EXCEPT ![r] = "pending"] /\ reopens' = reopens + 1
    /\ named' \in {named, named \ {r}}
    /\ UNCHANGED <<keyed, batch, budget>>

DispatchRun == ListCandidates \/ TryHead

OrderingNext ==
    \/ DispatchRun
    \/ \E r \in Rank : Ends(r) \/ AsksHuman(r) \/ HumanAnswers(r) \/ Reopen(r)

OrderingSpec == OrderingInit /\ [][OrderingNext]_orderingVars

-----------------------------------------------------------------------------
\* Rows no Run can dispatch until somebody edits them.
Stuck(r) ==
    /\ state[r] = "pending"
    /\ \/ r \in named
       \/ /\ KeyOf[r] # NoKey
          /\ \E o \in keyed \ {r} : KeyOf[o] = KeyOf[r] /\ state[o] = "pending"

\* Run reads four times as many rows as it may dispatch so that it does "not
\* stall on a single contended row at the head": a row that could run is not
\* passed over for ever while fewer than that many stuck rows are before it.
HeadDoesNotStall ==
    LET couldRun(r) ==
            /\ state[r] = "pending" /\ ~Stuck(r)
            /\ Cardinality({o \in 1..(r - 1) : Stuck(o)}) < 4 * Parallel
    IN \A r \in Rank : []<>~couldRun(r)

\* A row starts only when every row of the batch that is listed before it has
\* had its turn.
BatchKeepsOrder ==
    [][\A r \in Rank : state[r] = "pending" /\ state'[r] = "running" =>
           \A i \in 1..Len(batch) : r <= batch[i]]_orderingVars

\* Rows start in the order of the list, and none that could is passed over for
\* ever: rows that cannot start hold up only those behind the LIMIT.
ListIsServedInOrder == []OrderingTypeOK /\ BatchKeepsOrder /\ HeadDoesNotStall
=============================================================================
