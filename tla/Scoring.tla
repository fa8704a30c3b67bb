------------------------------- MODULE Scoring --------------------------------
(***************************************************************************)
(* The scoring pass of manage.Plan: the candidates the rules left ready go  *)
(* to claude in batches, at most maxCalls of them, judgments of an earlier  *)
(* Plan come from a cache when there is one, and whoever claude did not     *)
(* judge in a way that can be used gets the rule score.  Claude's answer is *)
(* any list of judgments, each with the index of a candidate of its batch.  *)
(* Pipeline.tla has the rest of Plan; here a judgment carries the candidate *)
(* and the content it is about.                                             *)
(***************************************************************************)
EXTENDS Naturals, Sequences, SequencesExt, FiniteSets

CONSTANTS
    Ready,       \* the candidates
    Body         \* what a candidate's title, body, notes and priority can be

ASSUME ScoringAssumption == IsFiniteSet(Ready)

Nobody == [kind |-> "nobody", about |-> <<>>]
Rules == [kind |-> "rules", about |-> <<>>]
JudgmentKinds == {"score", "defer", "not finite"}
About == Ready \X Body
Judgments == [kind : JudgmentKinds, about : About]

VARIABLES
    says,       \* says[c]: c's content now
    memo,       \* the cache: a judgment for a key, or Nobody
    options,    \* batchSize, maxCalls and whether there is a cache
    pass,       \* the Plan at work
    planned     \* planned[c]: what the last Plan with c made of it

scoringVars == <<says, memo, options, pass, planned>>

\* What the cache key folds in.
Keys == Ready \X Body
NoPass == [step |-> "idle", found |-> [c \in Ready |-> Nobody], pending |-> <<>>, calls |-> 0,
           ready |-> {}]

ScoringTypeOK ==
    /\ says \in [Ready -> Body] /\ memo \in [Keys -> Judgments \cup {Nobody}]
    /\ options \in [batchSize : Nat, maxCalls : Nat, cache : BOOLEAN]
    /\ pass.step \in {"idle", "score"} /\ pass.ready \subseteq Ready /\ pass.pending \in Seq(Ready)
    /\ pass.found \in [Ready -> Judgments \cup {Nobody}] /\ pass.calls \in Nat
    /\ planned \in [Ready -> Judgments \cup {Nobody, Rules}]

ScoringInit ==
    /\ says \in [Ready -> Body] /\ memo = [k \in Keys |-> Nobody]
    /\ options \in [batchSize : {0, 1}, maxCalls : {0, 1, 2}, cache : BOOLEAN]
    /\ pass = NoPass /\ planned = [c \in Ready |-> Nobody]

---------------------------------------------------------------------------
\* The cache

scoreCacheKey(c) == <<c, says[c]>>

Hit(c) == IF options.cache THEN memo[scoreCacheKey(c)] ELSE Nobody

---------------------------------------------------------------------------
\* Claude's answer

\* parseScoreResults: every index in range, none twice, none missing.
WellFormed(raw, n) ==
    /\ \A i \in DOMAIN raw : raw[i].index < n
    /\ \A i, j \in DOMAIN raw : i # j => raw[i].index # raw[j].index
    /\ \A k \in 0..(n - 1) : \E i \in DOMAIN raw : raw[i].index = k

validScore(kind) == kind # "not finite"

\* The candidates of the batch that get a judgment they can use.
Judged(batch, raw) ==
    IF ~WellFormed(raw, Len(batch)) THEN <<>>
    ELSE LET at == [c \in {batch[k] : k \in DOMAIN batch} |->
                       CHOOSE i \in DOMAIN raw : batch[raw[i].index + 1] = c]
             usable == {c \in DOMAIN at : validScore(raw[at[c]].kind)}
         IN [c \in usable |-> [kind |-> raw[at[c]].kind, about |-> raw[at[c]].about]]

\* Claude judges the candidate whose index it gives, or none that there is.
\* Bound: no judgment too many, which is refused as one given twice is.
ClaudeAnswers(batch) ==
    LET n == Len(batch)
        about(k) == IF k < n THEN <<batch[k + 1], says[batch[k + 1]]>>
                    ELSE <<batch[1], says[batch[1]]>>
        one == {[index |-> k, kind |-> verdict, about |-> about(k)] :
                   k \in 0..n, verdict \in JudgmentKinds}
    IN UNION {[1..m -> one] : m \in 0..n}

---------------------------------------------------------------------------
\* Plan

\* The rules have left ready these candidates; the ones without a judgment are
\* asked about, in some order.
BeginScoring(ready) ==
    /\ pass.step = "idle"
    /\ \E order \in SetToSeqs({c \in ready : Hit(c) = Nobody}) :
           pass' = [NoPass EXCEPT !.step = "score", !.ready = ready, !.pending = order,
                                  !.found = [c \in Ready |-> IF c \in ready THEN Hit(c) ELSE Nobody]]
    /\ UNCHANGED <<says, memo, options, planned>>

BatchLength ==
    IF options.batchSize = 0 \/ options.batchSize > Len(pass.pending)
    THEN Len(pass.pending) ELSE options.batchSize
Batch == SubSeq(pass.pending, 1, BatchLength)

CallsLeft == pass.calls < IF options.maxCalls = 0 THEN 1 ELSE options.maxCalls

\* One call: an error, or anything else that cannot be used, is an answer
\* without judgments.
Score(raw) ==
    /\ pass.step = "score" /\ pass.pending # <<>> /\ CallsLeft
    /\ LET judged == Judged(Batch, raw)
           rest == SubSeq(pass.pending, BatchLength + 1, Len(pass.pending))
           keyed == [k \in Keys |-> {c \in DOMAIN judged : scoreCacheKey(c) = k}]
           found == [c \in Ready |-> IF c \in DOMAIN judged THEN judged[c] ELSE pass.found[c]]
       IN /\ pass' = [pass EXCEPT !.calls = @ + 1, !.pending = rest, !.found = found]
          /\ memo' = IF options.cache
                     THEN [k \in Keys |-> IF keyed[k] = {} THEN memo[k]
                                          ELSE judged[CHOOSE c \in keyed[k] : TRUE]]
                     ELSE memo
    /\ UNCHANGED <<says, options, planned>>

\* A mutant: a candidate that has no judgment is left out.
LeaveOut ==
    /\ pass.step = "score" /\ (pass.pending = <<>> \/ ~CallsLeft) /\ pass' = NoPass
    /\ planned' = [c \in Ready |-> IF c \in pass.ready THEN pass.found[c] ELSE planned[c]]
    /\ UNCHANGED <<says, memo, options>>

scoreReady ==
    /\ pass.step = "score" /\ (pass.pending = <<>> \/ ~CallsLeft) /\ pass' = NoPass
    /\ planned' = [c \in Ready |-> IF c \notin pass.ready THEN planned[c]
                                   ELSE IF pass.found[c] = Nobody THEN Rules
                                   ELSE pass.found[c]]
    /\ UNCHANGED <<says, memo, options>>

\* A candidate's source has it with other content, between two ticks.
ContentChanges(c, b) ==
    /\ pass.step = "idle" /\ says[c] # b /\ says' = [says EXCEPT ![c] = b]
    /\ planned' = [planned EXCEPT ![c] = Nobody]
    /\ UNCHANGED <<memo, options, pass>>

ScoringNext ==
    \/ \E ready \in SUBSET Ready \ {{}} : BeginScoring(ready)
    \/ \E raw \in IF pass.pending = <<>> THEN {} ELSE ClaudeAnswers(Batch) : Score(raw)
    \/ scoreReady
    \/ \E c \in Ready, b \in Body : ContentChanges(c, b)

ScoringSpec == ScoringInit /\ [][ScoringNext]_scoringVars

---------------------------------------------------------------------------
\* Properties

\* A candidate is planned by a judgment of itself and of what it says now,
\* whatever claude answered, in whatever order, and with or without a cache.
JudgmentIsItsOwn ==
    \A c \in Ready : planned[c] \in Judgments => planned[c].about = <<c, says[c]>>

\* No silent loss: every candidate of a Plan that has ended has a finite score
\* or is deferred.
EveryoneIsPlanned ==
    [][pass.step = "score" /\ pass'.step = "idle" =>
        \A c \in pass.ready :
            planned'[c] \in {Rules} \cup {j \in Judgments : j.kind # "not finite"}]_scoringVars

\* Every candidate is planned, and by a judgment of itself as it is now.
EveryoneIsJudged == []ScoringTypeOK /\ []JudgmentIsItsOwn /\ EveryoneIsPlanned
=============================================================================
