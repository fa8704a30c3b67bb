------------------------------- MODULE Migration ------------------------------
(***************************************************************************)
(* store.Open: a process reads the schema version of tasks.db and applies   *)
(* the migrations above it that its binary carries, each with its version   *)
(* in one transaction of SQLite.  Every command opens the store, so two     *)
(* processes, of the same release or not, can be at this at once.           *)
(***************************************************************************)
EXTENDS Naturals

CONSTANTS
    Opener,    \* the processes that open the store
    Newest     \* the newest migration there is

ASSUME MigrationAssumption == Newest \in Nat \ {0}

VARIABLES
    version,   \* PRAGMA user_version
    applied,   \* applied[m]: how often migration m took effect
    opener     \* opener[o]: where o is, and the migrations its binary has

migrationVars == <<version, applied, opener>>

MigrationTypeOK ==
    /\ version \in 0..Newest /\ applied \in [1..Newest -> 0..1]
    /\ opener \in [Opener -> [step : {"closed", "migrate", "open"},
                              has : 1..Newest, next : 1..(Newest + 1)]]

MigrationInit ==
    /\ version = 0 /\ applied = [m \in 1..Newest |-> 0]
    /\ opener \in [Opener -> {[step |-> "closed", has |-> n, next |-> 1] : n \in 1..Newest}]

CloseStore(o) == opener' = [opener EXCEPT ![o].step = "closed", ![o].next = 1]

\* The version is read once; a database that is newer than the binary is taken
\* as it is.
OpenDatabase(o) ==
    /\ opener[o].step = "closed"
    /\ opener' = [opener EXCEPT ![o].step = "migrate", ![o].next = version + 1]
    /\ UNCHANGED <<version, applied>>

\* The statements of a migration fail when what they create is there: the
\* process that lost the race to it cannot open the store this time.
ApplyMigration(o) ==
    /\ opener[o].step = "migrate" /\ opener[o].next <= opener[o].has
    /\ LET m == opener[o].next
       IN IF applied[m] = 0
          THEN /\ applied' = [applied EXCEPT ![m] = 1] /\ version' = m
               /\ opener' = [opener EXCEPT ![o].next = @ + 1]
          ELSE CloseStore(o) /\ UNCHANGED <<version, applied>>

Opened(o) ==
    /\ opener[o].step = "migrate" /\ opener[o].next > opener[o].has
    /\ opener' = [opener EXCEPT ![o].step = "open"]
    /\ UNCHANGED <<version, applied>>

\* A statement, the commit or a chmod fails, or the process ends: what was not
\* committed is rolled back.
OpenerEnds(o) ==
    /\ opener[o].step # "closed" /\ CloseStore(o) /\ UNCHANGED <<version, applied>>

MigrationNext ==
    \E o \in Opener : OpenDatabase(o) \/ ApplyMigration(o) \/ Opened(o) \/ OpenerEnds(o)

MigrationSpec == MigrationInit /\ [][MigrationNext]_migrationVars

---------------------------------------------------------------------------
\* Properties

\* The version says which migrations took effect, each of them once.
VersionIsTrue == \A m \in 1..Newest : applied[m] = IF m <= version THEN 1 ELSE 0

\* An open store has the tables and columns its process was built for.
OpenIsMigrated ==
    \A o \in Opener : opener[o].step = "open" => \A m \in 1..opener[o].has : applied[m] = 1
=============================================================================
