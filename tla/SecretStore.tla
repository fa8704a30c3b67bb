----------------------------- MODULE SecretStore -----------------------------
(***************************************************************************)
(* The secret store (internal/secrets).  A process opens a store: in auto   *)
(* mode the first backend that can be opened, in the order keyring, pass,   *)
(* age, file.  The age backend keeps every secret in one encrypted file,    *)
(* which a Set or Delete decrypts, changes and replaces under a mutex of    *)
(* the store; another process has another mutex.  The others keep one item  *)
(* per secret.  Every change is recorded in the audit log after it landed.  *)
(* A value is only compared, encryption is the phrase it was done with.     *)
(***************************************************************************)
EXTENDS Naturals, Sequences, FiniteSets, Functions

CONSTANTS
    User,       \* the processes that use the store
    Secret, SecretValue, Phrase,
    Installed   \* the backends this machine can open, with "age"

Absent == "absent"
None == "none"
NoVault == [phrase |-> None, values |-> [n \in Secret |-> Absent]]
AutoOrder == <<"keyring", "pass", "age", "file">>

ASSUME SecretAssumption ==
    /\ Absent \notin SecretValue /\ None \notin Phrase \cup Secret \cup SecretValue
    /\ "age" \in Installed /\ Installed \subseteq Range(AutoOrder)

VARIABLES
    vault,        \* secrets.age, or NoVault
    item,         \* item[b]: the secrets of a backend with an item for each
    opened,       \* opened[u]: the backend u's store has, or None
    cached,       \* cached[u]: the passphrase u's store has cached, or None
    remembered,   \* remembered[u]: the one u's process has cached, or None
    use,          \* use[u]: the call in progress
    kept,         \* kept[b]: what the changes that landed in b should add up to
    contended,    \* two changes of the vault overlapped
    silent        \* the secrets changed and not yet recorded, by a process alive

secretVars == <<vault, item, opened, cached, remembered, use, kept, contended, silent>>
storedVars == <<vault, item, kept>>
phraseVars == <<cached, remembered>>

Stored == [Secret -> SecretValue \cup {Absent}]
Use == [step : {"idle", "phrase", "load", "save", "item", "audit"},
         op : {"get", "set", "delete"}, name : Secret \cup {None}, value : SecretValue \cup {None},
         fresh : BOOLEAN, phrase : Phrase \cup {None}, loaded : Stored]

SecretTypeOK ==
    /\ vault \in [phrase : Phrase \cup {None}, values : Stored]
    /\ item \in [Installed \ {"age"} -> Stored] /\ kept \in [Installed -> Stored]
    /\ opened \in [User -> Installed \cup {None}]
    /\ cached \in [User -> Phrase \cup {None}] /\ remembered \in [User -> Phrase \cup {None}]
    /\ use \in [User -> Use] /\ contended \in BOOLEAN
    /\ silent \subseteq Secret

Nothing == [n \in Secret |-> Absent]
NotInUse == [step |-> "idle", op |-> "get", name |-> None, value |-> None,
             fresh |-> FALSE, phrase |-> None, loaded |-> Nothing]

SecretInit ==
    /\ vault = NoVault /\ item = [b \in Installed \ {"age"} |-> Nothing]
    /\ kept = [b \in Installed |-> Nothing]
    /\ opened = [u \in User |-> None] /\ cached = [u \in User |-> None]
    /\ remembered = [u \in User |-> None] /\ use = [u \in User |-> NotInUse]
    /\ contended = FALSE /\ silent = {}

---------------------------------------------------------------------------
\* Opening

\* The backend auto mode settles on when those of usable can be opened; every
\* other one is passed over, whether it is unsupported or broken.
AutoBackend(usable) ==
    IF usable = {} THEN None
    ELSE AutoOrder[CHOOSE i \in DOMAIN AutoOrder :
                      /\ AutoOrder[i] \in usable
                      /\ \A j \in DOMAIN AutoOrder : j < i => AutoOrder[j] \notin usable]

\* What can be opened changes from one session to the next (a desktop's
\* keyring, a cron job without it).  A new store has nothing cached.
OpenStore(u) ==
    /\ use[u].step = "idle"
    /\ \E usable \in SUBSET Installed : opened' = [opened EXCEPT ![u] = AutoBackend(usable)]
    /\ cached' = [cached EXCEPT ![u] = None]
    /\ UNCHANGED <<storedVars, remembered, use, contended, silent>>

---------------------------------------------------------------------------
\* Calls

UseEnds(u) == use' = [use EXCEPT ![u] = NotInUse]
Changes(u) == use[u].op \in {"set", "delete"} /\ opened[u] = "age"
VaultContended(u) == \E o \in User \ {u} : use[o].step \in {"phrase", "load", "save"} /\ Changes(o)

\* Without a vault only a Set goes on: the others have their answer, and the
\* decorator records a Delete all the same.  Bound: nothing begins once two
\* changes of the vault have overlapped.
BeginUse(u, op, n, v) ==
    /\ use[u].step = "idle" /\ opened[u] # None /\ ~contended
    /\ LET fresh == vault = NoVault
           first == IF opened[u] # "age" THEN "item"
                    ELSE IF ~fresh \/ op = "set" THEN "phrase"
                    ELSE IF op = "delete" THEN "audit" ELSE "idle"
       IN /\ first # "idle"
          /\ use' = [use EXCEPT ![u] = [NotInUse EXCEPT !.step = first, !.op = op, !.name = n,
                                                    !.value = v, !.fresh = fresh]]
    /\ contended' = (contended \/ (opened[u] = "age" /\ op # "get" /\ VaultContended(u)))
    /\ kept' = IF contended' THEN [kept EXCEPT !["age"] = Nothing] ELSE kept
    /\ UNCHANGED <<vault, item, opened, phraseVars, silent>>

\* The passphrase comes from the store's cache, the process's, the environment
\* or the terminal, and is cached before anything was decrypted with it.
PassphraseLocked(u, p) ==
    /\ use[u].step = "phrase"
    /\ cached[u] # None => p = cached[u]
    /\ cached[u] = None /\ remembered[u] # None => p = remembered[u]
    /\ cached' = [cached EXCEPT ![u] = p] /\ remembered' = [remembered EXCEPT ![u] = p]
    /\ use' = [use EXCEPT ![u].step = "load", ![u].phrase = p]
    /\ UNCHANGED <<storedVars, opened, contended, silent>>

\* No terminal, or a confirmation that differs.
NoPassphrase(u) ==
    /\ use[u].step = "phrase" /\ cached[u] = None /\ remembered[u] = None
    /\ UseEnds(u)
    /\ UNCHANGED <<storedVars, opened, phraseVars, contended, silent>>

Decrypted(u) == IF use[u].fresh THEN Nothing ELSE vault.values
Opens(u) == use[u].fresh \/ vault.phrase = use[u].phrase
AfterLoad(c, values) ==
    CASE c.op = "get" -> NotInUse
      [] c.op = "set" -> [c EXCEPT !.step = "save", !.loaded = [values EXCEPT ![c.name] = c.value]]
      [] c.op = "delete" /\ values[c.name] = Absent ->
             [NotInUse EXCEPT !.step = "audit", !.op = c.op, !.name = c.name]
      [] c.op = "delete" /\ values[c.name] # Absent ->
             [c EXCEPT !.step = "save", !.loaded = [values EXCEPT ![c.name] = Absent]]

\* A mutant: a vault that cannot be decrypted counts as an empty one.
LoadVaultOrEmpty(u) ==
    /\ use[u].step = "load"
    /\ use' = [use EXCEPT ![u] = AfterLoad(@, IF Opens(u) THEN Decrypted(u) ELSE Nothing)]
    /\ UNCHANGED <<storedVars, opened, phraseVars, contended, silent>>

LoadVault(u) ==
    /\ use[u].step = "load"
    /\ IF Opens(u) THEN use' = [use EXCEPT ![u] = AfterLoad(@, Decrypted(u))] ELSE UseEnds(u)
    /\ UNCHANGED <<storedVars, opened, phraseVars, contended, silent>>

Landed(u, b, to) ==
    /\ kept' = IF b = "age" /\ contended THEN kept ELSE [kept EXCEPT ![b][use[u].name] = to]
    /\ silent' = silent \cup {use[u].name}
    /\ use' = [use EXCEPT ![u] = [NotInUse EXCEPT !.step = "audit", !.op = use[u].op,
                                                  !.name = use[u].name]]

\* The new vault replaces the old one in a rename.
SaveVault(u) ==
    /\ use[u].step = "save"
    /\ vault' = [phrase |-> use[u].phrase, values |-> use[u].loaded]
    /\ Landed(u, "age", IF use[u].op = "set" THEN use[u].value ELSE Absent)
    /\ UNCHANGED <<item, opened, phraseVars, contended>>

SaveFails(u) ==
    /\ use[u].step \in {"save", "item"} /\ UseEnds(u)
    /\ UNCHANGED <<storedVars, opened, phraseVars, contended, silent>>

\* keyring, pass and file: one item is read, written or removed.
TouchItem(u) ==
    /\ use[u].step = "item"
    /\ LET b == opened[u] to == IF use[u].op = "set" THEN use[u].value ELSE Absent
       IN IF use[u].op = "get" THEN UseEnds(u) /\ UNCHANGED <<item, kept, silent>>
          ELSE item' = [item EXCEPT ![b][use[u].name] = to] /\ Landed(u, b, to)
    /\ UNCHANGED <<vault, opened, phraseVars, contended>>

RecordChange(u) ==
    /\ use[u].step = "audit" /\ UseEnds(u)
    /\ silent' = silent \ {use[u].name}
    /\ UNCHANGED <<storedVars, opened, phraseVars, contended>>

\* The process dies; the next one has nothing cached.
UserDies(u) ==
    /\ opened[u] # None /\ UseEnds(u) /\ opened' = [opened EXCEPT ![u] = None]
    /\ cached' = [cached EXCEPT ![u] = None] /\ remembered' = [remembered EXCEPT ![u] = None]
    /\ silent' = IF use[u].step = "audit" THEN silent \ {use[u].name} ELSE silent
    /\ UNCHANGED <<storedVars, contended>>

SecretNext ==
    \E u \in User :
        \/ OpenStore(u) \/ NoPassphrase(u) \/ LoadVault(u) \/ SaveVault(u) \/ SaveFails(u)
        \/ TouchItem(u) \/ RecordChange(u) \/ UserDies(u)
        \/ \E p \in Phrase : PassphraseLocked(u, p)
        \/ \E op \in {"get", "set", "delete"}, n \in Secret, v \in SecretValue :
               BeginUse(u, op, n, v)

SecretSpec == SecretInit /\ [][SecretNext]_secretVars

---------------------------------------------------------------------------
\* Properties

\* A change touches the one secret it names, whatever failed or died before it,
\* unless two processes changed the vault at once: no Set is lost in another,
\* and no wrong passphrase empties the vault.
SetsAreKept ==
    /\ \A b \in DOMAIN item : item[b] = kept[b]
    /\ ~contended => vault.values = kept["age"]

\* No silent execution: a secret that changed has its audit line, unless the
\* process that changed it is about to write the line or died first.
ChangesAreRecorded ==
    \A n \in silent : \E u \in User : use[u].step = "audit" /\ use[u].name = n

\* Secrets stay what they were set to, and no change of one goes unrecorded.
SecretsAreKept == SecretTypeOK /\ SetsAreKept /\ ChangesAreRecorded
=============================================================================
