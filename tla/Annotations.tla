----------------------------- MODULE Annotations -----------------------------
(***************************************************************************)
(* What is written beside a row's status: judgment_reason, which the early  *)
(* triage, the dispatcher, the permission gate, the completion watcher and  *)
(* the reaper all write and `marunage review' reads afterwards, and         *)
(* reflection, the answer of a second prompt sent to the session of a row   *)
(* that is done (internal/dispatch/reflection.go).  Most of the writers     *)
(* look at the row first and write later, whatever it is by then.           *)
(*                                                                         *)
(* One row is followed through several runs.  A reason is the sequence of   *)
(* the notes joined in it, an answer the number of the run that wrote it.   *)
(***************************************************************************)
EXTENDS Naturals, Sequences, FiniteSets, SequencesExt

CONSTANTS MaxRuns,    \* bound: sessions the row gets
          MaxNotes    \* bound: notes joined in a reason

ASSUME AnnotationAssumption == MaxRuns \in Nat /\ MaxNotes \in Nat

VARIABLES
    status,       \* the row's status
    reason,       \* judgment_reason
    reflection,   \* the run whose review is stored, 0 for none
    run,          \* the session the row is in, or was in last
    failing,      \* markFailed: the reason it has read, or "no"
    reaped,       \* the reason of the row as the reaper listed it: "no" list yet,
                  \* with its own note or "clean" of it
    watched,      \* the run of the row as the completion watcher listed it, or 0
    putBack,      \* kept for WarnsOnce: markFailed has written a warning back that
                  \* somebody had replaced since it read the row
    answer,       \* the run whose review is in .reflection, 0 for none
    reflecting,   \* the reflectors at work: run -> "send", "wait" or "store"
    read,         \* what the reflector of each run has read
    owed,         \* runs whose session was sent the prompt and has not answered
    triaged       \* Apply's one verdict for the row was given

noteVars == <<status, reason, run, failing, reaped, watched, putBack, triaged>>
reflectVars == <<reflection, answer, reflecting, read, owed>>
annotationVars == <<noteVars, reflectVars>>

Notes == {"triage", "skip", "send", "ask", "stuck", "gone", "exit"}
Runs == 1..MaxRuns
NotePart(r) == ToSet(r)

AnnotationTypeOK ==
    /\ status \in {"pending", "running", "waiting_human", "done", "failed", "skipped"}
    /\ reason \in Seq(Notes) /\ reflection \in 0..MaxRuns /\ run \in 0..MaxRuns
    /\ failing.on \in BOOLEAN /\ failing.had \in Seq(Notes)
    /\ reaped \in {"no", "clean", "warned"} /\ watched \in 0..MaxRuns
    /\ putBack \in BOOLEAN /\ answer \in 0..MaxRuns
    /\ reflecting \in [Runs -> {"none", "send", "wait", "store", "end"}]
    /\ read \in [Runs -> 0..MaxRuns] /\ owed \subseteq Runs /\ triaged \in BOOLEAN

Unread == [on |-> FALSE, had |-> <<>>]

AnnotationInit ==
    /\ status = "pending" /\ reason = <<>> /\ reflection = 0 /\ run = 0
    /\ failing = Unread /\ reaped = "no" /\ watched = 0 /\ putBack = FALSE /\ answer = 0
    /\ reflecting = [k \in Runs |-> "none"] /\ read = [k \in Runs |-> 0]
    /\ owed = {} /\ triaged = FALSE

---------------------------------------------------------------------------
\* judgment_reason

\* collect.Apply: once for a freshly discovered row, which may have been
\* dispatched, and may even be done, by the time the verdict is written.
ApplyTriage ==
    /\ ~triaged /\ triaged' = TRUE
    /\ \/ reason' = <<"skip">> /\ status' = "skipped"     \* MarkSkippedWithReason
       \/ reason' = Append(reason, "triage") /\ UNCHANGED status
    /\ UNCHANGED <<run, failing, reaped, watched, putBack, reflectVars>>

Dispatched ==
    /\ status = "pending" /\ run < MaxRuns
    /\ status' = "running" /\ run' = run + 1
    /\ UNCHANGED <<reason, failing, reaped, watched, putBack, triaged, reflectVars>>

\* markFailed reads the row, or fails to and will write its own note alone ...
BeginMarkFailed ==
    /\ ~failing.on
    /\ \E had \in {reason, <<>>} : failing' = [on |-> TRUE, had |-> had]
    /\ UNCHANGED <<status, reason, run, reaped, watched, putBack, triaged, reflectVars>>

HasReaperWarnToken(r) == "stuck" \in NotePart(r)

\* ... and only then writes the joined reason, without a guard.
EndMarkFailed ==
    /\ failing.on /\ failing' = Unread
    /\ status' = "failed" /\ reason' = Append(failing.had, "send")
    /\ putBack' = (putBack \/ (HasReaperWarnToken(failing.had) /\ ~HasReaperWarnToken(reason)))
    /\ UNCHANGED <<run, reaped, watched, triaged, reflectVars>>

\* HandlePermissionRequest for a tool the matcher denies, on_unknown_permission
\* being "escalate"; "fail" goes through markFailed, "retry" leaves the row alone.
EscalateToHuman ==
    /\ status \in {"running", "waiting_human"}
    /\ status' = "waiting_human" /\ reason' = <<"ask">>
    /\ UNCHANGED <<run, failing, reaped, watched, putBack, triaged, reflectVars>>

ExpireWaitingHuman ==
    /\ status = "waiting_human" /\ status' = "failed"
    /\ UNCHANGED <<reason, run, failing, reaped, watched, putBack, triaged, reflectVars>>

\* The reaper lists the running rows with their reasons, then the sessions.
ReaperLists ==
    /\ reaped = "no" /\ status = "running"
    /\ reaped' = IF HasReaperWarnToken(reason) THEN "warned" ELSE "clean"
    /\ UNCHANGED <<status, reason, run, failing, watched, putBack, triaged, reflectVars>>

\* A mutant: the warning replaces what was there.
MarkStuckOver ==
    /\ reaped # "no" /\ reaped' = "no"
    /\ reason' = IF reaped = "warned" THEN reason ELSE <<"stuck">>
    /\ UNCHANGED <<status, run, failing, watched, putBack, triaged, reflectVars>>

\* Alive and older than the threshold: one note, whatever the row is by now.
MarkStuck ==
    /\ reaped # "no" /\ reaped' = "no"
    /\ reason' = IF reaped = "warned" THEN reason ELSE Append(reason, "stuck")
    /\ UNCHANGED <<status, run, failing, watched, putBack, triaged, reflectVars>>

MarkGone ==
    /\ reaped # "no" /\ reaped' = "no"
    /\ \/ status = "running" /\ status' = "failed" /\ reason' = Append(reason, "gone")
       \/ status # "running" /\ UNCHANGED <<status, reason>>
    /\ UNCHANGED <<run, failing, watched, putBack, triaged, reflectVars>>

\* promote and reopen leave both texts alone.
Requeue ==
    /\ status \in {"skipped", "failed", "done"} /\ status' = "pending"
    /\ UNCHANGED <<reason, run, failing, reaped, watched, putBack, triaged, reflectVars>>

\* The completion watcher's Tick lists the running rows, and then reads what
\* their sessions have left in their directories.
WatcherLists ==
    /\ watched = 0 /\ status = "running" /\ watched' = run
    /\ UNCHANGED <<status, reason, run, failing, reaped, putBack, triaged, reflectVars>>

\* A directory or an exit code it does not accept: the watcher's markFailed
\* writes its own reason over what is there, whatever the row is by now.
WatcherMarksFailed ==
    /\ watched # 0 /\ watched' = 0
    /\ status' = "failed" /\ reason' = <<"exit">>
    /\ UNCHANGED <<run, failing, reaped, putBack, triaged, reflectVars>>

\* No exit code yet, or one it cannot read.
WatcherLeaves ==
    /\ watched # 0 /\ watched' = 0
    /\ UNCHANGED <<status, reason, run, failing, reaped, putBack, triaged, reflectVars>>

---------------------------------------------------------------------------
\* reflection

\* The exit code is 0: the watcher writes done, whatever the row is by now, and
\* calls the hook for the session it listed; the sampler may refuse.
RowIsDone ==
    /\ watched # 0 /\ watched' = 0 /\ status' = "done"
    /\ reflecting' \in {reflecting, [reflecting EXCEPT ![watched] = "send"]}
    /\ UNCHANGED <<reason, run, failing, reaped, putBack, triaged,
                   reflection, answer, read, owed>>

Reflects(k, from, to) == reflecting[k] = from /\ reflecting' = [reflecting EXCEPT ![k] = to]

\* The prompt goes to the session of run k; a session sent twice answers twice.
SendReflection(k) ==
    /\ Reflects(k, "send", "wait") /\ owed' = owed \cup {k}
    /\ UNCHANGED <<noteVars, reflection, answer, read>>

\* Claude moves its review into place, late or not, over what is there.
ReviewArrives(k) ==
    /\ k \in owed /\ owed' = owed \ {k} /\ answer' = k
    /\ UNCHANGED <<noteVars, reflection, reflecting, read>>

ReadReflection(k) ==
    /\ answer # 0 /\ Reflects(k, "wait", "store")
    /\ read' = [read EXCEPT ![k] = answer]
    /\ UNCHANGED <<noteVars, reflection, answer, owed>>

\* The store refuses the text unless the row is done or failed.
StoreReflection(k) ==
    /\ Reflects(k, "store", "end")
    /\ reflection' = IF status \in {"done", "failed"} THEN read[k] ELSE reflection
    /\ read' = [read EXCEPT ![k] = 0]
    /\ UNCHANGED <<noteVars, answer, owed>>

\* The timeout, a cancelled context, a send or a read that fails.
ReflectionEnds(k) ==
    /\ reflecting[k] \in {"send", "wait", "store"}
    /\ reflecting' = [reflecting EXCEPT ![k] = "end"] /\ read' = [read EXCEPT ![k] = 0]
    /\ UNCHANGED <<noteVars, reflection, answer, owed>>

ReasonStep ==
    \/ ApplyTriage \/ Dispatched \/ BeginMarkFailed \/ EndMarkFailed
    \/ EscalateToHuman \/ ExpireWaitingHuman
    \/ ReaperLists \/ MarkStuck \/ MarkGone \/ Requeue
    \/ WatcherLists \/ WatcherMarksFailed \/ WatcherLeaves

AnnotationNext ==
    \/ ReasonStep /\ Len(reason') <= MaxNotes
    \/ RowIsDone
    \/ \E k \in Runs : \/ SendReflection(k) \/ ReviewArrives(k) \/ ReadReflection(k)
                       \/ StoreReflection(k) \/ ReflectionEnds(k)

AnnotationSpec == AnnotationInit /\ [][AnnotationNext]_annotationVars

---------------------------------------------------------------------------

\* A row that failed by itself says why, also when it waited for a human in
\* between and nobody came.
FailedSaysWhy == status \in {"failed", "waiting_human"} => reason # <<>>

\* Sweep after sweep, one reaper warns once about a row that is stuck, in all of
\* its runs and in every race with the other writers; the one way to a second
\* warning is a markFailed that wrote back a warning replaced meanwhile.
WarnsOnce ==
    ~putBack => Cardinality({i \in DOMAIN reason : reason[i] = "stuck"}) <= 1

\* Who loses a note: an escalation and a skip, which mean to replace the reason;
\* the completion watcher's failure, which replaces it all the same; and a
\* markFailed that had not read the note, for it came after its read or the read
\* failed.  The reaper, the triage of a task and a row's next run lose none.
NotesAreKept ==
    [][\A n \in NotePart(reason) : n \notin NotePart(reason') =>
          \/ reason' \in {<<"ask">>, <<"skip">>}
          \/ reason' = <<"exit">> /\ watched # 0
          \/ failing.on /\ n \notin NotePart(failing.had)]_annotationVars

\* A stored review is never that of a session the row has not had yet, and it is
\* that of an earlier run only if that run's reviewer was asked and its answer
\* is still in the control directory.
ReviewIsExplained ==
    reflection # 0 => reflection <= run /\ reflecting[reflection] # "none"

\* Who failed says why, a warning is given once, a review is of a run that was
\* reviewed, and a note is lost only to the writers named.
NotesAreTrue ==
    /\ []AnnotationTypeOK
    /\ []FailedSaysWhy /\ []WarnsOnce /\ []ReviewIsExplained /\ NotesAreKept
=============================================================================
