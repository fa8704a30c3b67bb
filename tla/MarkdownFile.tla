----------------------------- MODULE MarkdownFile -----------------------------
(***************************************************************************)
(* The markdown source (internal/source/markdown): checklist lines in the   *)
(* user's own files.  A line without a marker gets an id the first time it  *)
(* is listed, by rewriting the file; Since lists only files whose mtime is  *)
(* past a checkpoint; Add, Complete and Delete rewrite one line.            *)
(*                                                                         *)
(* Every rewrite is read, then rename a new file into place.  The mutex is  *)
(* the Plugin's, so the loop's process and a command's process interleave,  *)
(* with each other and with the user's editor; either may be killed.        *)
(***************************************************************************)
EXTENDS Naturals, Sequences, FiniteSets, SequencesExt

CONSTANTS
    Process,     \* processes with a Plugin of their own
    Files,       \* the configured files, in their order
    Title,       \* what a checklist line says; the user writes each once
    MaxIds,      \* bound: ids generated
    MaxWrites,   \* bound: writes of any file
    MaxEdits,    \* bound: edits by the user among them
    MaxCalls     \* bound: calls begun

ASSUME MarkdownAssumption == Files \in Seq(STRING) /\ Files # <<>>
                          /\ {MaxIds, MaxWrites, MaxEdits, MaxCalls} \subseteq Nat

File == ToSet(Files)
NoId == 0
Line == [title : Title, id : 0..MaxIds, done : BOOLEAN]

VARIABLES
    present,    \* the files that exist
    lines,      \* lines[f]: the checklist lines of f
    mtime,      \* mtime[f]
    seen,       \* seen[f]: the checkpoint kept in kv_state
    clock,      \* counts writes of any file
    nextId,
    edits,
    calls,
    job,        \* job[p]: the call process p is in
    handed,     \* the <<title, id>> pairs callers were given
    removed,    \* the ids whose line the user or Delete has taken out
    told,       \* the titles a Since that returned has reported
    clashed,    \* a write replaced lines that its process had not read
    excused,    \* files with an edit that no Since may ever report
    calm        \* a Since ran, and nobody else did anything since it began

fileVars == <<present, lines, mtime, seen, clock>>
ghostVars == <<handed, removed, told, clashed, excused, calm>>
markdownVars == <<fileVars, nextId, edits, calls, job, ghostVars>>

\* todo: files still to visit; body: what was read of the next of them; stat:
\* the mtimes to checkpoint; got: tasks collected; listed: files read so far
\* with the mtime they had then; id: the line Complete or Delete looks for.
Idle == [call |-> "none", step |-> "none", todo |-> {}, body |-> <<>>,
         stat |-> {}, got |-> {}, listed |-> {}, id |-> NoId]

Calls == {"none", "list", "since", "add", "complete", "delete"}

MarkdownTypeOK ==
    /\ present \subseteq File /\ lines \in [File -> Seq(Line)]
    /\ mtime \in [File -> Nat] /\ seen \in [File -> Nat]
    /\ nextId \in 1..(MaxIds + 1) /\ edits \in 0..MaxEdits /\ calls \in 0..MaxCalls
    /\ \A p \in Process : job[p].call \in Calls /\ job[p].body \in Seq(Line)
    /\ excused \subseteq File /\ clashed \in BOOLEAN /\ calm \in BOOLEAN

New(t) == [title |-> t, id |-> NoId, done |-> FALSE]

\* Fresh files, or files that List has been over before.
MarkdownInit ==
    /\ present \in {{Files[1]}, File}
    /\ \E first \in {<<>>} \cup {<<New(t)>> : t \in Title} :
           lines = [f \in File |-> IF f = Files[1] THEN first ELSE <<>>]
    /\ mtime = [f \in File |-> 1] /\ seen = [f \in File |-> 0] /\ clock = 1
    /\ nextId = 1 /\ edits = 0 /\ calls = 0 /\ job = [p \in Process |-> Idle]
    /\ handed = {} /\ removed = {} /\ told = {}
    /\ clashed = FALSE /\ excused = {} /\ calm = FALSE

---------------------------------------------------------------------------
\* Writing

\* atomicWriteFile: the new body and a new mtime appear at once.
Write(f, body) ==
    /\ lines' = [lines EXCEPT ![f] = body]
    /\ clock <= MaxWrites /\ clock' = clock + 1
    /\ mtime' = [mtime EXCEPT ![f] = clock + 1]
    /\ present' = present \cup {f}
    /\ UNCHANGED seen

Set(p, r) == job' = [job EXCEPT ![p] = r]

\* The files are visited in their order.
FirstOf(todo) == Files[CHOOSE i \in DOMAIN Files :
                          Files[i] \in todo /\ \A j \in 1..(i - 1) : Files[j] \notin todo]
CurrentFile(p) == FirstOf(job[p].todo)
Titles(body) == {body[i].title : i \in DOMAIN body}
Pairs(body) == {<<body[i].title, body[i].id>> : i \in DOMAIN body}
Unmarked(body) == {i \in DOMAIN body : body[i].id = NoId}

\* listLocked gives each unmarked line of the body an id of its own.
injectMarker(body) ==
    [i \in DOMAIN body |->
        IF body[i].id # NoId THEN body[i]
        ELSE [body[i] EXCEPT !.id = nextId + Cardinality({j \in Unmarked(body) : j < i})]]

\* The next file, or what follows the last one.
AfterFile(r) ==
    LET rest == r.todo \ {FirstOf(r.todo)}
    IN  IF rest # {}
        THEN [r EXCEPT !.todo = rest, !.step = "read", !.body = <<>>]
        ELSE CASE r.call = "list"  -> [r EXCEPT !.todo = {}, !.body = <<>>, !.listed = {},
                                                !.step = "return"]
               [] r.call = "since" -> [r EXCEPT !.todo = {}, !.body = <<>>, !.step = "restat"]
               [] OTHER            -> Idle

Others(p) == {o \in Process \ {p} : job[o].call # "none"}

---------------------------------------------------------------------------
\* The calls

Begin(p) ==
    /\ job[p].call = "none" /\ calls < MaxCalls /\ calls' = calls + 1
    /\ \/ Set(p, [Idle EXCEPT !.call = "list", !.step = "read", !.todo = File])
       \/ Set(p, [Idle EXCEPT !.call = "since", !.step = "stat"])
       \/ Set(p, [Idle EXCEPT !.call = "add", !.step = "read", !.todo = {Files[1]}])
       \/ \E h \in handed : \E c \in {"complete", "delete"} :
              Set(p, [Idle EXCEPT !.call = c, !.step = "read", !.todo = File, !.id = h[2]])
    /\ calm' = (job'[p].call = "since" /\ Others(p) = {})
    /\ UNCHANGED <<fileVars, nextId, edits, handed, removed, told, clashed, excused>>

\* Since: the files whose mtime is after their checkpoint.
Stat(p) ==
    /\ job[p].step = "stat"
    /\ LET todo == {f \in present : mtime[f] > seen[f]}
       IN Set(p, [job[p] EXCEPT !.todo = todo,
                                !.stat = {<<f, mtime[f]>> : f \in present},
                                !.step = IF todo = {} THEN "set" ELSE "read"])
    /\ UNCHANGED <<calls, fileVars, nextId, edits, ghostVars>>

\* A missing file is skipped by all but Add; a file with no unmarked line is
\* not rewritten; Complete and Delete go on until they find their id.
Read(p) ==
    /\ job[p].step = "read"
    /\ LET f == CurrentFile(p)
           body == IF f \in present THEN lines[f] ELSE <<>>
           r == [job[p] EXCEPT !.listed = @ \cup {<<f, mtime[f]>>}, !.body = body,
                               !.step = "write"]
           lookup == r.call \in {"complete", "delete"}
           rewrite == \/ r.call = "add"
                      \/ lookup /\ \E i \in DOMAIN body : body[i].id = r.id
                      \/ ~lookup /\ Unmarked(body) # {}
       IN Set(p, IF rewrite THEN r
                 ELSE IF f \notin present THEN AfterFile(job[p])
                 ELSE AfterFile([r EXCEPT !.got = IF lookup THEN @ ELSE @ \cup Pairs(body)]))
    /\ UNCHANGED <<calls, fileVars, nextId, edits, ghostVars>>

Rewrite(p, body) ==
    /\ job[p].step = "write"
    /\ Write(CurrentFile(p), body)
    /\ clashed' = (clashed \/ lines[CurrentFile(p)] # job[p].body)

InjectMarkers(p) ==
    LET f == CurrentFile(p)
        new == injectMarker(job[p].body)
    IN /\ job[p].call \in {"list", "since"}
       /\ nextId + Cardinality(Unmarked(job[p].body)) <= MaxIds + 1
       /\ Rewrite(p, new)
       /\ nextId' = nextId + Cardinality(Unmarked(job[p].body))
       /\ Set(p, AfterFile([job[p] EXCEPT
                   !.listed = {l \in @ : l[1] # f} \cup {<<f, clock + 1>>},
                   !.got = @ \cup Pairs(new)]))
       /\ UNCHANGED <<calls, edits, handed, removed, told, excused, calm>>

Unused == Title \ (UNION {Titles(lines[f]) : f \in File}
                   \cup told \cup {h[1] : h \in handed})

AppendTask(p) ==
    \E t \in Unused :
        /\ job[p].call = "add" /\ nextId <= MaxIds
        /\ Rewrite(p, Append(job[p].body, [title |-> t, id |-> nextId, done |-> FALSE]))
        /\ nextId' = nextId + 1 /\ handed' = handed \cup {<<t, nextId>>}
        /\ Set(p, Idle)
        /\ UNCHANGED <<calls, edits, removed, told, excused, calm>>

\* The first line with the id.
Target(p) == CHOOSE i \in DOMAIN job[p].body :
                /\ job[p].body[i].id = job[p].id
                /\ \A j \in 1..(i - 1) : job[p].body[j].id # job[p].id

Complete(p) ==
    /\ job[p].call = "complete"
    /\ Rewrite(p, [job[p].body EXCEPT ![Target(p)].done = TRUE])
    /\ Set(p, Idle)
    /\ UNCHANGED <<calls, nextId, edits, handed, removed, told, excused, calm>>

\* A mutant: everything from the line on goes.
DeleteToTheEnd(p) ==
    /\ job[p].call = "delete"
    /\ Rewrite(p, SubSeq(job[p].body, 1, Target(p) - 1))
    /\ removed' = removed \cup {job[p].id}
    /\ Set(p, Idle)
    /\ UNCHANGED <<calls, nextId, edits, handed, told, excused, calm>>

Delete(p) ==
    /\ job[p].call = "delete"
    /\ Rewrite(p, RemoveAt(job[p].body, Target(p)))
    /\ removed' = removed \cup {job[p].id}
    /\ Set(p, Idle)
    /\ UNCHANGED <<calls, nextId, edits, handed, told, excused, calm>>

\* Since looks at the mtimes again, as its own markers have changed them.
Restat(p) ==
    /\ job[p].step = "restat"
    /\ Set(p, [job[p] EXCEPT
           !.stat = {<<s[1], IF s[1] \in present /\ \E l \in job[p].listed : l[1] = s[1]
                             THEN mtime[s[1]] ELSE s[2]>> : s \in @},
           !.step = "set"])
    /\ UNCHANGED <<calls, fileVars, nextId, edits, ghostVars>>

\* A mutant: the checkpoint is the time it is set.
SetToNow(p) ==
    \E s \in job[p].stat :
        /\ job[p].step = "set"
        /\ seen' = [seen EXCEPT ![s[1]] = clock]
        /\ Set(p, [job[p] EXCEPT !.stat = @ \ {s}])
        /\ UNCHANGED <<calls, present, lines, mtime, clock, nextId, edits, ghostVars>>

\* One file's checkpoint, in no order.  What changed the file after it was read
\* is behind the checkpoint now.
SetCheckpoint(p) ==
    \E s \in job[p].stat :
        /\ job[p].step = "set"
        /\ seen' = [seen EXCEPT ![s[1]] = s[2]]
        /\ Set(p, [job[p] EXCEPT !.stat = @ \ {s}])
        /\ excused' = excused \cup {l[1] : l \in {k \in job[p].listed :
                                                    k[1] = s[1] /\ k[2] # s[2]}}
        /\ UNCHANGED <<calls, present, lines, mtime, clock, nextId, edits, handed, removed,
                       told, clashed, calm>>

Return(p) ==
    /\ job[p].step = "return" \/ (job[p].step = "set" /\ job[p].stat = {})
    /\ Set(p, Idle)
    /\ handed' = handed \cup job[p].got
    /\ told' = IF job[p].call = "since" THEN told \cup {g[1] : g \in job[p].got} ELSE told
    /\ UNCHANGED <<calls, fileVars, nextId, edits, removed, clashed, excused, calm>>

\* An error of any step, or the process is killed: what it listed is not told,
\* and the files whose checkpoint was already set are not listed again.
Fails(p) ==
    /\ job[p].call # "none" /\ Set(p, Idle)
    /\ calm' = FALSE
    /\ excused' = IF job[p].step # "set" THEN excused
                  ELSE excused \cup {f \in {l[1] : l \in job[p].listed} :
                                        \A s \in job[p].stat : s[1] # f}
    /\ UNCHANGED <<calls, fileVars, nextId, edits, handed, removed, told, clashed>>

Setup ==
    \E f \in File \ present :
        /\ Write(f, <<>>) /\ calm' = FALSE
        /\ UNCHANGED <<calls, nextId, edits, job, handed, removed, told, clashed, excused>>

---------------------------------------------------------------------------
\* The user's editor saves the file as the user has just seen it.

Saves(f, body) ==
    /\ edits < MaxEdits /\ edits' = edits + 1
    /\ f \in present /\ Write(f, body)
    /\ removed' = removed \cup ({lines[f][i].id : i \in DOMAIN lines[f]}
                               \ {body[i].id : i \in DOMAIN body})
    /\ calm' = FALSE
    /\ UNCHANGED <<calls, nextId, job, handed, told, clashed, excused>>

UserAdds(f) == \E t \in Unused : Saves(f, Append(lines[f], New(t)))
UserChecks(f) == \E i \in DOMAIN lines[f] :
    ~lines[f][i].done /\ Saves(f, [lines[f] EXCEPT ![i].done = TRUE])
UserRemoves(f) == \E i \in DOMAIN lines[f] : Saves(f, RemoveAt(lines[f], i))

MarkdownNext ==
    \/ \E p \in Process :
           \/ Begin(p) \/ Stat(p) \/ Read(p) \/ InjectMarkers(p) \/ AppendTask(p)
           \/ Complete(p) \/ Delete(p) \/ Restat(p) \/ SetCheckpoint(p)
           \/ Return(p) \/ Fails(p)
    \/ Setup
    \/ \E f \in File : UserAdds(f) \/ UserChecks(f) \/ UserRemoves(f)

MarkdownSpec == MarkdownInit /\ [][MarkdownNext]_markdownVars

---------------------------------------------------------------------------

\* An id a caller was given is that line's id for as long as the line is there,
\* whoever lists the file next: only a write over unread lines can take it away.
IdsAreStable ==
    clashed \/ \A h \in handed : h[2] \in removed \/ \E f \in File : h \in Pairs(lines[f])

\* A rewrite takes no line away and unchecks none but the one it was called for
\* (the user's own edits apart), unless it writes over lines it has not read.
LinesSurvive ==
    [][\A f \in File : edits' = edits /\ ~clashed' =>
          \A i \in DOMAIN lines[f] :
              \/ \E j \in DOMAIN lines'[f] : /\ lines'[f][j].title = lines[f][i].title
                                             /\ lines[f][i].done => lines'[f][j].done
              \/ \E p \in Process : /\ job[p].call = "delete" /\ job'[p].call = "none"
                                    /\ job[p].id = lines[f][i].id]_markdownVars

\* A line is reported by some Since: if none has, its file is still newer than
\* the checkpoint, or the Since that read it is not over.  Excused are files
\* that changed between being read and being looked at again, and those whose
\* checkpoint was set by a Since that failed on another file's.
EveryEditIsReported ==
    \A f \in present \ excused : \A t \in Titles(lines[f]) \ told :
        mtime[f] > seen[f] \/ \E p \in Process : \E g \in job[p].got : g[1] = t

\* A Since that nobody disturbed leaves nothing to list again, although it may
\* have changed the files itself.
SinceGoesQuiet ==
    calm /\ (\A p \in Process : job[p].call = "none") =>
        \A f \in present : mtime[f] <= seen[f]
=============================================================================
