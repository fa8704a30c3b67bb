--------------------------- MODULE MarkdownProofs ----------------------------
(***************************************************************************)
(* The Markdown source, with any files, titles, edits and processes: ids   *)
(* are given once and stay, every edit is reported by the next Since, a    *)
(* Since after which nothing happened reports nothing, and no call loses a *)
(* line somebody else wrote.                                                *)
(***************************************************************************)
EXTENDS MarkdownFile, FiniteSetTheorems, SequenceTheorems, WellFoundedInduction, TLAPS

\* A set of naturals has a least one.
LEMMA LeastOfNaturals ==
    ASSUME NEW S \in SUBSET Nat, S # {}
    PROVE  \E x \in S : \A y \in S : x <= y
<1>1. IsWellFoundedOn(OpToRel(<, Nat), Nat)
  BY NatLessThanWellFounded
<1>2. PICK x \in S : \A y \in S : ~(<<y, x>> \in OpToRel(<, Nat))
  BY <1>1, WFMin
<1>3. \A y \in S : ~(y < x)
  BY <1>2 DEF OpToRel
<1> QED BY <1>3

\* What a call can be in the middle of.
CallSteps == {"none", "stat", "read", "write", "restat", "set", "return"}
FileStamps == File \X Nat

MarkdownJob ==
    [call : Calls, step : CallSteps, todo : SUBSET File, body : Seq(Line),
     stat : SUBSET FileStamps, got : SUBSET (Title \X (1..MaxIds)), listed : SUBSET FileStamps,
     id : Nat]

Listed(r) == {l[1] : l \in r.listed}
Stated(r) == {s[1] : s \in r.stat}
Reported(r) == {g[1] : g \in r.got}

\* A call is at a step it has, and one that is about to write has found what for.
JobIsSound(r) ==
    /\ r.call = "none" <=> r.step = "none"
    /\ r.call = "none" => r = Idle
    /\ r.step \in {"stat", "restat", "set"} => r.call = "since"
    /\ r.step = "return" => r.call = "list"
    /\ r.step \in {"read", "write"} <=> r.todo # {}
    /\ r.step = "write" /\ r.call \in {"complete", "delete"} =>
           \E i \in DOMAIN r.body : r.body[i].id = r.id
    /\ r.call \in {"complete", "delete"} => r.id # NoId
    /\ r.call = "since" => r.todo \subseteq present
    /\ r.step = "stat" => r.stat = {} /\ r.listed = {} /\ r.got = {}
    /\ r.stat # {} => r.call = "since"

JobsAreSound == job \in [Process -> MarkdownJob] /\ \A p \in Process : JobIsSound(job[p])

\* No time is ahead of the clock, and a time that was read is past.
TimesArePast ==
    /\ clock \in Nat /\ \A f \in File : mtime[f] <= clock /\ seen[f] <= clock
    /\ \A f \in File \ present : lines[f] = <<>>
    /\ handed \subseteq Title \X (1..MaxIds)
    /\ \A p \in Process : \A s \in job[p].stat \cup job[p].listed : s[2] <= mtime[s[1]]
    /\ \A p \in Process : \A s, t \in job[p].stat : s[1] = t[1] => s = t

\* Ids are given once, and a line has one for itself.
IdsAreGivenOnce ==
    /\ \A f \in File : \A i \in DOMAIN lines[f] : lines[f][i].id < nextId
    /\ \A p \in Process : \A i \in DOMAIN job[p].body : job[p].body[i].id < nextId
    /\ ~clashed => \A f \in File : \A i, j \in DOMAIN lines[f] :
           lines[f][i].id = lines[f][j].id /\ lines[f][i].id # NoId => i = j

\* What a caller was given, or is about to be, is in a file or was taken out.
PairIsKept(h) == h[2] \in removed \/ \E f \in File : h \in Pairs(lines[f])

PairsAreThere ==
    ~clashed => /\ \A h \in handed : PairIsKept(h)
                /\ \A p \in Process : \A h \in job[p].got : PairIsKept(h)

\* The lines of f are reported, or will be when a Since returns that has set
\* their checkpoint.
Reporting(p, f) == /\ job[p].call = "since" /\ job[p].step = "set"
                   /\ f \in Listed(job[p]) \ Stated(job[p])

IsTold(f) ==
    f \in excused \/ \A t \in Titles(lines[f]) \ told :
                        \E p \in Process : Reporting(p, f) /\ t \in Reported(job[p])

\* A file that is not newer than its checkpoint.
OldFilesAreTold == \A f \in present : mtime[f] > seen[f] \/ IsTold(f)

\* A file that was not when the Since r looked.
PassedFilesAreTold(r) ==
    \A s \in r.stat : s[1] \notin r.todo \cup Listed(r) /\ mtime[s[1]] = s[2] => IsTold(s[1])

\* A file that the Since r has listed.
ListedFilesAreReported(r) ==
    r.call = "since" => \A l \in r.listed :
        (r.step = "write" => l[1] # FirstOf(r.todo)) /\ mtime[l[1]] = l[2]
            => Titles(lines[l[1]]) \subseteq Reported(r)

EditsAreTold ==
    /\ OldFilesAreTold
    /\ \A p \in Process : PassedFilesAreTold(job[p]) /\ ListedFilesAreReported(job[p])

\* A Since that is alone knows what every file is like.
IsCalm(r, f) ==
    LET current == <<f, mtime[f]>> \in r.stat
    IN  /\ r.step \in {"read", "write", "restat"} =>
               f \in Stated(r) /\ (f \in Listed(r) \/ current)
        /\ r.step \in {"read", "write"} /\ f \notin r.todo \cup Listed(r) => mtime[f] <= seen[f]
        /\ r.step = "set" => current \/ (f \notin Stated(r) /\ mtime[f] <= seen[f])

CalmIsAlone ==
    calm => /\ \A p, o \in Process : job[p].call # "none" /\ job[o].call # "none" => p = o
            /\ \A p \in Process : job[p].call # "none" =>
                   job[p].call = "since" /\ \A f \in present : IsCalm(job[p], f)
            /\ (\A p \in Process : job[p].call = "none") => \A f \in present : mtime[f] <= seen[f]

MarkdownInv ==
    /\ MarkdownTypeOK /\ JobsAreSound /\ TimesArePast /\ IdsAreGivenOnce /\ PairsAreThere
    /\ EditsAreTold /\ CalmIsAlone

-----------------------------------------------------------------------------
\* The operators

\* The file a call is at is one it has still to visit.
LEMMA FirstIsThere ==
    ASSUME NEW todo \in SUBSET File, todo # {}
    PROVE  FirstOf(todo) \in todo
<1> USE MarkdownAssumption
<1>1. \A f \in File : \E i \in DOMAIN Files : Files[i] = f
  BY DEF File, ToSet
<1> DEFINE At == {i \in DOMAIN Files : Files[i] \in todo}
<1>2. At \subseteq Nat /\ At # {}
  BY <1>1
<1>3. PICK i \in At : \A j \in At : i <= j
  BY <1>2, LeastOfNaturals
<1>4. i \in DOMAIN Files /\ Files[i] \in todo /\ \A j \in 1..(i - 1) : Files[j] \notin todo
  BY <1>3
<1> QED BY <1>4 DEF FirstOf

\* The line a lookup writes is the one it found.
LEMMA TargetIsFound ==
    ASSUME NEW p \in Process, job[p].body \in Seq(Line),
           \E i \in DOMAIN job[p].body : job[p].body[i].id = job[p].id
    PROVE  Target(p) \in DOMAIN job[p].body /\ job[p].body[Target(p)].id = job[p].id
<1> DEFINE At == {i \in DOMAIN job[p].body : job[p].body[i].id = job[p].id}
<1>1. At \subseteq Nat /\ At # {}
  OBVIOUS
<1>2. PICK i \in At : \A j \in At : i <= j
  BY <1>1, LeastOfNaturals
<1>3. /\ i \in DOMAIN job[p].body /\ job[p].body[i].id = job[p].id
      /\ \A j \in 1..(i - 1) : job[p].body[j].id # job[p].id
  BY <1>2
<1> QED BY <1>3 DEF Target

\* A proper part of a finite set has fewer elements.
LEMMA PartIsSmaller ==
    ASSUME NEW S, IsFiniteSet(S), NEW T \in SUBSET S, T # S
    PROVE  /\ IsFiniteSet(T) /\ Cardinality(T) \in Nat /\ Cardinality(S) \in Nat
           /\ Cardinality(T) < Cardinality(S)
<1>1. IsFiniteSet(T) /\ Cardinality(T) <= Cardinality(S) /\ Cardinality(T) # Cardinality(S)
  BY FS_Subset
<1>2. Cardinality(T) \in Nat /\ Cardinality(S) \in Nat
  BY <1>1, FS_CardinalityType
<1> QED BY <1>1, <1>2

\* Every unmarked line gets an id of its own, and nothing else changes.
LEMMA MarkersAreFresh ==
    ASSUME NEW body \in Seq(Line), nextId \in 1..(MaxIds + 1),
           nextId + Cardinality(Unmarked(body)) <= MaxIds + 1,
           \A i \in DOMAIN body : body[i].id < nextId
    PROVE  LET new == injectMarker(body)
               next == nextId + Cardinality(Unmarked(body))
           IN  /\ new \in Seq(Line) /\ DOMAIN new = DOMAIN body
               /\ Cardinality(Unmarked(body)) \in Nat
               /\ \A i \in DOMAIN body :
                      /\ new[i].title = body[i].title /\ new[i].done = body[i].done
                      /\ new[i].id # NoId /\ new[i].id < next
                      /\ body[i].id # NoId => new[i].id = body[i].id
                      /\ body[i].id = NoId => new[i].id >= nextId
               /\ \A i, j \in DOMAIN body :
                      body[i].id = NoId /\ body[j].id = NoId /\ new[i].id = new[j].id => i = j
<1> USE MarkdownAssumption
<1> DEFINE U == Unmarked(body)
<1> DEFINE Before(i) == {j \in U : j < i}
<1> DEFINE new == injectMarker(body)
<1>1. U \subseteq 1..Len(body) /\ IsFiniteSet(U)
  <2>1. U \subseteq 1..Len(body)
    BY DEF Unmarked
  <2>2. Len(body) \in Int /\ 1 \in Int
    OBVIOUS
  <2>3. IsFiniteSet(1..Len(body))
    BY <2>2, FS_Interval
  <2> HIDE DEF U
  <2> QED BY <2>1, <2>3, FS_Subset
<1>2. Cardinality(U) \in Nat
  BY <1>1, FS_CardinalityType
<1>3. \A i : IsFiniteSet(Before(i)) /\ Cardinality(Before(i)) \in Nat
  BY <1>1, FS_Subset, FS_CardinalityType
<1>4. ASSUME NEW i \in U PROVE Cardinality(Before(i)) < Cardinality(U)
  <2>1. Before(i) \in SUBSET U /\ Before(i) # U
    BY <1>1
  <2> HIDE DEF U, Before
  <2> QED BY <1>1, <2>1, PartIsSmaller
<1>5. ASSUME NEW i \in U, NEW j \in U, i < j
      PROVE  Cardinality(Before(i)) < Cardinality(Before(j))
  <2>1. Before(i) \in SUBSET Before(j) /\ Before(i) # Before(j)
    <3>1. i \in Before(j) /\ i \notin Before(i)
      BY <1>1, <1>5
    <3> QED BY <1>1, <1>5, <3>1
  <2> HIDE DEF U, Before
  <2> QED BY <1>3, <2>1, PartIsSmaller
<1>6. new = [i \in DOMAIN body |->
                 IF body[i].id # NoId THEN body[i]
                 ELSE [body[i] EXCEPT !.id = nextId + Cardinality(Before(i))]]
  BY DEF injectMarker
<1>7. \A i \in DOMAIN body : body[i] \in Line
  OBVIOUS
<1>8. \A i \in DOMAIN body : i \in U <=> body[i].id = NoId
  BY DEF Unmarked
<1> HIDE DEF new, U, Before
<1>9. ASSUME NEW i \in DOMAIN body
      PROVE  /\ new[i] \in Line /\ new[i].title = body[i].title /\ new[i].done = body[i].done
             /\ new[i].id # NoId /\ new[i].id < nextId + Cardinality(U)
             /\ body[i].id # NoId => new[i].id = body[i].id
             /\ body[i].id = NoId => new[i].id = nextId + Cardinality(Before(i))
  <2>1. CASE body[i].id # NoId
    BY <1>2, <1>6, <1>7, <2>1 DEF Line
  <2>2. CASE body[i].id = NoId
    <3>1. Cardinality(Before(i)) < Cardinality(U) /\ Cardinality(Before(i)) \in Nat
      BY <1>3, <1>4, <1>8, <2>2
    <3>2. nextId + Cardinality(Before(i)) \in 1..MaxIds /\ NoId = 0
      BY <1>2, <3>1 DEF U, NoId
    <3>3. PICK b \in Line : b = body[i]
      BY <1>7
    <3>4. PICK v \in 1..MaxIds : v = nextId + Cardinality(Before(i))
      BY <3>2
    <3>5. new[i] = [b EXCEPT !.id = v]
      BY <1>6, <2>2, <3>3, <3>4
    <3>6. /\ new[i] \in Line /\ new[i].id = v /\ new[i].title = b.title
          /\ new[i].done = b.done
      <4>1. b = [title |-> b.title, id |-> b.id, done |-> b.done] /\ b.title \in Title
            /\ b.done \in BOOLEAN
        BY DEF Line
      <4>2. new[i] = [title |-> b.title, id |-> v, done |-> b.done]
        BY <3>5, <4>1
      <4>3. v \in 0..MaxIds
        OBVIOUS
      <4> QED BY <4>1, <4>2, <4>3 DEF Line
    <3>7. v # 0 /\ v < nextId + Cardinality(U)
      BY <1>2, <3>1, <3>4
    <3> QED BY <2>2, <3>2, <3>3, <3>4, <3>6, <3>7
  <2> QED BY <2>1, <2>2
<1>10. new \in Seq(Line) /\ DOMAIN new = DOMAIN body
  <2>1. DOMAIN new = 1..Len(body) /\ Len(body) \in Nat /\ DOMAIN body = 1..Len(body)
    BY <1>6
  <2>2. new \in [1..Len(body) -> Line]
    BY <1>6, <1>9, <2>1
  <2> QED BY <2>1, <2>2
<1>11. ASSUME NEW i \in DOMAIN body, NEW j \in DOMAIN body,
              body[i].id = NoId, body[j].id = NoId, new[i].id = new[j].id
       PROVE  i = j
  <2>1. i \in U /\ j \in U /\ Cardinality(Before(i)) = Cardinality(Before(j))
    BY <1>3, <1>8, <1>9, <1>11
  <2>2. ~(i < j) /\ ~(j < i)
    BY <1>3, <1>5, <2>1
  <2> QED BY <2>2
<1> QED BY <1>2, <1>3, <1>9, <1>10, <1>11 DEF new, U

\* After a file comes the next one, or the end of the call.
GoesOn(r, q) ==
    /\ q.call = r.call /\ q.id = r.id /\ q.body = <<>> /\ q.got = r.got /\ q.stat = r.stat
    /\ q.todo = r.todo \ {FirstOf(r.todo)}
    /\ q.listed \subseteq r.listed /\ (r.call = "since" => q.listed = r.listed)
    /\ IF q.todo # {} THEN q.step = "read"
       ELSE r.call \in {"list", "since"} /\ q.step = IF r.call = "since" THEN "restat" ELSE "return"

LEMMA IdleIsSound == Idle \in MarkdownJob /\ JobIsSound(Idle)
BY DEF Idle, MarkdownJob, JobIsSound, Calls, CallSteps, NoId, FileStamps

LEMMA AfterFileGoesOn ==
    ASSUME NEW r \in MarkdownJob, r.todo # {}
    PROVE  /\ AfterFile(r) \in MarkdownJob
           /\ GoesOn(r, AfterFile(r)) \/ (AfterFile(r) = Idle /\ r.call \notin {"list", "since"})
<1> DEFINE rest == r.todo \ {FirstOf(r.todo)}
<1>1. rest \in SUBSET File /\ <<>> \in Seq(Line) /\ {} \in SUBSET FileStamps
  BY DEF MarkdownJob
<1> HIDE DEF rest
<1>2. CASE rest # {}
  <2>1. AfterFile(r) = [r EXCEPT !.todo = rest, !.step = "read", !.body = <<>>]
    BY <1>2 DEF AfterFile, rest
  <2> QED BY <1>1, <1>2, <2>1 DEF MarkdownJob, GoesOn, CallSteps, rest
<1>3. CASE rest = {}
  <2>1. CASE r.call = "list"
    <3>1. AfterFile(r) = [r EXCEPT !.todo = {}, !.body = <<>>, !.listed = {}, !.step = "return"]
      BY <1>3, <2>1 DEF AfterFile, rest
    <3> QED BY <1>1, <1>3, <2>1, <3>1 DEF MarkdownJob, GoesOn, CallSteps, rest
  <2>2. CASE r.call = "since"
    <3>1. AfterFile(r) = [r EXCEPT !.todo = {}, !.body = <<>>, !.step = "restat"]
      BY <1>3, <2>2 DEF AfterFile, rest
    <3> QED BY <1>1, <1>3, <2>2, <3>1 DEF MarkdownJob, GoesOn, CallSteps, rest
  <2>3. CASE r.call \notin {"list", "since"}
    BY <1>3, <2>3, IdleIsSound DEF AfterFile, rest
  <2> QED BY <2>1, <2>2, <2>3
<1> QED BY <1>2, <1>3

-----------------------------------------------------------------------------
\* What the steps do to the call of their process

\* Only p's call changes, to q.
JobBecomes(p, q) ==
    /\ q \in MarkdownJob /\ job' \in [Process -> MarkdownJob]
    /\ job'[p] = q /\ \A o \in Process : o # p => job'[o] = job[o]

LEMMA SetBecomes ==
    ASSUME job \in [Process -> MarkdownJob], NEW p \in Process, NEW q \in MarkdownJob, Set(p, q)
    PROVE  JobBecomes(p, q)
BY DEF JobBecomes, Set

\* A call that has just begun.
IsFresh(q) ==
    /\ q \in MarkdownJob /\ JobIsSound(q) /\ q.call # "none" /\ q.step \in {"read", "stat"}
    /\ q.body = <<>> /\ q.stat = {} /\ q.got = {} /\ q.listed = {}
    /\ (q.call = "since" <=> q.step = "stat")

LEMMA BeginDoes ==
    ASSUME JobsAreSound, handed \subseteq Title \X (1..MaxIds), NEW p \in Process, Begin(p)
    PROVE  job[p] = Idle /\ JobBecomes(p, job'[p]) /\ IsFresh(job'[p])
<1> USE MarkdownAssumption
<1>1. PICK r \in MarkdownJob :
          /\ r = Idle /\ job[p] = r /\ r.id = NoId /\ r.todo = {}
          /\ r.body = <<>> /\ r.stat = {} /\ r.got = {} /\ r.listed = {}
  <2>1. job[p] = Idle
    BY DEF Begin, JobsAreSound, JobIsSound
  <2> QED BY <2>1, IdleIsSound DEF Idle
<1>2. Files[1] \in File /\ File # {} /\ File \in SUBSET File /\ {Files[1]} \in SUBSET File
  BY DEF File, ToSet
<1>3. \A q : IsFresh(q) /\ Set(p, q) => JobBecomes(p, job'[p]) /\ IsFresh(job'[p])
  <2> SUFFICES ASSUME NEW q, IsFresh(q), Set(p, q)
               PROVE  JobBecomes(p, job'[p]) /\ IsFresh(job'[p])
    OBVIOUS
  <2>1. JobBecomes(p, q)
    BY SetBecomes DEF IsFresh, JobsAreSound
  <2> QED BY <2>1 DEF JobBecomes
<1>4. CASE Set(p, [Idle EXCEPT !.call = "list", !.step = "read", !.todo = File])
  <2> DEFINE q == [r EXCEPT !.call = "list", !.step = "read", !.todo = File]
  <2>1. q \in MarkdownJob
    BY <1>2 DEF MarkdownJob, Calls, CallSteps
  <2>2. /\ q.call = "list" /\ q.step = "read" /\ q.todo = File /\ q.id = NoId
       /\ q.body = <<>> /\ q.stat = {} /\ q.got = {} /\ q.listed = {}
    BY <1>1 DEF MarkdownJob
  <2> HIDE DEF q
  <2>3. IsFresh(q)
    BY <1>2, <2>1, <2>2 DEF IsFresh, JobIsSound, NoId
  <2> QED BY <1>1, <1>3, <1>4, <2>3 DEF q
<1>5. CASE Set(p, [Idle EXCEPT !.call = "since", !.step = "stat"])
  <2> DEFINE q == [r EXCEPT !.call = "since", !.step = "stat"]
  <2>1. q \in MarkdownJob
    BY <1>2 DEF MarkdownJob, Calls, CallSteps
  <2>2. /\ q.call = "since" /\ q.step = "stat" /\ q.todo = {} /\ q.id = NoId
       /\ q.body = <<>> /\ q.stat = {} /\ q.got = {} /\ q.listed = {}
    BY <1>1 DEF MarkdownJob
  <2> HIDE DEF q
  <2>3. IsFresh(q)
    BY <1>2, <2>1, <2>2 DEF IsFresh, JobIsSound, NoId
  <2> QED BY <1>1, <1>3, <1>5, <2>3 DEF q
<1>6. CASE Set(p, [Idle EXCEPT !.call = "add", !.step = "read", !.todo = {Files[1]}])
  <2> DEFINE q == [r EXCEPT !.call = "add", !.step = "read", !.todo = {Files[1]}]
  <2>1. q \in MarkdownJob
    BY <1>2 DEF MarkdownJob, Calls, CallSteps
  <2>2. /\ q.call = "add" /\ q.step = "read" /\ q.todo = {Files[1]} /\ q.id = NoId
       /\ q.body = <<>> /\ q.stat = {} /\ q.got = {} /\ q.listed = {}
    BY <1>1 DEF MarkdownJob
  <2> HIDE DEF q
  <2>3. IsFresh(q)
    BY <1>2, <2>1, <2>2 DEF IsFresh, JobIsSound, NoId
  <2> QED BY <1>1, <1>3, <1>6, <2>3 DEF q
<1>7. ASSUME NEW h \in handed, NEW c \in {"complete", "delete"},
             Set(p, [Idle EXCEPT !.call = c, !.step = "read", !.todo = File, !.id = h[2]])
      PROVE  JobBecomes(p, job'[p]) /\ IsFresh(job'[p])
  <2>0. h[2] \in Nat /\ h[2] # NoId
    BY DEF NoId
  <2> DEFINE q == [r EXCEPT !.call = c, !.step = "read", !.todo = File, !.id = h[2]]
  <2>1. q \in MarkdownJob
    BY <1>2, <2>0 DEF MarkdownJob, Calls, CallSteps
  <2>2. /\ q.call = c /\ q.step = "read" /\ q.todo = File /\ q.id = h[2]
       /\ q.body = <<>> /\ q.stat = {} /\ q.got = {} /\ q.listed = {}
    BY <1>1 DEF MarkdownJob
  <2> HIDE DEF q
  <2>3. IsFresh(q)
    BY <1>2, <2>0, <2>1, <2>2 DEF IsFresh, JobIsSound, NoId
  <2> QED BY <1>1, <1>3, <1>7, <2>3 DEF q
<1> QED BY <1>1, <1>4, <1>5, <1>6, <1>7 DEF Begin

LEMMA StatDoes ==
    ASSUME JobsAreSound, mtime \in [File -> Nat], present \subseteq File,
           NEW p \in Process, Stat(p)
    PROVE  /\ job[p].step = "stat" /\ job[p].call = "since" /\ JobBecomes(p, job'[p])
           /\ JobIsSound(job'[p]) /\ job'[p].call = "since"
           /\ job'[p].todo = {f \in present : mtime[f] > seen[f]}
           /\ job'[p].stat = {<<f, mtime[f]>> : f \in present}
           /\ job'[p].body = job[p].body /\ job'[p].got = {} /\ job'[p].listed = {}
           /\ job'[p].step = IF job'[p].todo = {} THEN "set" ELSE "read"
<1> DEFINE todo == {f \in present : mtime[f] > seen[f]}
<1> DEFINE stat == {<<f, mtime[f]>> : f \in present}
<1>1. PICK r \in MarkdownJob : r = job[p]
  BY DEF JobsAreSound
<1>2. r.step = "stat" /\ r.call = "since" /\ r.got = {} /\ r.listed = {}
  BY <1>1 DEF JobsAreSound, JobIsSound, Stat
<1>3. todo \in SUBSET File /\ todo \subseteq present /\ stat \in SUBSET FileStamps
  BY DEF FileStamps
<1>4. Set(p, [r EXCEPT !.todo = todo, !.stat = stat,
                       !.step = IF todo = {} THEN "set" ELSE "read"])
  BY <1>1 DEF Stat
<1> HIDE DEF todo, stat
<1> DEFINE q == [r EXCEPT !.todo = todo, !.stat = stat,
                          !.step = IF todo = {} THEN "set" ELSE "read"]
<1>5. /\ q \in MarkdownJob /\ q.call = "since" /\ q.todo = todo /\ q.stat = stat
      /\ q.body = r.body /\ q.got = {} /\ q.listed = {}
      /\ q.step = IF todo = {} THEN "set" ELSE "read"
  BY <1>2, <1>3 DEF MarkdownJob, CallSteps
<1>6. JobBecomes(p, q)
  BY <1>4, <1>5, SetBecomes DEF JobsAreSound
<1> HIDE DEF q
<1>7. JobIsSound(q)
  BY <1>3, <1>5 DEF JobIsSound
<1>8. job'[p] = q
  BY <1>6 DEF JobBecomes
<1> QED BY <1>1, <1>2, <1>5, <1>6, <1>7, <1>8 DEF todo, stat

\* The call of p is through with a file, and goes on to the next or to its end.
Visited(p, q, got, listed) ==
    /\ q.call = job[p].call /\ q.id = job[p].id /\ q.body = <<>> /\ q.stat = job[p].stat
    /\ q.todo = job[p].todo \ {CurrentFile(p)} /\ q.got = got
    /\ q.listed \subseteq listed /\ (q.call = "since" => q.listed = listed)
    /\ q.call = "list" \/ q.call = "since" \/ q.todo # {}
    /\ q.step = IF q.todo # {} THEN "read" ELSE IF q.call = "since" THEN "restat" ELSE "return"

LEMMA FileIsVisited ==
    ASSUME JobsAreSound, NEW p \in Process, job[p].step \in {"read", "write"},
           NEW r \in MarkdownJob, r.call = job[p].call, r.id = job[p].id,
           r.stat = job[p].stat, r.todo = job[p].todo, Set(p, AfterFile(r))
    PROVE  /\ JobBecomes(p, job'[p]) /\ JobIsSound(job'[p])
           /\ \/ Visited(p, job'[p], r.got, r.listed)
              \/ job'[p] = Idle /\ r.call \notin {"list", "since"}
<1>1. /\ r.todo # {} /\ r.call # "none" /\ (r.call = "since" => r.todo \subseteq present)
      /\ (r.call \in {"complete", "delete"} => r.id # NoId)
      /\ (r.stat # {} => r.call = "since")
  BY DEF JobsAreSound, JobIsSound
<1>2. PICK q \in MarkdownJob : q = AfterFile(r)
  BY <1>1, AfterFileGoesOn
<1>3. JobBecomes(p, q) /\ job'[p] = q
  BY <1>2, SetBecomes DEF JobsAreSound, JobBecomes
<1>4. CASE GoesOn(r, q)
  <2>1. Visited(p, q, r.got, r.listed)
    BY <1>4 DEF GoesOn, Visited, CurrentFile
  <2>2. q.todo \subseteq r.todo /\ q.call = r.call /\ q.id = r.id /\ q.stat = r.stat
    BY <1>4 DEF GoesOn
  <2>3. JobIsSound(q)
    BY <1>1, <2>1, <2>2 DEF JobIsSound, Visited
  <2> QED BY <1>3, <2>1, <2>3
<1>5. CASE q = Idle /\ r.call \notin {"list", "since"}
  BY <1>3, <1>5, IdleIsSound
<1> QED BY <1>1, <1>2, <1>4, <1>5, AfterFileGoesOn

\* What a file says when it is read.
BodyOf(f) == IF f \in present THEN lines[f] ELSE <<>>

LEMMA PairsAreTyped ==
    ASSUME NEW body \in Seq(Line), Unmarked(body) = {}
    PROVE  Pairs(body) \subseteq Title \X (1..MaxIds)
<1>1. \A i \in DOMAIN body : body[i] \in Line /\ body[i].id # NoId
  BY DEF Unmarked
<1>2. \A l \in Line : l.id # NoId => <<l.title, l.id>> \in Title \X (1..MaxIds)
  BY DEF Line, NoId
<1> QED BY <1>1, <1>2 DEF Pairs

\* Read holds on to a file it will rewrite, or is through with it.
ReadsToWrite(p, q) ==
    LET f == CurrentFile(p)
    IN  /\ q.step = "write" /\ q.call = job[p].call /\ q.id = job[p].id
        /\ q.todo = job[p].todo /\ q.stat = job[p].stat /\ q.got = job[p].got
        /\ q.body = BodyOf(f) /\ q.listed = job[p].listed \cup {<<f, mtime[f]>>}

ReadsThrough(p, q) ==
    LET f == CurrentFile(p)
    IN  /\ f \in present
        /\ IF job[p].call \in {"complete", "delete"}
           THEN Visited(p, q, job[p].got, job[p].listed \cup {<<f, mtime[f]>>})
           ELSE /\ Unmarked(lines[f]) = {}
                /\ Visited(p, q, job[p].got \cup Pairs(lines[f]),
                           job[p].listed \cup {<<f, mtime[f]>>})

ReadsNothing(p, q) ==
    /\ CurrentFile(p) \notin present /\ Visited(p, q, job[p].got, job[p].listed)

LEMMA ReadDoes ==
    ASSUME MarkdownTypeOK, JobsAreSound, NEW p \in Process, Read(p)
    PROVE  /\ job[p].step = "read" /\ CurrentFile(p) \in job[p].todo
           /\ JobBecomes(p, job'[p]) /\ JobIsSound(job'[p])
           /\ \/ job'[p] = Idle /\ job[p].call \notin {"list", "since"}
              \/ ReadsToWrite(p, job'[p])
              \/ ReadsThrough(p, job'[p])
              \/ ReadsNothing(p, job'[p])
<1> DEFINE f == CurrentFile(p)
<1> DEFINE body == BodyOf(f)
<1>1. PICK r \in MarkdownJob : r = job[p]
  BY DEF JobsAreSound
<1>2. /\ r.step = "read" /\ r.todo # {} /\ r.call # "none"
      /\ (r.call = "since" => r.todo \subseteq present)
      /\ (r.call \in {"complete", "delete"} => r.id # NoId)
      /\ (r.stat # {} => r.call = "since")
  BY <1>1 DEF JobsAreSound, JobIsSound, Read
<1>3. f \in r.todo /\ f \in File
  BY <1>1, <1>2, FirstIsThere DEF MarkdownJob, CurrentFile
<1>4. body \in Seq(Line) /\ lines[f] \in Seq(Line) /\ mtime[f] \in Nat
  BY <1>3 DEF MarkdownTypeOK, BodyOf
<1> DEFINE listed == r.listed \cup {<<f, mtime[f]>>}
<1>5. listed \in SUBSET FileStamps
  BY <1>3, <1>4 DEF FileStamps, MarkdownJob
<1> DEFINE read == [r EXCEPT !.listed = listed, !.body = body, !.step = "write"]
<1> DEFINE rewrite == \/ r.call = "add"
                      \/ r.call \in {"complete", "delete"} /\ \E i \in DOMAIN body : body[i].id = r.id
                      \/ r.call \notin {"complete", "delete"} /\ Unmarked(body) # {}
<1> DEFINE got == IF r.call \in {"complete", "delete"} THEN r.got ELSE r.got \cup Pairs(body)
<1>6. Set(p, IF rewrite THEN read
             ELSE IF f \notin present THEN AfterFile(r)
             ELSE AfterFile([read EXCEPT !.got = got]))
  BY <1>1 DEF Read, BodyOf
<1> HIDE DEF f, body, listed
<1>7. /\ read \in MarkdownJob /\ read.step = "write" /\ read.call = r.call /\ read.id = r.id
      /\ read.todo = r.todo /\ read.stat = r.stat /\ read.got = r.got
      /\ read.body = body /\ read.listed = listed
  BY <1>4, <1>5 DEF MarkdownJob, CallSteps
<1> HIDE DEF read
<1>8. CASE rewrite
  <2>1. JobBecomes(p, read) /\ job'[p] = read
    BY <1>6, <1>7, <1>8, SetBecomes DEF JobsAreSound, JobBecomes
  <2>2. JobIsSound(read)
    BY <1>2, <1>7, <1>8 DEF JobIsSound
  <2>3. ReadsToWrite(p, read)
    BY <1>1, <1>7 DEF ReadsToWrite, body, f, listed
  <2> QED BY <1>1, <1>2, <1>3, <2>1, <2>2, <2>3 DEF f
<1>9. CASE ~rewrite /\ f \notin present
  <2>1. Set(p, AfterFile(r))
    BY <1>6, <1>9
  <2>2. /\ JobBecomes(p, job'[p]) /\ JobIsSound(job'[p])
        /\ \/ Visited(p, job'[p], r.got, r.listed)
           \/ job'[p] = Idle /\ r.call \notin {"list", "since"}
    BY <1>1, <1>2, <2>1, FileIsVisited
  <2> QED BY <1>1, <1>2, <1>3, <1>9, <2>2 DEF f, ReadsNothing
<1>10. CASE ~rewrite /\ f \in present
  <2>1. body = lines[f] /\ (r.call \notin {"complete", "delete"} => Unmarked(lines[f]) = {})
    BY <1>10 DEF body, BodyOf
  <2>2. got \in SUBSET (Title \X (1..MaxIds))
    BY <1>4, <2>1, PairsAreTyped DEF MarkdownJob
  <2> DEFINE done == [read EXCEPT !.got = got]
  <2>3. Set(p, AfterFile(done))
    BY <1>6, <1>10
  <2> HIDE DEF rewrite
  <2> HIDE DEF got
  <2>4. /\ done \in MarkdownJob /\ done.call = r.call /\ done.id = r.id /\ done.stat = r.stat
        /\ done.todo = r.todo /\ done.got = got /\ done.listed = listed
    BY <1>7, <2>2 DEF MarkdownJob
  <2> HIDE DEF done
  <2>5. /\ JobBecomes(p, job'[p]) /\ JobIsSound(job'[p])
        /\ \/ Visited(p, job'[p], got, listed)
           \/ job'[p] = Idle /\ r.call \notin {"list", "since"}
    BY <1>1, <1>2, <2>3, <2>4, FileIsVisited
  <2>6. Visited(p, job'[p], got, listed) => ReadsThrough(p, job'[p])
    BY <1>1, <1>10, <2>1 DEF f, listed, ReadsThrough, got
  <2> QED BY <1>1, <1>2, <1>3, <2>5, <2>6 DEF f
<1> QED BY <1>8, <1>9, <1>10

\* A write of body to f.
WritesTo(f, body) ==
    /\ lines' \in [File -> Seq(Line)] /\ mtime' \in [File -> Nat] /\ clock' = clock + 1
    /\ lines'[f] = body /\ mtime'[f] = clock + 1
    /\ \A o \in File : o # f => lines'[o] = lines[o] /\ mtime'[o] = mtime[o]
    /\ present' = present \cup {f} /\ seen' = seen

LEMMA WriteDoes ==
    ASSUME MarkdownTypeOK, TimesArePast, NEW f \in File, NEW body \in Seq(Line), Write(f, body)
    PROVE  WritesTo(f, body)
BY DEF MarkdownTypeOK, TimesArePast, Write, WritesTo

\* What a call that is about to write is about.
LEMMA WriterKnows ==
    ASSUME JobsAreSound, NEW p \in Process, job[p].step = "write"
    PROVE  /\ CurrentFile(p) \in File /\ CurrentFile(p) \in job[p].todo
           /\ job[p].body \in Seq(Line) /\ job[p] \in MarkdownJob
           /\ (job[p].call = "since" => CurrentFile(p) \in present)
           /\ (job[p].call \in {"complete", "delete"} =>
                  /\ Target(p) \in DOMAIN job[p].body /\ job[p].id # NoId
                  /\ job[p].body[Target(p)].id = job[p].id)
<1>1. /\ job[p] \in MarkdownJob /\ job[p].todo # {} /\ job[p].todo \in SUBSET File
      /\ job[p].body \in Seq(Line)
  BY DEF JobsAreSound, JobIsSound, MarkdownJob
<1>2. CurrentFile(p) \in job[p].todo
  BY <1>1, FirstIsThere DEF CurrentFile
<1>3. CASE job[p].call \in {"complete", "delete"}
  <2>1. \E i \in DOMAIN job[p].body : job[p].body[i].id = job[p].id
    BY <1>3 DEF JobsAreSound, JobIsSound
  <2> QED BY <1>1, <1>2, <1>3, <2>1, TargetIsFound DEF JobsAreSound, JobIsSound
<1> QED BY <1>1, <1>2, <1>3 DEF JobsAreSound, JobIsSound

LEMMA InjectDoes ==
    ASSUME MarkdownTypeOK, JobsAreSound, TimesArePast, IdsAreGivenOnce,
           NEW p \in Process, InjectMarkers(p)
    PROVE  LET f == CurrentFile(p)
               new == injectMarker(job[p].body)
           IN  /\ job[p].step = "write" /\ WritesTo(f, new)
               /\ new \in Seq(Line) /\ nextId' \in 1..(MaxIds + 1) /\ nextId <= nextId'
               /\ DOMAIN new = DOMAIN job[p].body
               /\ \A i \in DOMAIN new :
                      /\ new[i].title = job[p].body[i].title
                      /\ new[i].done = job[p].body[i].done
                      /\ new[i].id # NoId /\ new[i].id < nextId'
                      /\ job[p].body[i].id # NoId => new[i].id = job[p].body[i].id
                      /\ job[p].body[i].id = NoId => new[i].id >= nextId
               /\ \A i, j \in DOMAIN new :
                      job[p].body[i].id = NoId /\ job[p].body[j].id = NoId
                          /\ new[i].id = new[j].id => i = j
               /\ Pairs(new) \subseteq Title \X (1..MaxIds)
               /\ JobBecomes(p, job'[p]) /\ JobIsSound(job'[p])
               /\ Visited(p, job'[p], job[p].got \cup Pairs(new),
                          {l \in job[p].listed : l[1] # f} \cup {<<f, clock + 1>>})
<1> USE MarkdownAssumption
<1> DEFINE f == CurrentFile(p)
<1> DEFINE new == injectMarker(job[p].body)
<1> DEFINE next == nextId + Cardinality(Unmarked(job[p].body))
<1>1. PICK r \in MarkdownJob : r = job[p]
  BY DEF JobsAreSound
<1>2. r.step = "write" /\ r.call \in {"list", "since"} /\ next <= MaxIds + 1 /\ nextId' = next
  BY <1>1 DEF InjectMarkers, Rewrite
<1>3. f \in File /\ r.body \in Seq(Line)
  BY <1>1, <1>2, WriterKnows
<1>4. /\ new \in Seq(Line) /\ DOMAIN new = DOMAIN r.body
      /\ Cardinality(Unmarked(r.body)) \in Nat
      /\ \A i \in DOMAIN new :
             /\ new[i].title = r.body[i].title /\ new[i].done = r.body[i].done
             /\ new[i].id # NoId /\ new[i].id < next
             /\ r.body[i].id # NoId => new[i].id = r.body[i].id
             /\ r.body[i].id = NoId => new[i].id >= nextId
      /\ \A i, j \in DOMAIN new :
             r.body[i].id = NoId /\ r.body[j].id = NoId /\ new[i].id = new[j].id => i = j
  <2>1. nextId \in 1..(MaxIds + 1) /\ \A i \in DOMAIN r.body : r.body[i].id < nextId
    BY <1>1 DEF MarkdownTypeOK, IdsAreGivenOnce
  <2>2. nextId + Cardinality(Unmarked(r.body)) <= MaxIds + 1
    BY <1>1, <1>2
  <2> QED BY <1>1, <1>3, <2>1, <2>2, MarkersAreFresh
<1>5. nextId' \in 1..(MaxIds + 1) /\ nextId <= nextId'
  BY <1>1, <1>2, <1>4 DEF MarkdownTypeOK
<1>6. WritesTo(f, new)
  BY <1>3, <1>4, WriteDoes DEF InjectMarkers, Rewrite
<1>7. Pairs(new) \in SUBSET (Title \X (1..MaxIds))
  <2>1. Unmarked(new) = {}
    BY <1>4 DEF Unmarked
  <2> QED BY <1>4, <2>1, PairsAreTyped
<1> DEFINE listed == {l \in r.listed : l[1] # f} \cup {<<f, clock + 1>>}
<1> DEFINE got == r.got \cup Pairs(new)
<1>8. listed \in SUBSET FileStamps /\ got \in SUBSET (Title \X (1..MaxIds))
  BY <1>3, <1>7 DEF FileStamps, MarkdownJob, TimesArePast
<1>9. Set(p, AfterFile([r EXCEPT !.listed = listed, !.got = got]))
  BY <1>1 DEF InjectMarkers
<1> HIDE DEF f, new, listed, got
<1> DEFINE q == [r EXCEPT !.listed = listed, !.got = got]
<1>10. /\ q \in MarkdownJob /\ q.call = r.call /\ q.id = r.id /\ q.stat = r.stat
       /\ q.todo = r.todo /\ q.got = got /\ q.listed = listed
  BY <1>8 DEF MarkdownJob
<1> HIDE DEF q
<1>11. /\ JobBecomes(p, job'[p]) /\ JobIsSound(job'[p]) /\ Visited(p, job'[p], got, listed)
  BY <1>1, <1>2, <1>9, <1>10, FileIsVisited DEF q
<1> QED BY <1>1, <1>2, <1>4, <1>5, <1>6, <1>7, <1>11 DEF f, new, listed, got

\* What the three calls that rewrite one line write.
RewrittenLine(p, body) ==
    LET old == job[p].body
    IN  \/ /\ job[p].call = "add" /\ nextId <= MaxIds /\ nextId' = nextId + 1
           /\ removed' = removed
           /\ \E t \in Title : /\ body = Append(old, [title |-> t, id |-> nextId, done |-> FALSE])
                              /\ handed' = handed \cup {<<t, nextId>>}
        \/ /\ job[p].call = "complete" /\ UNCHANGED <<nextId, handed, removed>>
           /\ body = [old EXCEPT ![Target(p)].done = TRUE]
        \/ /\ job[p].call = "delete" /\ UNCHANGED <<nextId, handed>>
           /\ removed' = removed \cup {job[p].id} /\ body = RemoveAt(old, Target(p))

\* The same of any two sequences, line by line.
LEMMA LinesAreAppended ==
    ASSUME NEW old \in Seq(Line), NEW l \in Line
    PROVE  LET body == Append(old, l)
           IN  /\ body \in Seq(Line) /\ DOMAIN body = DOMAIN old \cup {Len(old) + 1}
               /\ Len(old) + 1 \notin DOMAIN old
               /\ \A i \in DOMAIN old : body[i] = old[i]
               /\ body[Len(old) + 1] = l
OBVIOUS

LEMMA LineIsChecked ==
    ASSUME NEW old \in Seq(Line), NEW n \in DOMAIN old
    PROVE  LET body == [old EXCEPT ![n].done = TRUE]
           IN  /\ body \in Seq(Line) /\ DOMAIN body = DOMAIN old
               /\ \A i \in DOMAIN old : /\ body[i].title = old[i].title /\ body[i].id = old[i].id
                                        /\ old[i].done => body[i].done
<1> DEFINE body == [old EXCEPT ![n].done = TRUE]
<1>1. PICK l \in Line : l = old[n]
  OBVIOUS
<1>2. PICK checked \in BOOLEAN : checked = TRUE
  OBVIOUS
<1> DEFINE m == [l EXCEPT !.done = checked]
<1>3. m \in Line /\ m.title = l.title /\ m.id = l.id /\ m.done = checked
  BY DEF Line
<1>4. body = [old EXCEPT ![n] = m]
  BY <1>1, <1>2
<1> HIDE DEF m
<1>5. /\ body \in Seq(Line) /\ DOMAIN body = DOMAIN old
      /\ body[n] = m /\ \A i \in DOMAIN old : i # n => body[i] = old[i]
  <2>1. n \in 1..Len(old)
    OBVIOUS
  <2> HIDE DEF body
  <2> QED BY <1>3, <1>4, <2>1, ExceptSeq
<1> HIDE DEF body
<1> QED BY <1>1, <1>2, <1>3, <1>5 DEF body

LEMMA LineIsRemoved ==
    ASSUME NEW old \in Seq(Line), NEW n \in DOMAIN old
    PROVE  LET body == RemoveAt(old, n)
           IN  /\ body \in Seq(Line)
               /\ \A i \in DOMAIN body :
                      LET j == IF i < n THEN i ELSE i + 1
                      IN  j \in DOMAIN old /\ j # n /\ body[i] = old[j]
               /\ \A i \in DOMAIN old : i # n =>
                      LET j == IF i < n THEN i ELSE i - 1
                      IN  j \in DOMAIN body /\ body[j] = old[i]
<1> DEFINE body == RemoveAt(old, n)
<1> DEFINE front == SubSeq(old, 1, n - 1)
<1> DEFINE back == SubSeq(old, n + 1, Len(old))
<1>1. n \in 1..Len(old) /\ Len(old) \in Nat
  OBVIOUS
<1>2. /\ front \in Seq(Line) /\ Len(front) = n - 1
      /\ \A i \in 1..(n - 1) : front[i] = old[i]
  BY <1>1
<1>3. /\ back \in Seq(Line) /\ Len(back) = Len(old) - n
      /\ \A i \in 1..(Len(old) - n) : back[i] = old[n + i]
  BY <1>1
<1>4. body = front \o back
  BY DEF RemoveAt
<1> HIDE DEF front, back, body
<1>5. /\ body \in Seq(Line) /\ Len(body) = Len(old) - 1
      /\ \A i \in 1..(Len(old) - 1) : body[i] = IF i < n THEN front[i] ELSE back[i - (n - 1)]
  <2>1. /\ front \o back \in Seq(Line) /\ Len(front \o back) = Len(front) + Len(back)
        /\ \A i \in 1..(Len(front) + Len(back)) :
               (front \o back)[i] = IF i <= Len(front) THEN front[i] ELSE back[i - Len(front)]
    <3>1. front \in Seq(Line) /\ back \in Seq(Line)
      BY <1>2, <1>3
    <3> QED BY <3>1, ConcatProperties
  <2>2. Len(front) + Len(back) = Len(old) - 1
    BY <1>1, <1>2, <1>3
  <2>3. body \in Seq(Line) /\ Len(body) = Len(old) - 1
    BY <1>4, <2>1, <2>2
  <2>4. ASSUME NEW i \in 1..(Len(old) - 1)
        PROVE  body[i] = IF i < n THEN front[i] ELSE back[i - (n - 1)]
    <3>1. body[i] = IF i <= Len(front) THEN front[i] ELSE back[i - Len(front)]
      BY <1>4, <2>1, <2>2
    <3>2. i <= Len(front) <=> i < n
      BY <1>1, <1>2
    <3> QED BY <1>2, <3>1, <3>2
  <2> QED BY <2>3, <2>4
<1>6. \A i \in 1..(Len(old) - 1) : body[i] = IF i < n THEN old[i] ELSE old[i + 1]
  <2> SUFFICES ASSUME NEW i \in 1..(Len(old) - 1)
               PROVE  body[i] = IF i < n THEN old[i] ELSE old[i + 1]
    OBVIOUS
  <2>1. CASE i < n
    BY <1>1, <1>2, <1>5, <2>1
  <2>2. CASE ~(i < n)
    <3>1. i - (n - 1) \in 1..(Len(old) - n) /\ n + (i - (n - 1)) = i + 1
      BY <1>1, <2>2
    <3> QED BY <1>1, <1>3, <1>5, <2>2, <3>1
  <2> QED BY <2>1, <2>2
<1>7. DOMAIN body = 1..(Len(old) - 1) /\ DOMAIN old = 1..Len(old)
  BY <1>1, <1>5
<1>8. ASSUME NEW i \in DOMAIN body
      PROVE  LET j == IF i < n THEN i ELSE i + 1
             IN  j \in DOMAIN old /\ j # n /\ body[i] = old[j]
  BY <1>1, <1>6, <1>7
<1>9. ASSUME NEW i \in DOMAIN old, i # n
      PROVE  LET j == IF i < n THEN i ELSE i - 1
             IN  j \in DOMAIN body /\ body[j] = old[i]
  <2>1. CASE i < n
    BY <1>1, <1>6, <1>7, <2>1
  <2>2. CASE i > n
    <3>1. i - 1 \in DOMAIN body /\ ~(i - 1 < n) /\ (i - 1) + 1 = i
      BY <1>1, <1>7, <2>2
    <3> QED BY <1>6, <1>7, <2>2, <3>1
  <2> QED BY <1>1, <1>7, <1>9, <2>1, <2>2
<1> QED BY <1>5, <1>8, <1>9 DEF body

RewritesLine(p) == AppendTask(p) \/ Complete(p) \/ Delete(p)

LEMMA RewriteDoes ==
    ASSUME MarkdownTypeOK, JobsAreSound, TimesArePast, NEW p \in Process, RewritesLine(p)
    PROVE  /\ job[p].step = "write" /\ job[p].call \in {"add", "complete", "delete"}
           /\ JobBecomes(p, Idle) /\ UNCHANGED <<calls, edits, told, excused, calm>>
           /\ clashed' = (clashed \/ lines[CurrentFile(p)] # job[p].body)
           /\ nextId' \in 1..(MaxIds + 1)
           /\ \E body \in Seq(Line) : WritesTo(CurrentFile(p), body) /\ RewrittenLine(p, body)
<1> USE MarkdownAssumption
<1> DEFINE old == job[p].body
<1>1. job[p].step = "write" /\ job[p].call \in {"add", "complete", "delete"}
  BY DEF RewritesLine, AppendTask, Complete, Delete, Rewrite
<1>2. /\ CurrentFile(p) \in File /\ old \in Seq(Line)
      /\ (job[p].call \in {"complete", "delete"} => Target(p) \in DOMAIN old)
  BY <1>1, WriterKnows
<1>3. JobBecomes(p, Idle) /\ UNCHANGED <<calls, edits, told, excused, calm>>
      /\ clashed' = (clashed \/ lines[CurrentFile(p)] # old)
  BY IdleIsSound, SetBecomes
     DEF RewritesLine, AppendTask, Complete, Delete, Rewrite, JobsAreSound
<1>4. CASE AppendTask(p)
  <2>1. PICK t \in Title :
            /\ Rewrite(p, Append(old, [title |-> t, id |-> nextId, done |-> FALSE]))
            /\ job[p].call = "add" /\ nextId <= MaxIds /\ nextId' = nextId + 1
            /\ handed' = handed \cup {<<t, nextId>>} /\ removed' = removed
    BY <1>4 DEF AppendTask, Unused
  <2>2. [title |-> t, id |-> nextId, done |-> FALSE] \in Line /\ nextId' \in 1..(MaxIds + 1)
    BY <2>1 DEF MarkdownTypeOK, Line
  <2>3. Append(old, [title |-> t, id |-> nextId, done |-> FALSE]) \in Seq(Line)
    BY <1>2, <2>2
  <2>4. WritesTo(CurrentFile(p), Append(old, [title |-> t, id |-> nextId, done |-> FALSE]))
    BY <1>2, <2>1, <2>3, WriteDoes DEF Rewrite
  <2> QED BY <1>1, <1>3, <2>1, <2>2, <2>3, <2>4 DEF RewrittenLine
<1>5. CASE Complete(p)
  <2>1. /\ Rewrite(p, [old EXCEPT ![Target(p)].done = TRUE]) /\ job[p].call = "complete"
        /\ UNCHANGED <<nextId, handed, removed>>
    BY <1>5 DEF Complete
  <2>2. [old EXCEPT ![Target(p)].done = TRUE] \in Seq(Line)
    BY <1>2, <2>1, LineIsChecked
  <2>3. WritesTo(CurrentFile(p), [old EXCEPT ![Target(p)].done = TRUE])
    BY <1>2, <2>1, <2>2, WriteDoes DEF Rewrite
  <2> QED BY <1>1, <1>3, <2>1, <2>2, <2>3 DEF RewrittenLine, MarkdownTypeOK
<1>6. CASE Delete(p)
  <2>1. /\ Rewrite(p, RemoveAt(old, Target(p))) /\ job[p].call = "delete"
        /\ UNCHANGED <<nextId, handed>> /\ removed' = removed \cup {job[p].id}
    BY <1>6 DEF Delete
  <2>2. RemoveAt(old, Target(p)) \in Seq(Line)
    BY <1>2, <2>1, LineIsRemoved
  <2>3. WritesTo(CurrentFile(p), RemoveAt(old, Target(p)))
    BY <1>2, <2>1, <2>2, WriteDoes DEF Rewrite
  <2> QED BY <1>1, <1>3, <2>1, <2>2, <2>3 DEF RewrittenLine, MarkdownTypeOK
<1> QED BY <1>4, <1>5, <1>6 DEF RewritesLine

\* Setup, and the three things the user does.
UserWrites(f, body) ==
    /\ UNCHANGED <<calls, nextId, job, handed, told, clashed, excused>> /\ calm' = FALSE
    /\ edits' \in 0..MaxEdits /\ WritesTo(f, body)
    /\ \/ f \notin present /\ body = <<>> /\ removed' = removed /\ edits' = edits
       \/ /\ edits' # edits
          /\ removed' = removed \cup ({lines[f][i].id : i \in DOMAIN lines[f]}
                                      \ {body[i].id : i \in DOMAIN body})
          /\ \/ \E t \in Title : body = Append(lines[f], New(t))
             \/ \E i \in DOMAIN lines[f] : \/ body = [lines[f] EXCEPT ![i].done = TRUE]
                                           \/ body = RemoveAt(lines[f], i)

UserStep == Setup \/ \E f \in File : UserAdds(f) \/ UserChecks(f) \/ UserRemoves(f)

LEMMA UserDoes ==
    ASSUME MarkdownTypeOK, TimesArePast, UserStep
    PROVE  \E f \in File, body \in Seq(Line) : UserWrites(f, body)
<1> USE MarkdownAssumption
<1>1. \A f \in File : lines[f] \in Seq(Line)
  BY DEF MarkdownTypeOK
<1>2. \A t \in Title : New(t) \in Line
  BY DEF New, Line, NoId
<1>3. CASE Setup
  <2>1. PICK f \in File \ present :
            /\ Write(f, <<>>) /\ calm' = FALSE
            /\ UNCHANGED <<calls, nextId, edits, job, handed, removed, told, clashed, excused>>
    BY <1>3 DEF Setup
  <2>2. <<>> \in Seq(Line)
    OBVIOUS
  <2>3. WritesTo(f, <<>>)
    BY <2>1, <2>2, WriteDoes
  <2> QED BY <2>1, <2>2, <2>3 DEF UserWrites, MarkdownTypeOK
<1>4. ASSUME NEW f \in File, NEW body \in Seq(Line), Saves(f, body),
             \/ \E t \in Title : body = Append(lines[f], New(t))
             \/ \E i \in DOMAIN lines[f] : \/ body = [lines[f] EXCEPT ![i].done = TRUE]
                                           \/ body = RemoveAt(lines[f], i)
      PROVE  UserWrites(f, body)
  <2>1. WritesTo(f, body)
    BY <1>4, WriteDoes DEF Saves
  <2>2. edits' \in 0..MaxEdits /\ edits' # edits
    <3>1. edits \in 0..MaxEdits /\ edits < MaxEdits /\ edits' = edits + 1 /\ MaxEdits \in Nat
      BY <1>4, MarkdownAssumption DEF Saves, MarkdownTypeOK
    <3> QED BY <3>1
  <2> QED BY <1>4, <2>1, <2>2 DEF UserWrites, Saves
<1>5. ASSUME NEW f \in File, UserAdds(f)
      PROVE  \E body \in Seq(Line) : UserWrites(f, body)
  <2>1. PICK t \in Title : Saves(f, Append(lines[f], New(t)))
    BY <1>5 DEF UserAdds, Unused
  <2>2. Append(lines[f], New(t)) \in Seq(Line)
    BY <1>1, <1>2
  <2> QED BY <1>4, <2>1, <2>2
<1>6. ASSUME NEW f \in File, UserChecks(f)
      PROVE  \E body \in Seq(Line) : UserWrites(f, body)
  <2>1. PICK i \in DOMAIN lines[f] : Saves(f, [lines[f] EXCEPT ![i].done = TRUE])
    BY <1>6 DEF UserChecks
  <2>2. [lines[f] EXCEPT ![i].done = TRUE] \in Seq(Line)
    BY <1>1, LineIsChecked
  <2> QED BY <1>4, <2>1, <2>2
<1>7. ASSUME NEW f \in File, UserRemoves(f)
      PROVE  \E body \in Seq(Line) : UserWrites(f, body)
  <2>1. PICK i \in DOMAIN lines[f] : Saves(f, RemoveAt(lines[f], i))
    BY <1>7 DEF UserRemoves
  <2>2. RemoveAt(lines[f], i) \in Seq(Line)
    BY <1>1, LineIsRemoved
  <2> QED BY <1>4, <2>1, <2>2
<1> QED BY <1>3, <1>5, <1>6, <1>7 DEF UserStep

\* Since again, once its files are read.
LEMMA RestatDoes ==
    ASSUME MarkdownTypeOK, JobsAreSound, NEW p \in Process, Restat(p)
    PROVE  LET again(s) == IF s[1] \in present /\ s[1] \in Listed(job[p]) THEN mtime[s[1]]
                           ELSE s[2]
               q == job'[p]
           IN  /\ job[p].step = "restat" /\ job[p].call = "since" /\ job[p].todo = {}
               /\ JobBecomes(p, q) /\ JobIsSound(q) /\ q.step = "set" /\ q.call = "since"
               /\ q.stat = {<<s[1], again(s)>> : s \in job[p].stat}
               /\ q.listed = job[p].listed /\ q.got = job[p].got /\ q.body = job[p].body
               /\ q.todo = {}
<1> DEFINE again(s) == IF s[1] \in present /\ s[1] \in Listed(job[p]) THEN mtime[s[1]]
                       ELSE s[2]
<1>1. PICK r \in MarkdownJob : r = job[p]
  BY DEF JobsAreSound
<1>2. r.step = "restat" /\ r.call = "since" /\ r.todo = {}
  BY <1>1 DEF JobsAreSound, JobIsSound, Restat
<1> DEFINE stat == {<<s[1], again(s)>> : s \in r.stat}
<1>3. stat \in SUBSET FileStamps
  BY DEF MarkdownJob, FileStamps, MarkdownTypeOK
<1>4. Set(p, [r EXCEPT !.stat = stat, !.step = "set"])
  <2>1. \A f : f \in Listed(job[p]) <=> \E l \in job[p].listed : l[1] = f
    BY DEF Listed
  <2> DEFINE looked(s) == <<s[1], IF s[1] \in present /\ \E l \in r.listed : l[1] = s[1]
                                THEN mtime[s[1]] ELSE s[2]>>
  <2>2. Set(p, [r EXCEPT !.stat = {looked(s) : s \in r.stat}, !.step = "set"])
    BY <1>1 DEF Restat
  <2>3. \A s : looked(s) = <<s[1], again(s)>>
    BY <1>1, <2>1
  <2> HIDE DEF looked, again
  <2>4. {looked(s) : s \in r.stat} = {<<s[1], again(s)>> : s \in r.stat}
    BY <2>3
  <2> QED BY <2>2, <2>4
<1> HIDE DEF stat
<1> DEFINE q == [r EXCEPT !.stat = stat, !.step = "set"]
<1>5. /\ q \in MarkdownJob /\ q.step = "set" /\ q.call = "since" /\ q.stat = stat
      /\ q.listed = r.listed /\ q.got = r.got /\ q.body = r.body /\ q.todo = {}
  BY <1>2, <1>3 DEF MarkdownJob, CallSteps
<1>6. JobBecomes(p, q) /\ job'[p] = q
  BY <1>4, <1>5, SetBecomes DEF JobsAreSound, JobBecomes
<1> HIDE DEF q
<1>7. JobIsSound(q)
  BY <1>5 DEF JobIsSound
<1> QED BY <1>1, <1>2, <1>5, <1>6, <1>7 DEF stat

LEMMA SetCheckpointDoes ==
    ASSUME JobsAreSound, NEW p \in Process, SetCheckpoint(p)
    PROVE  /\ job[p].step = "set" /\ job[p].call = "since" /\ job[p].todo = {}
           /\ JobBecomes(p, job'[p]) /\ JobIsSound(job'[p])
           /\ job'[p].step = "set" /\ job'[p].call = "since" /\ job'[p].todo = {}
           /\ job'[p].listed = job[p].listed /\ job'[p].got = job[p].got
           /\ job'[p].body = job[p].body
           /\ \E s \in job[p].stat :
                  /\ seen' = [seen EXCEPT ![s[1]] = s[2]] /\ job'[p].stat = job[p].stat \ {s}
                  /\ excused' = excused \cup {l[1] : l \in {k \in job[p].listed :
                                                             k[1] = s[1] /\ k[2] # s[2]}}
<1>1. PICK r \in MarkdownJob : r = job[p]
  BY DEF JobsAreSound
<1>2. PICK s \in r.stat :
          /\ r.step = "set" /\ seen' = [seen EXCEPT ![s[1]] = s[2]]
          /\ Set(p, [r EXCEPT !.stat = r.stat \ {s}])
          /\ excused' = excused \cup {l[1] : l \in {k \in r.listed : k[1] = s[1] /\ k[2] # s[2]}}
  BY <1>1 DEF SetCheckpoint
<1>3. r.call = "since" /\ r.todo = {}
  BY <1>1, <1>2 DEF JobsAreSound, JobIsSound
<1> DEFINE q == [r EXCEPT !.stat = r.stat \ {s}]
<1>4. /\ q \in MarkdownJob /\ q.step = "set" /\ q.call = "since" /\ q.stat = r.stat \ {s}
      /\ q.listed = r.listed /\ q.got = r.got /\ q.body = r.body /\ q.todo = {}
  BY <1>2, <1>3 DEF MarkdownJob
<1>5. JobBecomes(p, q) /\ job'[p] = q
  BY <1>2, <1>4, SetBecomes DEF JobsAreSound, JobBecomes
<1> HIDE DEF q
<1>6. JobIsSound(q)
  BY <1>4 DEF JobIsSound
<1> QED BY <1>1, <1>2, <1>3, <1>4, <1>5, <1>6

LEMMA EndDoes ==
    ASSUME JobsAreSound, NEW p \in Process, Return(p) \/ Fails(p)
    PROVE  job[p].call # "none" /\ JobBecomes(p, Idle) /\ UNCHANGED <<fileVars, removed, clashed>>
<1>1. job[p].call # "none"
  BY DEF Return, Fails, JobsAreSound, JobIsSound
<1> QED BY <1>1, IdleIsSound, SetBecomes DEF Return, Fails, JobsAreSound

-----------------------------------------------------------------------------
\* The types, and the soundness of the calls

LEMMA OneJobStaysSound ==
    ASSUME JobsAreSound, present \subseteq present', NEW p \in Process, NEW q, JobBecomes(p, q),
           JobIsSound(q)
    PROVE  JobsAreSound'
<1> SUFFICES ASSUME NEW o \in Process
             PROVE  job' \in [Process -> MarkdownJob] /\ JobIsSound(job[o])'
  BY DEF JobsAreSound
<1>1. CASE o = p
  BY <1>1 DEF JobBecomes, JobIsSound
<1>2. CASE o # p
  BY <1>2 DEF JobBecomes, JobIsSound, JobsAreSound
<1> QED BY <1>1, <1>2

LEMMA TypesStay ==
    ASSUME MarkdownInv, [MarkdownNext]_markdownVars
    PROVE  MarkdownTypeOK' /\ JobsAreSound'
<1> USE DEF MarkdownInv
<1>1. (/\ present' \subseteq File /\ lines' \in [File -> Seq(Line)] /\ mtime' \in [File -> Nat]
       /\ seen' \in [File -> Nat] /\ nextId' \in 1..(MaxIds + 1) /\ edits' \in 0..MaxEdits
       /\ calls' \in 0..MaxCalls /\ excused' \subseteq File /\ clashed' \in BOOLEAN
       /\ calm' \in BOOLEAN /\ JobsAreSound')
           => MarkdownTypeOK' /\ JobsAreSound'
  BY DEF MarkdownTypeOK, JobsAreSound, MarkdownJob
<1>2. ASSUME NEW p \in Process, Begin(p)
      PROVE  MarkdownTypeOK' /\ JobsAreSound'
  <2>1. JobsAreSound'
    BY <1>2, BeginDoes, OneJobStaysSound DEF TimesArePast, IsFresh, Begin, fileVars
  <2>2. calls' \in 0..MaxCalls
    <3>1. MaxCalls \in Nat /\ calls \in 0..MaxCalls
      BY MarkdownAssumption DEF MarkdownTypeOK
    <3>2. calls < MaxCalls /\ calls' = calls + 1
      BY <1>2 DEF Begin
    <3> QED BY <3>1, <3>2
  <2> QED BY <1>1, <1>2, <2>1, <2>2 DEF Begin, MarkdownTypeOK, fileVars
<1>3. ASSUME NEW p \in Process, Stat(p) \/ Read(p) \/ Restat(p)
      PROVE  MarkdownTypeOK' /\ JobsAreSound'
  <2>1. JobBecomes(p, job'[p]) /\ JobIsSound(job'[p])
    BY <1>3, StatDoes, ReadDoes, RestatDoes DEF MarkdownTypeOK
  <2>2. UNCHANGED <<calls, fileVars, nextId, edits, ghostVars>>
    BY <1>3 DEF Stat, Read, Restat
  <2>3. JobsAreSound'
    BY <2>1, <2>2, OneJobStaysSound DEF fileVars
  <2> QED BY <1>1, <2>2, <2>3 DEF MarkdownTypeOK, fileVars, ghostVars
<1>4. ASSUME NEW p \in Process, InjectMarkers(p)
      PROVE  MarkdownTypeOK' /\ JobsAreSound'
  <2>1. /\ job[p].step = "write" /\ WritesTo(CurrentFile(p), injectMarker(job[p].body))
        /\ nextId' \in 1..(MaxIds + 1) /\ JobBecomes(p, job'[p]) /\ JobIsSound(job'[p])
    BY <1>4, InjectDoes
  <2>2. CurrentFile(p) \in File
    BY <2>1, WriterKnows
  <2>3. JobsAreSound'
    BY <2>1, OneJobStaysSound DEF WritesTo
  <2> QED BY <1>1, <1>4, <2>1, <2>2, <2>3
             DEF MarkdownTypeOK, InjectMarkers, Rewrite, WritesTo
<1>5. ASSUME NEW p \in Process, RewritesLine(p)
      PROVE  MarkdownTypeOK' /\ JobsAreSound'
  <2>1. /\ job[p].step = "write" /\ JobBecomes(p, Idle)
        /\ UNCHANGED <<calls, edits, told, excused, calm>> /\ nextId' \in 1..(MaxIds + 1)
        /\ clashed' = (clashed \/ lines[CurrentFile(p)] # job[p].body)
    BY <1>5, RewriteDoes
  <2>2. PICK body \in Seq(Line) : WritesTo(CurrentFile(p), body)
    BY <1>5, RewriteDoes
  <2>3. CurrentFile(p) \in File
    BY <2>1, WriterKnows
  <2>4. JobsAreSound'
    BY <2>1, <2>2, OneJobStaysSound, IdleIsSound DEF WritesTo
  <2> QED BY <1>1, <2>1, <2>2, <2>3, <2>4 DEF MarkdownTypeOK, WritesTo
<1>6. ASSUME NEW p \in Process, SetCheckpoint(p)
      PROVE  MarkdownTypeOK' /\ JobsAreSound'
  <2>1. UNCHANGED <<calls, present, lines, mtime, clock, nextId, edits, clashed, calm>>
    BY <1>6 DEF SetCheckpoint
  <2>2. JobsAreSound'
    BY <1>6, <2>1, SetCheckpointDoes, OneJobStaysSound
  <2>3. \A s \in job[p].stat \cup job[p].listed : s[1] \in File /\ s[2] \in Nat
    BY DEF JobsAreSound, MarkdownJob, FileStamps
  <2>4. seen' \in [File -> Nat] /\ excused' \subseteq File
    <3>1. PICK s \in job[p].stat :
              /\ seen' = [seen EXCEPT ![s[1]] = s[2]]
              /\ excused' = excused \cup {l[1] : l \in {k \in job[p].listed :
                                                         k[1] = s[1] /\ k[2] # s[2]}}
      BY <1>6, SetCheckpointDoes
    <3> QED BY <2>3, <3>1 DEF MarkdownTypeOK
  <2> QED BY <1>1, <2>1, <2>2, <2>4 DEF MarkdownTypeOK
<1>7. ASSUME NEW p \in Process, Return(p) \/ Fails(p)
      PROVE  MarkdownTypeOK' /\ JobsAreSound'
  <2>1. JobsAreSound'
    BY <1>7, EndDoes, IdleIsSound, OneJobStaysSound DEF fileVars
  <2>2. \A l \in job[p].listed : l[1] \in File
    BY DEF JobsAreSound, MarkdownJob, FileStamps
  <2>3. excused' \subseteq File /\ calm' \in BOOLEAN
    BY <1>7, <2>2 DEF Return, Fails, MarkdownTypeOK
  <2> QED BY <1>1, <1>7, <2>1, <2>3 DEF Return, Fails, MarkdownTypeOK, fileVars
<1>8. CASE UserStep
  <2>1. PICK f \in File, body \in Seq(Line) : UserWrites(f, body)
    BY <1>8, UserDoes
  <2>2. JobsAreSound'
    BY <2>1 DEF UserWrites, WritesTo, JobsAreSound, JobIsSound
  <2> QED BY <1>1, <2>1, <2>2 DEF UserWrites, WritesTo, MarkdownTypeOK
<1>9. CASE UNCHANGED markdownVars
  BY <1>9
     DEF markdownVars, fileVars, ghostVars, MarkdownTypeOK, JobsAreSound, JobIsSound
<1> QED BY <1>2, <1>3, <1>4, <1>5, <1>6, <1>7, <1>8, <1>9
           DEF MarkdownNext, RewritesLine, UserStep

-----------------------------------------------------------------------------
\* The times

\* One write, or none.
FilesMove ==
    \/ \E f \in File, body \in Seq(Line) : WritesTo(f, body)
    \/ UNCHANGED <<present, lines, mtime, clock>> /\ \A f \in File : seen'[f] <= clock

LEMMA TimesStayPast ==
    ASSUME MarkdownInv, FilesMove, handed' \subseteq Title \X (1..MaxIds),
           \A p \in Process : \A s \in job'[p].stat \cup job'[p].listed :
               s \in job[p].stat \cup job[p].listed \/ s[2] <= mtime'[s[1]],
           \A p \in Process : \A s, t \in job'[p].stat : s[1] = t[1] => s = t
    PROVE  TimesArePast'
<1> USE DEF MarkdownInv
<1>1. /\ clock \in Nat /\ mtime \in [File -> Nat]
      /\ \A p \in Process : \A s \in job[p].stat \cup job[p].listed :
             s[1] \in File /\ s[2] \in Nat /\ s[2] <= mtime[s[1]]
  BY DEF TimesArePast, MarkdownTypeOK, JobsAreSound, MarkdownJob, FileStamps
<1>2. CASE UNCHANGED <<present, lines, mtime, clock>> /\ \A f \in File : seen'[f] <= clock
  BY <1>1, <1>2 DEF TimesArePast
<1>3. ASSUME NEW f \in File, NEW body \in Seq(Line), WritesTo(f, body)
      PROVE  TimesArePast'
  <2>1. /\ \A o \in File : mtime[o] <= mtime'[o] /\ mtime'[o] <= clock' /\ seen'[o] <= clock'
        /\ clock' \in Nat
    <3>1. \A o \in File : mtime[o] \in Nat /\ mtime[o] <= clock /\ seen[o] <= clock /\ seen[o] \in Nat
      BY <1>1 DEF TimesArePast, MarkdownTypeOK
    <3>2. clock' = clock + 1 /\ seen' = seen /\ mtime'[f] = clock + 1
      BY <1>3 DEF WritesTo
    <3>3. ASSUME NEW o \in File
          PROVE  mtime[o] <= mtime'[o] /\ mtime'[o] <= clock' /\ seen'[o] <= clock'
      <4>1. CASE o = f
        BY <1>1, <3>1, <3>2, <4>1
      <4>2. CASE o # f
        <5>1. mtime'[o] = mtime[o]
          BY <1>3, <4>2 DEF WritesTo
        <5> QED BY <1>1, <3>1, <3>2, <5>1
      <4> QED BY <4>1, <4>2
    <3> QED BY <1>1, <3>2, <3>3
  <2>2. \A o \in File \ present' : lines'[o] = <<>>
    BY <1>3 DEF WritesTo, TimesArePast
  <2>3. ASSUME NEW p \in Process, NEW s \in job'[p].stat \cup job'[p].listed
        PROVE  s[2] <= mtime'[s[1]]
    <3>1. CASE s \in job[p].stat \cup job[p].listed
      BY <1>1, <1>3, <2>1, <3>1 DEF WritesTo
    <3> QED BY <3>1
  <2> QED BY <2>1, <2>2, <2>3 DEF TimesArePast
<1> QED BY <1>2, <1>3 DEF FilesMove

LEMMA TimesStay ==
    ASSUME MarkdownInv, [MarkdownNext]_markdownVars
    PROVE  TimesArePast'
<1> USE DEF MarkdownInv
<1>1. \A f \in File : seen[f] <= clock /\ mtime[f] <= clock
  BY DEF TimesArePast
<1>2. /\ \A p \in Process : \A s, t \in job[p].stat : s[1] = t[1] => s = t
      /\ handed \subseteq Title \X (1..MaxIds)
      /\ \A p \in Process : /\ \A s \in job[p].stat \cup job[p].listed : s[1] \in File
                            /\ job[p].got \subseteq Title \X (1..MaxIds)
      /\ mtime \in [File -> Nat] /\ present \subseteq File
  BY DEF TimesArePast, JobsAreSound, MarkdownJob, FileStamps, MarkdownTypeOK
<1>3. UNCHANGED fileVars => FilesMove
  BY <1>1 DEF FilesMove, fileVars
<1>4. ASSUME NEW p \in Process, NEW q, JobBecomes(p, q), FilesMove,
             handed' \subseteq Title \X (1..MaxIds),
             \A s \in q.stat \cup q.listed :
                 s \in job[p].stat \cup job[p].listed \/ s[2] <= mtime'[s[1]],
             \A s, t \in q.stat : s[1] = t[1] => s = t
      PROVE  TimesArePast'
  <2>1. \A o \in Process : (o = p /\ job'[o] = q) \/ job'[o] = job[o]
    BY <1>4 DEF JobBecomes
  <2> QED BY <1>2, <1>4, <2>1, TimesStayPast
<1>5. ASSUME NEW p \in Process, JobBecomes(p, Idle), FilesMove,
             handed' \subseteq Title \X (1..MaxIds)
      PROVE  TimesArePast'
  BY <1>4, <1>5 DEF Idle
<1>6. ASSUME NEW p \in Process, Begin(p)
      PROVE  TimesArePast'
  <2>1. JobBecomes(p, job'[p]) /\ job'[p].stat = {} /\ job'[p].listed = {} /\ UNCHANGED fileVars
        /\ handed' = handed
    BY <1>2, <1>6, BeginDoes DEF IsFresh, Begin
  <2> QED BY <1>2, <1>3, <1>4, <2>1
<1>7. ASSUME NEW p \in Process, Stat(p)
      PROVE  TimesArePast'
  <2>1. /\ JobBecomes(p, job'[p]) /\ job'[p].stat = {<<f, mtime[f]>> : f \in present}
        /\ job'[p].listed = {} /\ UNCHANGED fileVars /\ handed' = handed
    BY <1>2, <1>7, StatDoes DEF Stat, ghostVars
  <2>2. \A s \in job'[p].stat : s[2] <= mtime'[s[1]]
    BY <1>2, <2>1 DEF fileVars
  <2> QED BY <1>2, <1>3, <1>4, <2>1, <2>2
<1>8. ASSUME NEW p \in Process, Read(p)
      PROVE  TimesArePast'
  <2> DEFINE f == CurrentFile(p)
  <2>1. /\ JobBecomes(p, job'[p]) /\ UNCHANGED fileVars /\ handed' = handed /\ f \in File
        /\ \/ job'[p] = Idle /\ job[p].call \notin {"list", "since"}
           \/ ReadsToWrite(p, job'[p]) \/ ReadsThrough(p, job'[p]) \/ ReadsNothing(p, job'[p])
    BY <1>8, ReadDoes DEF Read, ghostVars, JobsAreSound, MarkdownJob
  <2>2. job'[p] # Idle => /\ job'[p].stat = job[p].stat
                          /\ job'[p].listed \subseteq job[p].listed \cup {<<f, mtime[f]>>}
    BY <2>1 DEF ReadsToWrite, ReadsThrough, ReadsNothing, Visited
  <2>3. mtime'[f] = mtime[f] /\ mtime[f] <= mtime[f]
    BY <1>2, <2>1 DEF fileVars
  <2>4. CASE job'[p] = Idle
    BY <1>2, <1>3, <1>5, <2>1, <2>4
  <2>5. CASE job'[p] # Idle
    BY <1>2, <1>3, <1>4, <2>1, <2>2, <2>3, <2>5
  <2> QED BY <2>4, <2>5
<1>9. ASSUME NEW p \in Process, InjectMarkers(p)
      PROVE  TimesArePast'
  <2> DEFINE f == CurrentFile(p)
  <2> DEFINE new == injectMarker(job[p].body)
  <2>1. /\ job[p].step = "write" /\ WritesTo(f, new) /\ new \in Seq(Line) /\ JobBecomes(p, job'[p])
        /\ job'[p].stat = job[p].stat
        /\ job'[p].listed \subseteq job[p].listed \cup {<<f, clock + 1>>}
        /\ handed' = handed
    BY <1>9, InjectDoes DEF Visited, InjectMarkers
  <2>2. f \in File /\ clock \in Nat
    BY <2>1, WriterKnows DEF TimesArePast
  <2> HIDE DEF f, new
  <2>3. FilesMove
    BY <2>1, <2>2 DEF FilesMove
  <2>4. mtime'[f] = clock + 1 /\ clock + 1 <= clock + 1
    BY <2>1, <2>2 DEF WritesTo
  <2> QED BY <1>2, <1>4, <2>1, <2>3, <2>4
<1>10. ASSUME NEW p \in Process, RewritesLine(p)
       PROVE  TimesArePast'
  <2>1. job[p].step = "write" /\ JobBecomes(p, Idle)
    BY <1>10, RewriteDoes
  <2>2. PICK body \in Seq(Line) : WritesTo(CurrentFile(p), body) /\ RewrittenLine(p, body)
    BY <1>10, RewriteDoes
  <2>3. FilesMove
    BY <2>1, <2>2, WriterKnows DEF FilesMove
  <2>4. handed' \subseteq Title \X (1..MaxIds)
    <3>1. MaxIds \in Nat /\ nextId \in Nat /\ 1 <= nextId
      BY MarkdownAssumption DEF MarkdownTypeOK
    <3>2. nextId <= MaxIds => nextId \in 1..MaxIds
      BY <3>1
    <3>3. \/ handed' = handed
          \/ nextId <= MaxIds /\ \E t \in Title : handed' = handed \cup {<<t, nextId>>}
      BY <2>2 DEF RewrittenLine
    <3> QED BY <1>2, <3>2, <3>3
  <2> QED BY <1>5, <2>1, <2>3, <2>4
<1>11. ASSUME NEW p \in Process, Restat(p)
       PROVE  TimesArePast'
  <2> DEFINE again(s) == IF s[1] \in present /\ s[1] \in Listed(job[p]) THEN mtime[s[1]] ELSE s[2]
  <2>1. /\ JobBecomes(p, job'[p]) /\ job'[p].stat = {<<s[1], again(s)>> : s \in job[p].stat}
        /\ job'[p].listed = job[p].listed /\ UNCHANGED fileVars /\ handed' = handed
    BY <1>11, RestatDoes DEF Restat, ghostVars
  <2>2. \A s \in job[p].stat : again(s) <= mtime[s[1]]
    <3>1. \A s \in job[p].stat : s[2] <= mtime[s[1]]
      BY DEF TimesArePast
    <3> QED BY <1>2, <3>1
  <2>3. \A s \in job'[p].stat : s[2] <= mtime'[s[1]]
    BY <2>1, <2>2 DEF fileVars
  <2>4. \A s, t \in job'[p].stat : s[1] = t[1] => s = t
    BY <1>2, <2>1
  <2> QED BY <1>3, <1>4, <2>1, <2>3, <2>4, <1>2
<1>12. ASSUME NEW p \in Process, SetCheckpoint(p)
       PROVE  TimesArePast'
  <2>1. PICK s \in job[p].stat : /\ seen' = [seen EXCEPT ![s[1]] = s[2]]
                                  /\ job'[p].stat = job[p].stat \ {s}
    BY <1>12, SetCheckpointDoes
  <2>2. /\ JobBecomes(p, job'[p]) /\ job'[p].listed = job[p].listed
        /\ UNCHANGED <<present, lines, mtime, clock, handed>>
    BY <1>12, SetCheckpointDoes DEF SetCheckpoint
  <2>3. s[2] \in Nat /\ s[1] \in File /\ s[2] <= mtime[s[1]] /\ clock \in Nat /\ seen \in [File -> Nat]
    BY <1>2 DEF TimesArePast, JobsAreSound, MarkdownJob, FileStamps, MarkdownTypeOK
  <2>4. \A f \in File : seen'[f] <= clock
    BY <1>1, <1>2, <2>1, <2>3
  <2> QED BY <1>2, <1>4, <2>1, <2>2, <2>4 DEF FilesMove
<1>13. ASSUME NEW p \in Process, Return(p) \/ Fails(p)
       PROVE  TimesArePast'
  <2>1. JobBecomes(p, Idle) /\ UNCHANGED fileVars /\ handed' \subseteq Title \X (1..MaxIds)
    BY <1>2, <1>13, EndDoes DEF Return, Fails
  <2> QED BY <1>3, <1>5, <2>1
<1>14. CASE UserStep
  <2>1. PICK f \in File, body \in Seq(Line) : UserWrites(f, body)
    BY <1>14, UserDoes
  <2>2. FilesMove /\ UNCHANGED <<job, handed>>
    BY <2>1 DEF UserWrites, FilesMove
  <2> QED BY <1>2, <2>2, TimesStayPast
<1>15. CASE UNCHANGED markdownVars
  <2>1. UNCHANGED <<fileVars, job, handed>>
    BY <1>15 DEF markdownVars, ghostVars
  <2> QED BY <1>2, <1>3, <2>1, TimesStayPast
<1> QED BY <1>6, <1>7, <1>8, <1>9, <1>10, <1>11, <1>12, <1>13, <1>14, <1>15
        DEF MarkdownNext, RewritesLine, UserStep

-----------------------------------------------------------------------------
\* The ids

HasOwnIds(body) == \A i, j \in DOMAIN body : body[i].id = body[j].id /\ body[i].id # NoId => i = j

IdsAreBelow(body, n) == \A i \in DOMAIN body : body[i].id < n

LEMMA IdsAreNumbers ==
    ASSUME NEW body \in Seq(Line)
    PROVE  \A i \in DOMAIN body : body[i].id \in Nat
<1>1. \A i \in DOMAIN body : body[i] \in Line
  OBVIOUS
<1>2. \A l \in Line : l.id \in Nat
  BY DEF Line
<1> QED BY <1>1, <1>2

\* What a rewrite and an edit do to the ids of the lines.
LEMMA AppendedIds ==
    ASSUME NEW old \in Seq(Line), NEW l \in Line, NEW n \in Nat, NEW m \in Nat, n <= m, l.id < m,
           IdsAreBelow(old, n), l.id = NoId \/ l.id >= n
    PROVE  /\ IdsAreBelow(Append(old, l), m)
           /\ HasOwnIds(old) => HasOwnIds(Append(old, l))
<1> DEFINE body == Append(old, l)
<1>1. /\ DOMAIN body = DOMAIN old \cup {Len(old) + 1}
      /\ \A i \in DOMAIN old : body[i] = old[i]
      /\ body[Len(old) + 1] = l
  BY LinesAreAppended
<1>2. \A i \in DOMAIN old : old[i].id \in Nat /\ old[i].id < n
  BY IdsAreNumbers DEF IdsAreBelow
<1>3. l.id \in Nat
  BY DEF Line
<1> HIDE DEF body
<1>4. \A i \in DOMAIN old : old[i].id # NoId => old[i].id # l.id
  BY <1>2, <1>3
<1>5. IdsAreBelow(body, m)
  BY <1>1, <1>2 DEF IdsAreBelow
<1>6. ASSUME HasOwnIds(old) PROVE HasOwnIds(body)
  <2> SUFFICES ASSUME NEW i \in DOMAIN body, NEW j \in DOMAIN body, body[i].id = body[j].id,
                      body[i].id # NoId
               PROVE  i = j
    BY DEF HasOwnIds
  <2>1. CASE i \in DOMAIN old /\ j \in DOMAIN old
    BY <1>1, <1>6, <2>1 DEF HasOwnIds
  <2>2. CASE i \in DOMAIN old /\ j = Len(old) + 1
    BY <1>1, <1>4, <2>2
  <2>3. CASE j \in DOMAIN old /\ i = Len(old) + 1
    BY <1>1, <1>4, <2>3
  <2> QED BY <1>1, <2>1, <2>2, <2>3
<1> QED BY <1>5, <1>6 DEF body

LEMMA CheckedIds ==
    ASSUME NEW old \in Seq(Line), NEW i \in DOMAIN old, NEW n \in Nat, IdsAreBelow(old, n)
    PROVE  LET body == [old EXCEPT ![i].done = TRUE]
           IN  IdsAreBelow(body, n) /\ (HasOwnIds(old) => HasOwnIds(body))
BY LineIsChecked DEF IdsAreBelow, HasOwnIds

LEMMA RemovedIds ==
    ASSUME NEW old \in Seq(Line), NEW k \in DOMAIN old, NEW n \in Nat, IdsAreBelow(old, n)
    PROVE  /\ IdsAreBelow(RemoveAt(old, k), n)
           /\ HasOwnIds(old) => HasOwnIds(RemoveAt(old, k))
<1> DEFINE body == RemoveAt(old, k)
<1> DEFINE At(i) == IF i < k THEN i ELSE i + 1
<1>1. /\ body \in Seq(Line)
      /\ \A i \in DOMAIN body : At(i) \in DOMAIN old /\ body[i] = old[At(i)]
  BY LineIsRemoved
<1>2. \A i, j \in DOMAIN body : At(i) = At(j) => i = j
  <2>1. \A i, j \in Nat : At(i) = At(j) => i = j
    OBVIOUS
  <2>2. DOMAIN body \subseteq Nat
    BY <1>1
  <2> QED BY <2>1, <2>2
<1> HIDE DEF body, At
<1>3. IdsAreBelow(body, n)
  BY <1>1 DEF IdsAreBelow
<1>4. HasOwnIds(old) => HasOwnIds(body)
  BY <1>1, <1>2 DEF HasOwnIds
<1> QED BY <1>3, <1>4 DEF body

LEMMA IdsStayGiven ==
    ASSUME MarkdownInv,
           \/ UNCHANGED <<lines, nextId, clashed>>
           \/ \E f \in File, body \in Seq(Line) :
                  /\ WritesTo(f, body) /\ nextId' \in Nat /\ nextId <= nextId'
                  /\ IdsAreBelow(body, nextId')
                  /\ ~clashed' => ~clashed /\ (HasOwnIds(lines[f]) => HasOwnIds(body)),
           \A p \in Process : \/ job'[p].body = <<>> \/ job'[p].body = job[p].body
                             \/ \E f \in File : job'[p].body = lines[f]
    PROVE  IdsAreGivenOnce'
<1> USE DEF MarkdownInv
<1>1. /\ \A f \in File : IdsAreBelow(lines[f], nextId) /\ lines[f] \in Seq(Line)
      /\ \A p \in Process : IdsAreBelow(job[p].body, nextId) /\ job[p].body \in Seq(Line)
      /\ ~clashed => \A f \in File : HasOwnIds(lines[f])
      /\ nextId \in Nat
  BY DEF IdsAreGivenOnce, IdsAreBelow, HasOwnIds, MarkdownTypeOK
<1>2. nextId' \in Nat /\ nextId <= nextId'
  BY <1>1
<1>3. \A body \in Seq(Line) : IdsAreBelow(body, nextId) => IdsAreBelow(body, nextId')
  <2> SUFFICES ASSUME NEW body \in Seq(Line), IdsAreBelow(body, nextId)
               PROVE  IdsAreBelow(body, nextId')
    OBVIOUS
  <2>1. \A i \in DOMAIN body : body[i].id \in Nat
    BY IdsAreNumbers
  <2> QED BY <1>1, <1>2, <2>1 DEF IdsAreBelow
<1>4. \A p \in Process : IdsAreBelow(job'[p].body, nextId')
  <2>1. IdsAreBelow(<<>>, nextId')
    BY DEF IdsAreBelow
  <2> QED BY <1>1, <1>3, <2>1
<1>5. \A f \in File : IdsAreBelow(lines'[f], nextId')
  BY <1>1, <1>3 DEF WritesTo
<1>6. ~clashed' => \A f \in File : HasOwnIds(lines'[f])
  BY <1>1 DEF WritesTo
<1>7. /\ \A f \in File : \A i \in DOMAIN lines'[f] : lines'[f][i].id < nextId'
      /\ \A p \in Process : \A i \in DOMAIN job'[p].body : job'[p].body[i].id < nextId'
      /\ ~clashed' => \A f \in File : \A i, j \in DOMAIN lines'[f] :
             lines'[f][i].id = lines'[f][j].id /\ lines'[f][i].id # NoId => i = j
  BY <1>4, <1>5, <1>6 DEF IdsAreBelow, HasOwnIds
<1> QED BY <1>7 DEF IdsAreGivenOnce

LEMMA IdsStay ==
    ASSUME MarkdownInv, [MarkdownNext]_markdownVars
    PROVE  IdsAreGivenOnce'
<1> USE DEF MarkdownInv
<1>1. /\ \A f \in File : lines[f] \in Seq(Line) /\ IdsAreBelow(lines[f], nextId)
      /\ \A p \in Process : IdsAreBelow(job[p].body, nextId)
      /\ nextId \in Nat /\ 1 <= nextId /\ MaxIds \in Nat /\ nextId <= MaxIds + 1
      /\ clashed \in BOOLEAN
  BY MarkdownAssumption DEF IdsAreGivenOnce, IdsAreBelow, MarkdownTypeOK
<1>2. ASSUME NEW p \in Process, NEW q, JobBecomes(p, q), UNCHANGED <<lines, nextId, clashed>>,
             q.body = <<>> \/ q.body = job[p].body \/ \E f \in File : q.body = lines[f]
      PROVE  IdsAreGivenOnce'
  <2>1. \A o \in Process : (o = p /\ job'[o] = q) \/ job'[o] = job[o]
    BY <1>2 DEF JobBecomes
  <2> QED BY <1>2, <2>1, IdsStayGiven
<1>3. ASSUME NEW p \in Process, Begin(p)
      PROVE  IdsAreGivenOnce'
  <2>1. JobBecomes(p, job'[p]) /\ job'[p].body = <<>> /\ UNCHANGED <<lines, nextId, clashed>>
    BY <1>3, BeginDoes DEF IsFresh, Begin, TimesArePast, fileVars
  <2> QED BY <1>2, <2>1
<1>4. ASSUME NEW p \in Process, Stat(p)
      PROVE  IdsAreGivenOnce'
  <2>1. /\ JobBecomes(p, job'[p]) /\ job'[p].body = job[p].body
        /\ UNCHANGED <<lines, nextId, clashed>>
    BY <1>4, StatDoes DEF Stat, ghostVars, fileVars, MarkdownTypeOK
  <2> QED BY <1>2, <2>1
<1>5. ASSUME NEW p \in Process, Read(p)
      PROVE  IdsAreGivenOnce'
  <2>1. /\ JobBecomes(p, job'[p]) /\ UNCHANGED <<lines, nextId, clashed>> /\ CurrentFile(p) \in File
        /\ \/ job'[p] = Idle
           \/ ReadsToWrite(p, job'[p]) \/ ReadsThrough(p, job'[p]) \/ ReadsNothing(p, job'[p])
    BY <1>5, ReadDoes DEF Read, ghostVars, fileVars, JobsAreSound, MarkdownJob
  <2>2. job'[p].body = <<>> \/ job'[p].body = lines[CurrentFile(p)]
    BY <2>1 DEF ReadsToWrite, ReadsThrough, ReadsNothing, Visited, BodyOf, Idle
  <2> QED BY <1>2, <2>1, <2>2
<1>6. ASSUME NEW p \in Process, InjectMarkers(p)
      PROVE  IdsAreGivenOnce'
  <2> DEFINE f == CurrentFile(p)
  <2> DEFINE old == job[p].body
  <2> DEFINE new == injectMarker(old)
  <2>1. /\ job[p].step = "write" /\ WritesTo(f, new) /\ new \in Seq(Line)
        /\ nextId' \in Nat /\ nextId <= nextId' /\ DOMAIN new = DOMAIN old
        /\ JobBecomes(p, job'[p]) /\ job'[p].body = <<>>
    BY <1>6, InjectDoes DEF Visited
  <2>2. \A i \in DOMAIN new :
           /\ new[i].id # NoId /\ new[i].id < nextId'
           /\ old[i].id # NoId => new[i].id = old[i].id
           /\ old[i].id = NoId => new[i].id >= nextId
    BY <1>6, InjectDoes
  <2>3. \A i, j \in DOMAIN new :
           old[i].id = NoId /\ old[j].id = NoId /\ new[i].id = new[j].id => i = j
    BY <1>6, InjectDoes
  <2>4. old \in Seq(Line) /\ f \in File
    BY <2>1, WriterKnows
  <2>5. \A i \in DOMAIN old : old[i].id \in Nat /\ new[i].id \in Nat /\ old[i].id < nextId
    BY <1>1, <2>1, <2>4, IdsAreNumbers DEF IdsAreBelow
  <2>6. clashed' = (clashed \/ lines[f] # old)
    BY <1>6 DEF InjectMarkers, Rewrite
  <2> HIDE DEF new, old, f
  <2>7. IdsAreBelow(new, nextId')
    BY <2>2 DEF IdsAreBelow
  <2>8. HasOwnIds(old) => HasOwnIds(new)
    <3> SUFFICES ASSUME HasOwnIds(old), NEW i \in DOMAIN new, NEW j \in DOMAIN new,
                        new[i].id = new[j].id
                 PROVE  i = j
      BY DEF HasOwnIds
    <3>1. CASE old[i].id = NoId /\ old[j].id = NoId
      BY <2>3, <3>1
    <3>2. CASE old[i].id # NoId /\ old[j].id # NoId
      BY <2>1, <2>2, <3>2 DEF HasOwnIds
    <3>3. CASE old[i].id = NoId /\ old[j].id # NoId
      <4>1. new[i].id >= nextId /\ new[j].id < nextId
        BY <2>1, <2>2, <2>5, <3>3
      <4> QED BY <1>1, <2>1, <2>5, <4>1
    <3>4. CASE old[i].id # NoId /\ old[j].id = NoId
      <4>1. new[j].id >= nextId /\ new[i].id < nextId
        BY <2>1, <2>2, <2>5, <3>4
      <4> QED BY <1>1, <2>1, <2>5, <4>1
    <3> QED BY <3>1, <3>2, <3>3, <3>4
  <2>9. ~clashed' => ~clashed /\ (HasOwnIds(lines[f]) => HasOwnIds(new))
    BY <2>6, <2>8
  <2>10. \A o \in Process : job'[o].body = <<>> \/ job'[o].body = job[o].body
    BY <2>1 DEF JobBecomes
  <2> QED BY <2>1, <2>4, <2>7, <2>9, <2>10, IdsStayGiven
<1>7. ASSUME NEW p \in Process, RewritesLine(p)
      PROVE  IdsAreGivenOnce'
  <2> DEFINE f == CurrentFile(p)
  <2> DEFINE old == job[p].body
  <2>1. /\ job[p].step = "write" /\ JobBecomes(p, Idle) /\ nextId' \in Nat
        /\ clashed' = (clashed \/ lines[f] # old)
        /\ job[p].call \in {"add", "complete", "delete"}
    BY <1>7, RewriteDoes
  <2>2. PICK body \in Seq(Line) : WritesTo(f, body) /\ RewrittenLine(p, body)
    BY <1>7, RewriteDoes
  <2>3. /\ old \in Seq(Line) /\ f \in File /\ IdsAreBelow(old, nextId)
        /\ job[p].call \in {"complete", "delete"} => Target(p) \in DOMAIN old
    BY <1>1, <2>1, WriterKnows
  <2>4. IdsAreBelow(body, nextId') /\ nextId <= nextId' /\ (HasOwnIds(old) => HasOwnIds(body))
    <3>1. CASE job[p].call = "add"
      <4>1. PICK t \in Title : body = Append(old, [title |-> t, id |-> nextId, done |-> FALSE])
        BY <2>2, <3>1 DEF RewrittenLine
      <4>2. nextId <= MaxIds /\ nextId' = nextId + 1
        BY <2>2, <3>1 DEF RewrittenLine
      <4> DEFINE l == [title |-> t, id |-> nextId, done |-> FALSE]
      <4>3. l \in Line /\ l.id = nextId
        BY <1>1, <4>2 DEF Line
      <4> HIDE DEF l
      <4>4. nextId <= nextId' /\ nextId >= nextId /\ nextId < nextId'
        BY <1>1, <4>2
      <4> HIDE DEF old
      <4> QED BY <1>1, <2>1, <2>3, <4>1, <4>3, <4>4, AppendedIds DEF l
    <3>2. CASE job[p].call = "complete"
      <4>1. body = [old EXCEPT ![Target(p)].done = TRUE] /\ nextId' = nextId
        BY <2>2, <3>2 DEF RewrittenLine
      <4> HIDE DEF old
      <4>2. PICK k \in DOMAIN old : k = Target(p)
        BY <2>3, <3>2
      <4>3. body = [old EXCEPT ![k].done = TRUE]
        BY <4>1, <4>2
      <4>4. IdsAreBelow(body, nextId) /\ (HasOwnIds(old) => HasOwnIds(body))
        BY <1>1, <2>3, <4>3, CheckedIds
      <4> QED BY <1>1, <4>1, <4>4
    <3>3. CASE job[p].call = "delete"
      <4>1. body = RemoveAt(old, Target(p)) /\ nextId' = nextId
        BY <2>2, <3>3 DEF RewrittenLine
      <4> HIDE DEF old
      <4> QED BY <1>1, <2>3, <3>3, <4>1, RemovedIds
    <3> QED BY <2>1, <3>1, <3>2, <3>3
  <2>5. ~clashed' => ~clashed /\ (HasOwnIds(lines[f]) => HasOwnIds(body))
    BY <2>1, <2>4
  <2>6. \A o \in Process : job'[o].body = <<>> \/ job'[o].body = job[o].body
    BY <2>1 DEF JobBecomes, Idle
  <2> HIDE DEF f, old
  <2> QED BY <2>1, <2>2, <2>3, <2>4, <2>5, <2>6, IdsStayGiven
<1>8. ASSUME NEW p \in Process, Restat(p) \/ SetCheckpoint(p)
      PROVE  IdsAreGivenOnce'
  <2>1. /\ JobBecomes(p, job'[p]) /\ job'[p].body = job[p].body
        /\ UNCHANGED <<lines, nextId, clashed>>
    BY <1>8, RestatDoes, SetCheckpointDoes
       DEF Restat, SetCheckpoint, ghostVars, fileVars
  <2> QED BY <1>2, <2>1
<1>9. ASSUME NEW p \in Process, Return(p) \/ Fails(p)
      PROVE  IdsAreGivenOnce'
  <2>1. JobBecomes(p, Idle) /\ UNCHANGED <<lines, nextId, clashed>> /\ Idle.body = <<>>
    BY <1>9, EndDoes DEF Return, Fails, fileVars, Idle
  <2> QED BY <1>2, <2>1
<1>10. CASE UserStep
  <2>1. PICK f \in File, body \in Seq(Line) : UserWrites(f, body)
    BY <1>10, UserDoes
  <2>2. WritesTo(f, body) /\ UNCHANGED <<nextId, job, clashed>>
    BY <2>1 DEF UserWrites
  <2>3. IdsAreBelow(body, nextId) /\ (HasOwnIds(lines[f]) => HasOwnIds(body))
    <3>1. CASE body = <<>>
      BY <3>1 DEF IdsAreBelow, HasOwnIds
    <3>2. ASSUME NEW t \in Title, body = Append(lines[f], New(t))
          PROVE  IdsAreBelow(body, nextId) /\ (HasOwnIds(lines[f]) => HasOwnIds(body))
      <4>1. New(t) \in Line /\ New(t).id = NoId /\ New(t).id < nextId /\ nextId <= nextId
        BY <1>1 DEF New, Line, NoId
      <4> QED BY <1>1, <3>2, <4>1, AppendedIds
    <3>3. ASSUME NEW i \in DOMAIN lines[f],
                 body = [lines[f] EXCEPT ![i].done = TRUE] \/ body = RemoveAt(lines[f], i)
          PROVE  IdsAreBelow(body, nextId) /\ (HasOwnIds(lines[f]) => HasOwnIds(body))
      BY <1>1, <3>3, CheckedIds, RemovedIds
    <3> QED BY <2>1, <3>1, <3>2, <3>3 DEF UserWrites
  <2> QED BY <1>1, <2>2, <2>3, IdsStayGiven
<1>11. CASE UNCHANGED markdownVars
  <2>1. UNCHANGED <<lines, nextId, clashed, job>>
    BY <1>11 DEF markdownVars, ghostVars, fileVars
  <2> QED BY <2>1, IdsStayGiven
<1> QED BY <1>3, <1>4, <1>5, <1>6, <1>7, <1>8, <1>9, <1>10, <1>11
        DEF MarkdownNext, RewritesLine, UserStep

-----------------------------------------------------------------------------
\* What callers were given

\* A step takes a pair out of a file only when its id is in removed.
PairsSurvive ==
    \A f \in File : \A h \in Pairs(lines[f]) :
        h[2] # NoId => h[2] \in removed' \/ h \in Pairs(lines'[f])

LEMMA PairsStayThere ==
    ASSUME MarkdownInv, removed \subseteq removed', clashed => clashed',
           ~clashed' => PairsSurvive,
           \A h \in handed' : \/ h \in handed \/ \E p \in Process : h \in job[p].got
                             \/ \E f \in File : h \in Pairs(lines'[f]),
           \A p \in Process : \A h \in job'[p].got :
               \/ h \in job[p].got
               \/ \E f \in File : h \in Pairs(lines'[f])
    PROVE  PairsAreThere'
<1> USE DEF MarkdownInv
<1>1. SUFFICES ASSUME ~clashed' PROVE PairsAreThere'
  BY DEF PairsAreThere
<1>2. \A h \in handed : h[2] # NoId
  BY DEF TimesArePast, NoId
<1>3. \A p \in Process : \A h \in job[p].got : h[2] # NoId
  BY DEF JobsAreSound, MarkdownJob, NoId
<1>4. ASSUME NEW h, PairIsKept(h), h[2] # NoId
      PROVE  h[2] \in removed' \/ \E f \in File : h \in Pairs(lines'[f])
  BY <1>1, <1>4 DEF PairsSurvive, PairIsKept
<1>5. /\ \A h \in handed : PairIsKept(h)
      /\ \A p \in Process : \A h \in job[p].got : PairIsKept(h)
  BY <1>1 DEF PairsAreThere
<1>6. \A h \in handed' : h[2] \in removed' \/ \E f \in File : h \in Pairs(lines'[f])
  BY <1>2, <1>3, <1>4, <1>5
<1>7. \A p \in Process : \A h \in job'[p].got :
          h[2] \in removed' \/ \E f \in File : h \in Pairs(lines'[f])
  BY <1>3, <1>4, <1>5
<1>8. \A f \in File : \A h : h \in Pairs(lines[f])' <=> h \in Pairs(lines'[f])
  BY DEF Pairs
<1> QED BY <1>6, <1>7, <1>8 DEF PairsAreThere, PairIsKept

\* Every pair of old but those of id gone is one of body.
KeepsPairs(old, body, gone) ==
    \A h \in Pairs(old) : h[2] # NoId => h[2] \in gone \/ h \in Pairs(body)

LEMMA AppendedPairs ==
    ASSUME NEW old \in Seq(Line), NEW l \in Line
    PROVE  /\ KeepsPairs(old, Append(old, l), {})
           /\ <<l.title, l.id>> \in Pairs(Append(old, l))
<1> DEFINE body == Append(old, l)
<1>1. /\ DOMAIN body = DOMAIN old \cup {Len(old) + 1}
      /\ \A i \in DOMAIN old : body[i] = old[i]
      /\ body[Len(old) + 1] = l
  BY LinesAreAppended
<1> HIDE DEF body
<1>2. KeepsPairs(old, body, {}) /\ <<l.title, l.id>> \in Pairs(body)
  BY <1>1 DEF KeepsPairs, Pairs
<1> QED BY <1>2 DEF body

LEMMA CheckedPairs ==
    ASSUME NEW old \in Seq(Line), NEW n \in DOMAIN old
    PROVE  KeepsPairs(old, [old EXCEPT ![n].done = TRUE], {})
<1> DEFINE body == [old EXCEPT ![n].done = TRUE]
<1>1. /\ DOMAIN body = DOMAIN old
      /\ \A i \in DOMAIN old : body[i].title = old[i].title /\ body[i].id = old[i].id
  BY LineIsChecked
<1> HIDE DEF body
<1>2. KeepsPairs(old, body, {})
  BY <1>1 DEF KeepsPairs, Pairs
<1> QED BY <1>2 DEF body

LEMMA OthersRemain ==
    ASSUME NEW old \in Seq(Line), NEW n \in DOMAIN old
    PROVE  \A i \in DOMAIN old : i # n =>
               \E j \in DOMAIN RemoveAt(old, n) : RemoveAt(old, n)[j] = old[i]
<1> DEFINE body == RemoveAt(old, n)
<1>1. \A i \in DOMAIN old : i # n => \E j \in DOMAIN body : body[j] = old[i]
  BY LineIsRemoved
<1> QED BY <1>1

IdsOf(body) == {body[i].id : i \in DOMAIN body}

LEMMA RemovedPairs ==
    ASSUME NEW old \in Seq(Line), NEW n \in DOMAIN old
    PROVE  /\ KeepsPairs(old, RemoveAt(old, n), {old[n].id})
           /\ HasOwnIds(old) =>
                  KeepsPairs(old, RemoveAt(old, n), IdsOf(old) \ IdsOf(RemoveAt(old, n)))
<1> DEFINE body == RemoveAt(old, n)
<1>1. \A i \in DOMAIN old : i # n => \E j \in DOMAIN body : body[j] = old[i]
  BY LineIsRemoved
<1>2. \A j \in DOMAIN body : \E i \in DOMAIN old : i # n /\ body[j] = old[i]
  <2> DEFINE At(j) == IF j < n THEN j ELSE j + 1
  <2>1. \A j \in DOMAIN body : At(j) \in DOMAIN old /\ At(j) # n /\ body[j] = old[At(j)]
    BY LineIsRemoved
  <2> HIDE DEF At, body
  <2> QED BY <2>1
<1> HIDE DEF body
<1>3. KeepsPairs(old, body, {old[n].id})
  BY <1>1 DEF KeepsPairs, Pairs
<1>4. ASSUME HasOwnIds(old) PROVE KeepsPairs(old, body, IdsOf(old) \ IdsOf(body))
  <2>1. old[n].id # NoId => old[n].id \in IdsOf(old) \ IdsOf(body)
    BY <1>2, <1>4 DEF IdsOf, HasOwnIds
  <2> QED BY <1>1, <2>1 DEF KeepsPairs, Pairs
<1> QED BY <1>3, <1>4 DEF body

\* Putting one body for another into a file.
LEMMA WriteKeepsPairs ==
    ASSUME NEW f \in File, NEW body, WritesTo(f, body), NEW gone, KeepsPairs(lines[f], body, gone),
           removed' = removed \cup gone
    PROVE  PairsSurvive
<1> SUFFICES ASSUME NEW o \in File, NEW h \in Pairs(lines[o]), h[2] # NoId
             PROVE  h[2] \in removed' \/ h \in Pairs(lines'[o])
  BY DEF PairsSurvive
<1>1. CASE o = f
  BY <1>1 DEF WritesTo, KeepsPairs
<1>2. CASE o # f
  BY <1>2 DEF WritesTo
<1> QED BY <1>1, <1>2

LEMMA PairsStay ==
    ASSUME MarkdownInv, [MarkdownNext]_markdownVars
    PROVE  PairsAreThere'
<1> USE DEF MarkdownInv
<1>1. /\ \A f \in File : lines[f] \in Seq(Line)
      /\ ~clashed => \A f \in File : HasOwnIds(lines[f])
  BY DEF MarkdownTypeOK, IdsAreGivenOnce, HasOwnIds
<1>2. UNCHANGED lines /\ removed' = removed => PairsSurvive
  BY DEF PairsSurvive
<1>3. ASSUME NEW p \in Process, NEW q, JobBecomes(p, q), UNCHANGED <<lines, removed, clashed>>,
             handed' \subseteq handed \cup job[p].got,
             \A h \in q.got : h \in job[p].got \/ \E f \in File : h \in Pairs(lines[f])
      PROVE  PairsAreThere'
  <2>1. \A o \in Process : \A h \in job'[o].got :
            h \in job[o].got \/ \E f \in File : h \in Pairs(lines'[f])
    BY <1>3 DEF JobBecomes
  <2>2. \A h \in handed' : h \in handed \/ \E o \in Process : h \in job[o].got
    BY <1>3
  <2>3. removed \subseteq removed' /\ (clashed => clashed') /\ PairsSurvive
    BY <1>2, <1>3
  <2> QED BY <2>1, <2>2, <2>3, PairsStayThere
<1>4. ASSUME NEW p \in Process, Begin(p)
      PROVE  PairsAreThere'
  <2>1. JobBecomes(p, job'[p]) /\ job'[p].got = {} /\ UNCHANGED <<lines, removed, clashed, handed>>
    BY <1>4, BeginDoes DEF IsFresh, Begin, TimesArePast, fileVars
  <2> QED BY <1>3, <2>1
<1>5. ASSUME NEW p \in Process, Stat(p) \/ Restat(p) \/ SetCheckpoint(p)
      PROVE  PairsAreThere'
  <2>1. /\ JobBecomes(p, job'[p]) /\ job'[p].got \subseteq job[p].got
        /\ UNCHANGED <<lines, removed, clashed, handed>>
    BY <1>5, StatDoes, RestatDoes, SetCheckpointDoes
       DEF Stat, Restat, SetCheckpoint, ghostVars, fileVars, MarkdownTypeOK
  <2> QED BY <1>3, <2>1
<1>6. ASSUME NEW p \in Process, Read(p)
      PROVE  PairsAreThere'
  <2> DEFINE f == CurrentFile(p)
  <2>1. /\ JobBecomes(p, job'[p]) /\ UNCHANGED <<lines, removed, clashed, handed>> /\ f \in File
        /\ \/ job'[p] = Idle
           \/ ReadsToWrite(p, job'[p]) \/ ReadsThrough(p, job'[p]) \/ ReadsNothing(p, job'[p])
    BY <1>6, ReadDoes DEF Read, ghostVars, fileVars, JobsAreSound, MarkdownJob
  <2>2. job'[p].got \subseteq job[p].got \cup Pairs(lines[f])
    BY <2>1 DEF ReadsToWrite, ReadsThrough, ReadsNothing, Visited, Idle
  <2> HIDE DEF f
  <2> QED BY <1>3, <2>1, <2>2
<1>7. ASSUME NEW p \in Process, InjectMarkers(p)
      PROVE  PairsAreThere'
  <2> DEFINE f == CurrentFile(p)
  <2> DEFINE old == job[p].body
  <2> DEFINE new == injectMarker(old)
  <2>1. /\ job[p].step = "write" /\ WritesTo(f, new) /\ DOMAIN new = DOMAIN old
        /\ JobBecomes(p, job'[p]) /\ job'[p].got = job[p].got \cup Pairs(new)
    BY <1>7, InjectDoes DEF Visited
  <2>2. \A i \in DOMAIN new : /\ new[i].title = old[i].title
                              /\ old[i].id # NoId => new[i].id = old[i].id
    BY <1>7, InjectDoes
  <2>3. clashed' = (clashed \/ lines[f] # old) /\ UNCHANGED <<removed, handed>>
    BY <1>7 DEF InjectMarkers, Rewrite
  <2>4. f \in File
    BY <2>1, WriterKnows
  <2> HIDE DEF new, old, f
  <2>5. KeepsPairs(old, new, {})
    BY <2>1, <2>2 DEF KeepsPairs, Pairs
  <2>6. ~clashed' => PairsSurvive
    <3>1. ~clashed' => KeepsPairs(lines[f], new, {})
      BY <2>3, <2>5
    <3>2. removed' = removed \cup {}
      BY <2>3
    <3> QED BY <2>1, <2>4, <3>1, <3>2, WriteKeepsPairs
  <2>7. \A o \in Process : \A h \in job'[o].got :
            h \in job[o].got \/ \E g \in File : h \in Pairs(lines'[g])
    <3>1. lines'[f] = new
      BY <2>1 DEF WritesTo
    <3> QED BY <2>1, <2>4, <3>1 DEF JobBecomes
  <2> QED BY <2>3, <2>6, <2>7, PairsStayThere
<1>8. ASSUME NEW p \in Process, RewritesLine(p)
      PROVE  PairsAreThere'
  <2> DEFINE f == CurrentFile(p)
  <2> DEFINE old == job[p].body
  <2>1. /\ job[p].step = "write" /\ JobBecomes(p, Idle)
        /\ clashed' = (clashed \/ lines[f] # old)
        /\ job[p].call \in {"add", "complete", "delete"}
    BY <1>8, RewriteDoes
  <2>2. PICK body \in Seq(Line) : WritesTo(f, body) /\ RewrittenLine(p, body)
    BY <1>8, RewriteDoes
  <2>3. /\ old \in Seq(Line) /\ f \in File
        /\ job[p].call \in {"complete", "delete"} =>
               Target(p) \in DOMAIN old /\ old[Target(p)].id = job[p].id
    BY <2>1, WriterKnows
  <2>4. lines'[f] = body
    BY <2>2 DEF WritesTo
  <2> DEFINE gone == IF job[p].call = "delete" THEN {job[p].id} ELSE {}
  <2>5. /\ KeepsPairs(old, body, gone) /\ removed' = removed \cup gone
        /\ \A h \in handed' : h \in handed \/ h \in Pairs(body)
    <3>1. CASE job[p].call = "add"
      <4>1. PICK t \in Title :
                /\ body = Append(old, [title |-> t, id |-> nextId, done |-> FALSE])
                /\ handed' = handed \cup {<<t, nextId>>} /\ nextId <= MaxIds /\ removed' = removed
        BY <2>2, <3>1 DEF RewrittenLine
      <4> DEFINE l == [title |-> t, id |-> nextId, done |-> FALSE]
      <4>2. l \in Line /\ <<l.title, l.id>> = <<t, nextId>>
        BY <4>1 DEF MarkdownTypeOK, Line
      <4> HIDE DEF l, old
      <4>3. KeepsPairs(old, body, {}) /\ <<l.title, l.id>> \in Pairs(body)
        BY <2>3, <4>1, <4>2, AppendedPairs DEF l
      <4> QED BY <3>1, <4>1, <4>2, <4>3
    <3>2. CASE job[p].call = "complete"
      <4>1. body = [old EXCEPT ![Target(p)].done = TRUE] /\ UNCHANGED <<handed, removed>>
        BY <2>2, <3>2 DEF RewrittenLine
      <4> HIDE DEF old
      <4>2. PICK k \in DOMAIN old : k = Target(p)
        BY <2>3, <3>2
      <4>3. body = [old EXCEPT ![k].done = TRUE]
        BY <4>1, <4>2
      <4>4. KeepsPairs(old, body, {})
        BY <2>3, <4>3, CheckedPairs
      <4> QED BY <3>2, <4>1, <4>4
    <3>3. CASE job[p].call = "delete"
      <4>1. /\ body = RemoveAt(old, Target(p)) /\ UNCHANGED handed
            /\ removed' = removed \cup {job[p].id}
        BY <2>2, <3>3 DEF RewrittenLine
      <4> HIDE DEF old
      <4>2. PICK k \in DOMAIN old : k = Target(p) /\ old[k].id = job[p].id
        BY <2>3, <3>3
      <4>3. KeepsPairs(old, body, {job[p].id})
        BY <2>3, <4>1, <4>2, RemovedPairs
      <4> QED BY <3>3, <4>1, <4>3
    <3> QED BY <2>1, <3>1, <3>2, <3>3
  <2> HIDE DEF f, old, gone
  <2>6. ~clashed' => PairsSurvive
    <3>1. ~clashed' => KeepsPairs(lines[f], body, gone)
      BY <2>1, <2>5
    <3> QED BY <2>2, <2>3, <2>5, <3>1, WriteKeepsPairs
  <2>7. \A o \in Process : \A h \in job'[o].got : h \in job[o].got
    BY <2>1 DEF JobBecomes, Idle
  <2>8. \A h \in handed' : h \in handed \/ \E g \in File : h \in Pairs(lines'[g])
    BY <2>3, <2>4, <2>5
  <2> QED BY <2>1, <2>5, <2>6, <2>7, <2>8, PairsStayThere
<1>9. ASSUME NEW p \in Process, Return(p) \/ Fails(p)
      PROVE  PairsAreThere'
  <2>1. JobBecomes(p, Idle) /\ UNCHANGED <<lines, removed, clashed>> /\ Idle.got = {}
    BY <1>9, EndDoes DEF fileVars, Idle
  <2>2. handed' \subseteq handed \cup job[p].got
    BY <1>9 DEF Return, Fails
  <2> QED BY <1>3, <2>1, <2>2
<1>10. CASE UserStep
  <2>1. PICK f \in File, body \in Seq(Line) : UserWrites(f, body)
    BY <1>10, UserDoes
  <2>2. WritesTo(f, body) /\ UNCHANGED <<job, clashed, handed>>
    BY <2>1 DEF UserWrites
  <2>3. removed \subseteq removed'
    BY <2>1 DEF UserWrites
  <2>4. ASSUME ~clashed PROVE PairsSurvive
    <3>1. HasOwnIds(lines[f]) /\ lines[f] \in Seq(Line)
      BY <1>1, <2>4
    <3> DEFINE gone == IdsOf(lines[f]) \ IdsOf(body)
    <3>2. CASE edits' = edits
      <4>1. removed' = removed \cup {} /\ lines[f] = <<>>
        BY <2>1, <3>2 DEF UserWrites, TimesArePast
      <4>2. KeepsPairs(lines[f], body, {})
        BY <4>1 DEF KeepsPairs, Pairs
      <4> QED BY <2>2, <4>1, <4>2, WriteKeepsPairs
    <3>3. CASE edits' # edits
      <4>1. removed' = removed \cup gone
        BY <2>1, <3>3 DEF UserWrites, IdsOf
      <4>2. KeepsPairs(lines[f], body, gone)
        <5> HIDE DEF gone
        <5>1. \A g : KeepsPairs(lines[f], body, {}) => KeepsPairs(lines[f], body, g)
          BY DEF KeepsPairs
        <5>2. ASSUME NEW t \in Title, body = Append(lines[f], New(t))
              PROVE  KeepsPairs(lines[f], body, gone)
          <6>1. New(t) \in Line
            BY MarkdownAssumption DEF New, Line, NoId
          <6> QED BY <3>1, <5>1, <5>2, <6>1, AppendedPairs
        <5>3. ASSUME NEW i \in DOMAIN lines[f], body = [lines[f] EXCEPT ![i].done = TRUE]
              PROVE  KeepsPairs(lines[f], body, gone)
          BY <3>1, <5>1, <5>3, CheckedPairs
        <5>4. ASSUME NEW i \in DOMAIN lines[f], body = RemoveAt(lines[f], i)
              PROVE  KeepsPairs(lines[f], body, gone)
          BY <3>1, <5>4, RemovedPairs DEF gone
        <5> QED BY <2>1, <3>3, <5>2, <5>3, <5>4 DEF UserWrites
      <4> HIDE DEF gone
      <4> QED BY <2>2, <4>1, <4>2, WriteKeepsPairs
    <3> QED BY <2>1, <3>2, <3>3 DEF UserWrites
  <2> QED BY <2>2, <2>3, <2>4, PairsStayThere
<1>11. CASE UNCHANGED markdownVars
  <2>1. UNCHANGED <<lines, removed, clashed, handed, job>>
    BY <1>11 DEF markdownVars, ghostVars, fileVars
  <2> QED BY <1>2, <2>1, PairsStayThere
<1> QED BY <1>4, <1>5, <1>6, <1>7, <1>8, <1>9, <1>10, <1>11
        DEF MarkdownNext, RewritesLine, UserStep

-----------------------------------------------------------------------------
\* What Since reports

LEMMA TellingGoesOn ==
    ASSUME NEW f, lines'[f] = lines[f], told \subseteq told', excused \subseteq excused',
           \A p \in Process : Reporting(p, f) =>
               \/ f \in excused' \/ Reported(job[p]) \subseteq told'
               \/ Reporting(p, f)' /\ Reported(job[p]) \subseteq Reported(job'[p]),
           IsTold(f)
    PROVE  IsTold(f)'
<1> SUFFICES ASSUME f \notin excused', NEW t \in Titles(lines[f]) \ told'
             PROVE  \E p \in Process : Reporting(p, f)' /\ t \in Reported(job'[p])
  BY DEF IsTold, Titles, Reported
<1>1. PICK p \in Process : Reporting(p, f) /\ t \in Reported(job[p])
  BY DEF IsTold
<1> QED BY <1>1

\* Only a call at its checkpoints is reporting.
LEMMA SameReporting ==
    ASSUME NEW p \in Process, NEW f, job'[p] = job[p]
    PROVE  (Reporting(p, f) => Reporting(p, f)') /\ Reported(job[p]) \subseteq Reported(job'[p])
BY DEF Reporting, Reported, Listed, Stated

LEMMA QuietStep ==
    ASSUME MarkdownInv, NEW p \in Process, NEW q, JobBecomes(p, q), job[p].step # "set",
           UNCHANGED <<present, lines, mtime, seen, told, excused>>,
           PassedFilesAreTold(q), ListedFilesAreReported(q)
    PROVE  EditsAreTold'
<1> USE DEF MarkdownInv
<1>1. ASSUME NEW f, IsTold(f) PROVE IsTold(f)'
  <2>1. \A o \in Process : Reporting(o, f) => o # p
    BY DEF Reporting
  <2>2. \A o \in Process : Reporting(o, f) =>
            Reporting(o, f)' /\ Reported(job[o]) \subseteq Reported(job'[o])
    BY <2>1, SameReporting DEF JobBecomes
  <2> QED BY <1>1, <2>2, TellingGoesOn
<1>2. OldFilesAreTold'
  BY <1>1 DEF EditsAreTold, OldFilesAreTold
<1>3. ASSUME NEW o \in Process, NEW r, job'[o] = r, PassedFilesAreTold(r), ListedFilesAreReported(r)
      PROVE  PassedFilesAreTold(job[o])' /\ ListedFilesAreReported(job[o])'
  <2>1. PassedFilesAreTold(job[o])'
    BY <1>1, <1>3 DEF PassedFilesAreTold, Listed
  <2>2. ListedFilesAreReported(job[o])'
    BY <1>3 DEF ListedFilesAreReported, Reported, Titles
  <2> QED BY <2>1, <2>2
<1>4. \A o \in Process : PassedFilesAreTold(job[o])' /\ ListedFilesAreReported(job[o])'
  BY <1>3 DEF EditsAreTold, JobBecomes
<1> QED BY <1>2, <1>4 DEF EditsAreTold

LEMMA WriteStep ==
    ASSUME MarkdownInv, NEW f \in File, NEW body \in Seq(Line), WritesTo(f, body),
           UNCHANGED <<told, excused>>,
           \A o \in Process :
               \/ job'[o] = job[o]
               \/ /\ job[o].step # "set"
                  /\ \A s \in job'[o].stat :
                         /\ s[1] \in File
                         /\ s[1] # f /\ s[1] \notin job'[o].todo \cup Listed(job'[o])
                                /\ mtime[s[1]] = s[2] => IsTold(s[1])
                         /\ s[1] = f => mtime'[f] # s[2]
                  /\ job'[o].call = "since" => \A l \in job'[o].listed :
                         mtime'[l[1]] = l[2] => Titles(lines'[l[1]]) \subseteq Reported(job'[o])
    PROVE  EditsAreTold'
<1> USE DEF MarkdownInv
<1>1. ASSUME NEW o \in File, o # f, IsTold(o) PROVE IsTold(o)'
  <2>1. \A p \in Process : Reporting(p, o) => job'[p] = job[p]
    BY DEF Reporting
  <2>2. lines'[o] = lines[o]
    BY <1>1 DEF WritesTo
  <2> QED BY <1>1, <2>1, <2>2, SameReporting, TellingGoesOn
<1>2. /\ \A o \in File : mtime[o] \in Nat /\ seen[o] \in Nat /\ mtime[o] <= clock /\ seen[o] <= clock
      /\ clock \in Nat /\ present \subseteq File
      /\ \A p \in Process : \A s \in job[p].stat \cup job[p].listed :
             s[1] \in File /\ s[2] \in Nat /\ s[2] <= mtime[s[1]]
  BY DEF MarkdownTypeOK, TimesArePast, JobsAreSound, MarkdownJob, FileStamps
<1>3. /\ mtime'[f] = clock + 1 /\ seen' = seen /\ present' = present \cup {f}
      /\ \A o \in File : o # f => mtime'[o] = mtime[o] /\ lines'[o] = lines[o]
  BY DEF WritesTo
<1>4. OldFilesAreTold'
  <2> SUFFICES ASSUME NEW o \in present' PROVE mtime'[o] > seen'[o] \/ IsTold(o)'
    BY DEF OldFilesAreTold
  <2>1. CASE o = f
    BY <1>2, <1>3, <2>1
  <2>2. CASE o # f
    BY <1>1, <1>2, <1>3, <2>2 DEF EditsAreTold, OldFilesAreTold
  <2> QED BY <2>1, <2>2
<1>5. ASSUME NEW p \in Process, NEW s \in job[p].stat \cup job[p].listed, s[1] = f
      PROVE  mtime'[f] # s[2]
  BY <1>2, <1>3, <1>5
<1>6. ASSUME NEW p \in Process
      PROVE  PassedFilesAreTold(job[p])' /\ ListedFilesAreReported(job[p])'
  <2>1. CASE job'[p] = job[p]
    <3>1. PassedFilesAreTold(job[p])'
      <4> SUFFICES ASSUME NEW s \in job[p].stat, s[1] \notin job[p].todo \cup Listed(job[p]),
                          mtime'[s[1]] = s[2]
                   PROVE  IsTold(s[1])'
        BY <2>1 DEF PassedFilesAreTold, Listed
      <4>1. s[1] # f /\ s[1] \in File
        BY <1>2, <1>5
      <4>2. IsTold(s[1])
        BY <1>3, <4>1 DEF EditsAreTold, PassedFilesAreTold
      <4> QED BY <1>1, <4>1, <4>2
    <3>2. PICK r : r = job[p]
      OBVIOUS
    <3>3. ASSUME r.call = "since", NEW l \in r.listed, r.step = "write" => l[1] # FirstOf(r.todo),
                 mtime'[l[1]] = l[2]
          PROVE  Titles(lines'[l[1]]) \subseteq Reported(r)
      <4>1. l[1] # f /\ l[1] \in File
        BY <1>2, <1>5, <3>2, <3>3
      <4> QED BY <1>3, <3>2, <3>3, <4>1 DEF EditsAreTold, ListedFilesAreReported
    <3>4. ListedFilesAreReported(job[p])'
      <4>1. \A l \in r.listed :
               r.call = "since" /\ (r.step = "write" => l[1] # FirstOf(r.todo)) /\ mtime'[l[1]] = l[2]
                   => Titles(lines'[l[1]]) \subseteq Reported(r)
        BY <3>3
      <4> QED BY <2>1, <3>2, <4>1 DEF ListedFilesAreReported
    <3> QED BY <3>1, <3>4
  <2>2. CASE job'[p] # job[p]
    <3>1. PassedFilesAreTold(job[p])'
      <4> SUFFICES ASSUME NEW s \in job'[p].stat, s[1] \notin job'[p].todo \cup Listed(job'[p]),
                          mtime'[s[1]] = s[2]
                   PROVE  IsTold(s[1])'
        BY DEF PassedFilesAreTold, Listed
      <4>1. s[1] \in File /\ s[1] # f
        BY <2>2
      <4>2. IsTold(s[1])
        BY <1>3, <2>2, <4>1
      <4> QED BY <1>1, <4>1, <4>2
    <3>2. ListedFilesAreReported(job[p])'
      BY <2>2 DEF ListedFilesAreReported, Titles, Reported
    <3> QED BY <3>1, <3>2
  <2> QED BY <2>1, <2>2
<1> QED BY <1>4, <1>6 DEF EditsAreTold

LEMMA TitlesOfPairs ==
    ASSUME NEW body
    PROVE  Titles(body) = {h[1] : h \in Pairs(body)}
<1>1. ASSUME NEW t \in Titles(body) PROVE \E h \in Pairs(body) : t = h[1]
  <2>1. PICK i \in DOMAIN body : t = body[i].title
    BY DEF Titles
  <2>2. <<body[i].title, body[i].id>> \in Pairs(body)
    BY DEF Pairs
  <2> QED BY <2>1, <2>2
<1>2. ASSUME NEW h \in Pairs(body) PROVE h[1] \in Titles(body)
  <2>1. PICK i \in DOMAIN body : h = <<body[i].title, body[i].id>>
    BY DEF Pairs
  <2> QED BY <2>1 DEF Titles
<1> QED BY <1>1, <1>2

\* A Since sets a file's checkpoint, or a call is over.
LEMMA LateStep ==
    ASSUME MarkdownInv, NEW p \in Process, NEW q, JobBecomes(p, q),
           UNCHANGED <<present, lines, mtime>>, told \subseteq told', excused \subseteq excused',
           \A f : Reporting(p, f) =>
               \/ f \in excused' \/ Reported(job[p]) \subseteq told'
               \/ Reporting(p, f)' /\ Reported(job[p]) \subseteq Reported(job'[p]),
           \A f \in present : seen'[f] = seen[f] \/ mtime[f] > seen'[f] \/ IsTold(f)',
           q.stat \subseteq job[p].stat, PassedFilesAreTold(q), ListedFilesAreReported(q)
    PROVE  EditsAreTold'
<1> USE DEF MarkdownInv
<1>1. ASSUME NEW f, IsTold(f) PROVE IsTold(f)'
  <2>1. \A o \in Process : Reporting(o, f) =>
            \/ f \in excused' \/ Reported(job[o]) \subseteq told'
            \/ Reporting(o, f)' /\ Reported(job[o]) \subseteq Reported(job'[o])
    BY SameReporting DEF JobBecomes
  <2> QED BY <1>1, <2>1, TellingGoesOn
<1>2. OldFilesAreTold'
  BY <1>1 DEF EditsAreTold, OldFilesAreTold
<1>3. ASSUME NEW o \in Process, NEW r, job'[o] = r, PassedFilesAreTold(r), ListedFilesAreReported(r)
      PROVE  PassedFilesAreTold(job[o])' /\ ListedFilesAreReported(job[o])'
  <2>1. PassedFilesAreTold(job[o])'
    BY <1>1, <1>3 DEF PassedFilesAreTold, Listed
  <2>2. ListedFilesAreReported(job[o])'
    BY <1>3 DEF ListedFilesAreReported, Reported, Titles
  <2> QED BY <2>1, <2>2
<1>4. \A o \in Process : PassedFilesAreTold(job[o])' /\ ListedFilesAreReported(job[o])'
  BY <1>3 DEF EditsAreTold, JobBecomes
<1> QED BY <1>2, <1>4 DEF EditsAreTold

LEMMA NothingListed == PassedFilesAreTold(Idle) /\ ListedFilesAreReported(Idle)
BY DEF PassedFilesAreTold, ListedFilesAreReported, Idle

LEMMA EditsStay ==
    ASSUME MarkdownInv, [MarkdownNext]_markdownVars
    PROVE  EditsAreTold'
<1> USE DEF MarkdownInv
<1>1. /\ \A p \in Process : /\ PassedFilesAreTold(job[p]) /\ ListedFilesAreReported(job[p])
                            /\ job[p] \in MarkdownJob
                            /\ job[p].call # "since" => job[p].stat = {}
      /\ \A p \in Process : \A s \in job[p].stat \cup job[p].listed : s[1] \in File
      /\ mtime \in [File -> Nat] /\ seen \in [File -> Nat] /\ present \subseteq File
  BY DEF EditsAreTold, JobsAreSound, JobIsSound, MarkdownTypeOK, MarkdownJob, FileStamps
<1>2. ASSUME NEW p \in Process, Begin(p)
      PROVE  EditsAreTold'
  <2>1. /\ JobBecomes(p, job'[p]) /\ job'[p].stat = {} /\ job'[p].listed = {} /\ job[p] = Idle
        /\ UNCHANGED <<present, lines, mtime, seen, told, excused>>
    BY <1>2, BeginDoes DEF IsFresh, Begin, TimesArePast, fileVars
  <2>2. job[p].step # "set"
    BY <2>1 DEF Idle
  <2>3. PassedFilesAreTold(job'[p]) /\ ListedFilesAreReported(job'[p])
    BY <2>1 DEF PassedFilesAreTold, ListedFilesAreReported
  <2> QED BY <2>1, <2>2, <2>3, QuietStep
<1>3. ASSUME NEW p \in Process, Stat(p)
      PROVE  EditsAreTold'
  <2>1. /\ JobBecomes(p, job'[p]) /\ job'[p].listed = {} /\ job[p].step = "stat"
        /\ job'[p].todo = {f \in present : mtime[f] > seen[f]}
        /\ job'[p].stat = {<<f, mtime[f]>> : f \in present}
        /\ UNCHANGED <<present, lines, mtime, seen, told, excused>>
    BY <1>1, <1>3, StatDoes DEF Stat, ghostVars, fileVars
  <2>2. PassedFilesAreTold(job'[p])
    <3> SUFFICES ASSUME NEW s \in job'[p].stat, s[1] \notin job'[p].todo
                 PROVE  IsTold(s[1])
      BY DEF PassedFilesAreTold
    <3>1. s[1] \in present /\ ~(mtime[s[1]] > seen[s[1]])
      BY <2>1
    <3> QED BY <3>1 DEF EditsAreTold, OldFilesAreTold
  <2>3. ListedFilesAreReported(job'[p])
    BY <2>1 DEF ListedFilesAreReported
  <2> QED BY <2>1, <2>2, <2>3, QuietStep
<1>4. ASSUME NEW p \in Process, Read(p)
      PROVE  EditsAreTold'
  <2> DEFINE f == CurrentFile(p)
  <2>1. /\ JobBecomes(p, job'[p]) /\ job[p].step = "read" /\ f \in job[p].todo
        /\ UNCHANGED <<present, lines, mtime, seen, told, excused>>
        /\ \/ job'[p] = Idle \/ ReadsToWrite(p, job'[p])
           \/ ReadsThrough(p, job'[p]) \/ ReadsNothing(p, job'[p])
    BY <1>4, ReadDoes DEF Read, ghostVars, fileVars
  <2>2. job[p].call = "since" => job[p].todo \subseteq present
    BY DEF JobsAreSound, JobIsSound
  <2>3. CASE job[p].call # "since"
    <3>1. job'[p].stat = {} /\ job'[p].call # "since"
      BY <1>1, <2>1, <2>3 DEF ReadsToWrite, ReadsThrough, ReadsNothing, Visited, Idle
    <3>2. PassedFilesAreTold(job'[p]) /\ ListedFilesAreReported(job'[p])
      BY <3>1 DEF PassedFilesAreTold, ListedFilesAreReported
    <3> QED BY <2>1, <3>2, QuietStep
  <2>4. CASE job[p].call = "since" /\ job'[p] # Idle
    <3>1. /\ job'[p].stat = job[p].stat /\ job'[p].call = "since"
          /\ job'[p].listed = job[p].listed \cup {<<f, mtime[f]>>}
          /\ job[p].todo \subseteq job'[p].todo \cup {f} /\ job[p].got \subseteq job'[p].got
          /\ \/ job'[p].step = "write" /\ job'[p].todo = job[p].todo
             \/ Pairs(lines[f]) \subseteq job'[p].got
      BY <2>1, <2>2, <2>4 DEF ReadsToWrite, ReadsThrough, ReadsNothing, Visited
    <3>2. /\ Listed(job'[p]) = Listed(job[p]) \cup {f} /\ Reported(job[p]) \subseteq Reported(job'[p])
          /\ \/ job'[p].step = "write" /\ FirstOf(job'[p].todo) = f
             \/ Titles(lines[f]) \subseteq Reported(job'[p])
      <4>1. FirstOf(job[p].todo) = f
        BY DEF CurrentFile
      <4>2. Titles(lines[f]) = {h[1] : h \in Pairs(lines[f])}
        BY TitlesOfPairs
      <4> HIDE DEF f
      <4>3. Listed(job'[p]) = Listed(job[p]) \cup {f}
        <5> DEFINE l == <<f, mtime[f]>>
        <5>1. l[1] = f /\ job'[p].listed = job[p].listed \cup {l}
          BY <3>1
        <5> HIDE DEF l
        <5> QED BY <5>1 DEF Listed
      <4>4. Reported(job[p]) \subseteq Reported(job'[p])
        BY <3>1 DEF Reported
      <4>5. Pairs(lines[f]) \subseteq job'[p].got => Titles(lines[f]) \subseteq Reported(job'[p])
        BY <4>2 DEF Reported
      <4> QED BY <3>1, <4>1, <4>3, <4>4, <4>5
    <3> HIDE DEF f
    <3>3. PassedFilesAreTold(job'[p])
      BY <1>1, <3>1, <3>2 DEF PassedFilesAreTold
    <3>4. ListedFilesAreReported(job'[p])
      <4> SUFFICES ASSUME NEW l \in job'[p].listed, mtime[l[1]] = l[2],
                          job'[p].step = "write" => l[1] # FirstOf(job'[p].todo)
                   PROVE  Titles(lines[l[1]]) \subseteq Reported(job'[p])
        BY DEF ListedFilesAreReported
      <4>1. CASE l \in job[p].listed
        BY <1>1, <2>1, <2>4, <3>2, <4>1 DEF ListedFilesAreReported
      <4>2. CASE l = <<f, mtime[f]>>
        BY <3>2, <4>2
      <4> QED BY <3>1, <4>1, <4>2
    <3> QED BY <2>1, <3>3, <3>4, QuietStep
  <2>5. CASE job'[p] = Idle
    BY <2>1, <2>5, NothingListed, QuietStep
  <2> QED BY <2>3, <2>4, <2>5
<1>5. ASSUME NEW p \in Process, InjectMarkers(p)
      PROVE  EditsAreTold'
  <2> DEFINE f == CurrentFile(p)
  <2> DEFINE new == injectMarker(job[p].body)
  <2>1. /\ job[p].step = "write" /\ WritesTo(f, new) /\ new \in Seq(Line) /\ JobBecomes(p, job'[p])
        /\ Visited(p, job'[p], job[p].got \cup Pairs(new),
                   {l \in job[p].listed : l[1] # f} \cup {<<f, clock + 1>>})
    BY <1>5, InjectDoes
  <2>2. f \in File /\ f = FirstOf(job[p].todo) /\ UNCHANGED <<told, excused>>
    BY <1>5, <2>1, WriterKnows DEF CurrentFile, InjectMarkers
  <2>3. /\ job'[p].stat = job[p].stat /\ job'[p].call = job[p].call
        /\ job'[p].todo = job[p].todo \ {f}
        /\ job'[p].got = job[p].got \cup Pairs(new)
        /\ job'[p].call = "since" =>
               job'[p].listed = {l \in job[p].listed : l[1] # f} \cup {<<f, clock + 1>>}
    BY <2>1 DEF Visited
  <2>4. Titles(new) = {h[1] : h \in Pairs(new)}
    BY TitlesOfPairs
  <2>5. /\ mtime'[f] = clock + 1 /\ lines'[f] = new
        /\ \A o \in File : o # f => mtime'[o] = mtime[o] /\ lines'[o] = lines[o]
        /\ mtime[f] <= clock /\ clock \in Nat
    BY <2>1, <2>2 DEF WritesTo, TimesArePast
  <2> HIDE DEF f, new
  <2>6. Titles(new) \subseteq Reported(job'[p]) /\ Reported(job[p]) \subseteq Reported(job'[p])
    BY <2>3, <2>4 DEF Reported
  <2>7. ASSUME NEW s \in job'[p].stat
        PROVE  /\ s[1] \in File
               /\ s[1] # f /\ s[1] \notin job'[p].todo \cup Listed(job'[p]) /\ mtime[s[1]] = s[2]
                      => IsTold(s[1])
               /\ s[1] = f => mtime'[f] # s[2]
    <3>1. s \in job[p].stat /\ s[1] \in File /\ job[p].call = "since"
      BY <1>1, <2>3
    <3>2. s[2] \in Nat /\ s[2] <= mtime[s[1]]
      BY <3>1 DEF TimesArePast, JobsAreSound, MarkdownJob, FileStamps
    <3>3. s[1] # f => (s[1] \in job[p].todo \cup Listed(job[p])
                          => s[1] \in job'[p].todo \cup Listed(job'[p]))
      BY <2>3, <3>1 DEF Listed
    <3>4. s[1] = f => mtime'[f] # s[2]
      <4> SUFFICES ASSUME s[1] = f PROVE mtime'[f] # s[2]
        OBVIOUS
      <4>1. s[2] <= mtime[f] /\ mtime[f] \in Nat
        BY <1>1, <2>2, <3>2
      <4> QED BY <2>5, <3>2, <4>1
    <3> QED BY <1>1, <3>1, <3>3, <3>4 DEF PassedFilesAreTold
  <2>8. ASSUME job'[p].call = "since", NEW l \in job'[p].listed, mtime'[l[1]] = l[2]
        PROVE  Titles(lines'[l[1]]) \subseteq Reported(job'[p])
    <3>1. CASE l = <<f, clock + 1>>
      BY <2>5, <2>6, <3>1
    <3>2. CASE l \in job[p].listed /\ l[1] # f
      <4>1. l[1] \in File /\ mtime[l[1]] = l[2] /\ lines'[l[1]] = lines[l[1]]
        BY <1>1, <2>5, <2>8, <3>2
      <4>2. Titles(lines[l[1]]) \subseteq Reported(job[p])
        BY <1>1, <2>2, <2>3, <2>8, <3>2, <4>1 DEF ListedFilesAreReported
      <4> QED BY <2>6, <4>1, <4>2
    <3> QED BY <2>3, <2>8, <3>1, <3>2
  <2>9. \A o \in Process : o # p => job'[o] = job[o]
    BY <2>1 DEF JobBecomes
  <2> QED BY <2>1, <2>2, <2>7, <2>8, <2>9, WriteStep
<1>6. ASSUME NEW p \in Process, RewritesLine(p)
      PROVE  EditsAreTold'
  <2>1. /\ job[p].step = "write" /\ JobBecomes(p, Idle) /\ UNCHANGED <<told, excused>>
        /\ Idle.stat = {} /\ Idle.listed = {}
    BY <1>6, RewriteDoes DEF Idle
  <2>2. PICK body \in Seq(Line) : WritesTo(CurrentFile(p), body)
    BY <1>6, RewriteDoes
  <2>3. CurrentFile(p) \in File
    BY <2>1, WriterKnows
  <2>4. job'[p] = Idle /\ \A o \in Process : o # p => job'[o] = job[o]
    BY <2>1 DEF JobBecomes
  <2> QED BY <2>1, <2>2, <2>3, <2>4, WriteStep
<1>7. ASSUME NEW p \in Process, Restat(p)
      PROVE  EditsAreTold'
  <2> DEFINE again(s) == IF s[1] \in present /\ s[1] \in Listed(job[p]) THEN mtime[s[1]] ELSE s[2]
  <2>1. /\ JobBecomes(p, job'[p]) /\ job[p].step = "restat" /\ job[p].call = "since"
        /\ job'[p].stat = {<<s[1], again(s)>> : s \in job[p].stat}
        /\ job'[p].listed = job[p].listed /\ job'[p].got = job[p].got
        /\ job[p].todo = {} /\ job'[p].todo = {} /\ job'[p].call = "since"
        /\ UNCHANGED <<present, lines, mtime, seen, told, excused>>
    BY <1>7, RestatDoes DEF Restat, ghostVars, fileVars
  <2>2. Listed(job'[p]) = Listed(job[p]) /\ Reported(job'[p]) = Reported(job[p])
    BY <2>1 DEF Listed, Reported
  <2>3. PassedFilesAreTold(job'[p])
    <3> SUFFICES ASSUME NEW s \in job[p].stat, s[1] \notin Listed(job[p]), mtime[s[1]] = again(s)
                 PROVE  IsTold(s[1])
      BY <2>1, <2>2 DEF PassedFilesAreTold
    <3>1. again(s) = s[2]
      OBVIOUS
    <3> HIDE DEF again
    <3> QED BY <1>1, <2>1, <3>1 DEF PassedFilesAreTold
  <2>4. ListedFilesAreReported(job'[p])
    <3> HIDE DEF again
    <3> QED BY <1>1, <2>1, <2>2 DEF ListedFilesAreReported
  <2> QED BY <2>1, <2>3, <2>4, QuietStep
<1>8. ASSUME NEW p \in Process, SetCheckpoint(p)
      PROVE  EditsAreTold'
  <2>1. /\ JobBecomes(p, job'[p]) /\ job[p].step = "set" /\ job[p].call = "since" /\ job[p].todo = {}
        /\ job'[p].step = "set" /\ job'[p].call = "since" /\ job'[p].todo = {}
        /\ job'[p].listed = job[p].listed /\ job'[p].got = job[p].got
        /\ UNCHANGED <<present, lines, mtime, told>>
    BY <1>8, SetCheckpointDoes DEF SetCheckpoint
  <2>2. PICK s \in job[p].stat :
            /\ seen' = [seen EXCEPT ![s[1]] = s[2]] /\ job'[p].stat = job[p].stat \ {s}
            /\ excused' = excused \cup {l[1] : l \in {k \in job[p].listed :
                                                       k[1] = s[1] /\ k[2] # s[2]}}
    BY <1>8, SetCheckpointDoes
  <2>3. /\ Listed(job'[p]) = Listed(job[p]) /\ Reported(job'[p]) = Reported(job[p])
        /\ Stated(job'[p]) \subseteq Stated(job[p]) /\ s[1] \notin Stated(job'[p])
    <3>1. \A t \in job[p].stat : t[1] = s[1] => t = s
      BY DEF TimesArePast
    <3> QED BY <2>1, <2>2, <3>1 DEF Listed, Reported, Stated
  <2>4. \A f : Reporting(p, f) => Reporting(p, f)' /\ Reported(job[p]) \subseteq Reported(job'[p])
    <3>1. \A f : Reporting(p, f)' <=> /\ job'[p].call = "since" /\ job'[p].step = "set"
                                      /\ f \in Listed(job'[p]) \ Stated(job'[p])
      BY DEF Reporting, Listed, Stated
    <3> QED BY <2>1, <2>3, <3>1 DEF Reporting
  <2>5. PassedFilesAreTold(job'[p]) /\ ListedFilesAreReported(job'[p])
    <3>1. PassedFilesAreTold(job'[p])
      BY <1>1, <2>1, <2>2, <2>3 DEF PassedFilesAreTold
    <3>2. ListedFilesAreReported(job'[p])
      BY <1>1, <2>1, <2>3 DEF ListedFilesAreReported
    <3> QED BY <3>1, <3>2
  <2>6. s[1] \in File /\ s[2] \in Nat /\ s[2] <= mtime[s[1]] /\ mtime[s[1]] \in Nat
    BY <1>1 DEF TimesArePast, JobsAreSound, MarkdownJob, FileStamps
  <2>7. ASSUME NEW f \in present
        PROVE  seen'[f] = seen[f] \/ mtime[f] > seen'[f] \/ IsTold(f)'
    <3>1. CASE f # s[1]
      BY <1>1, <2>2, <3>1
    <3>2. CASE f = s[1] /\ mtime[f] # s[2]
      <4>1. seen'[f] = s[2]
        BY <1>1, <2>2, <2>6, <3>2
      <4> QED BY <2>6, <3>2, <4>1
    <3>3. CASE f = s[1] /\ mtime[f] = s[2] /\ f \notin Listed(job[p])
      <4>1. IsTold(f)
        BY <1>1, <2>1, <3>3 DEF PassedFilesAreTold
      <4>2. \A o \in Process : Reporting(o, f) =>
                Reporting(o, f)' /\ Reported(job[o]) \subseteq Reported(job'[o])
        BY <2>1, <2>4, SameReporting DEF JobBecomes
      <4> QED BY <2>1, <2>2, <4>1, <4>2, TellingGoesOn
    <3>4. CASE f = s[1] /\ mtime[f] = s[2] /\ f \in Listed(job[p])
      <4>1. PICK l \in job[p].listed : l[1] = f
        BY <3>4 DEF Listed
      <4>2. CASE l[2] # s[2]
        BY <2>2, <3>4, <4>1, <4>2 DEF IsTold
      <4>3. CASE l[2] = s[2]
        <5>1. Titles(lines[f]) \subseteq Reported(job[p])
          BY <1>1, <2>1, <3>4, <4>1, <4>3 DEF ListedFilesAreReported
        <5>2. Reporting(p, f)'
          <6>1. Reporting(p, f)' <=> /\ job'[p].call = "since" /\ job'[p].step = "set"
                                     /\ f \in Listed(job'[p]) \ Stated(job'[p])
            BY DEF Reporting, Listed, Stated
          <6> QED BY <2>1, <2>3, <3>4, <6>1
        <5>3. \A t \in Titles(lines'[f]) : t \in Reported(job'[p])
          BY <2>1, <2>3, <5>1
        <5>4. IsTold(f)' <=> \/ f \in excused'
                             \/ \A t \in Titles(lines'[f]) \ told' :
                                    \E o \in Process : Reporting(o, f)' /\ t \in Reported(job'[o])
          BY DEF IsTold, Titles, Reported
        <5> QED BY <5>2, <5>3, <5>4
      <4> QED BY <4>2, <4>3
    <3> QED BY <3>1, <3>2, <3>3, <3>4
  <2>8. told \subseteq told' /\ excused \subseteq excused' /\ job'[p].stat \subseteq job[p].stat
    BY <2>1, <2>2
  <2> QED BY <2>1, <2>4, <2>5, <2>7, <2>8, LateStep
<1>9. ASSUME NEW p \in Process, Return(p) \/ Fails(p)
      PROVE  EditsAreTold'
  <2>1. JobBecomes(p, Idle) /\ UNCHANGED fileVars /\ Idle.stat = {}
    BY <1>9, EndDoes DEF Idle
  <2>2. told \subseteq told' /\ excused \subseteq excused'
    BY <1>9 DEF Return, Fails
  <2>3. \A f : Reporting(p, f) => f \in excused' \/ Reported(job[p]) \subseteq told'
    <3> SUFFICES ASSUME NEW f, Reporting(p, f)
                 PROVE  f \in excused' \/ Reported(job[p]) \subseteq told'
      OBVIOUS
    <3>1. job[p].call = "since" /\ job[p].step = "set" /\ f \in Listed(job[p]) \ Stated(job[p])
      BY DEF Reporting
    <3>2. CASE Return(p)
      BY <3>1, <3>2 DEF Return, Reported
    <3>3. CASE Fails(p)
      BY <3>1, <3>3 DEF Fails, Listed, Stated
    <3> QED BY <1>9, <3>2, <3>3
  <2>4. UNCHANGED <<present, lines, mtime, seen>>
    BY <2>1 DEF fileVars
  <2>5. Idle.stat \subseteq job[p].stat
    BY <2>1
  <2> QED BY <2>1, <2>2, <2>3, <2>4, <2>5, NothingListed, LateStep
<1>10. CASE UserStep
  <2>1. PICK f \in File, body \in Seq(Line) : UserWrites(f, body)
    BY <1>10, UserDoes
  <2>2. WritesTo(f, body) /\ UNCHANGED <<job, told, excused>>
    BY <2>1 DEF UserWrites
  <2> QED BY <2>2, WriteStep
<1>11. CASE UNCHANGED markdownVars
  <2>1. UNCHANGED <<present, lines, mtime, seen, job, told, excused>>
    BY <1>11 DEF markdownVars, fileVars, ghostVars
  <2>2. \A f : IsTold(f) => IsTold(f)'
    BY <2>1, SameReporting, TellingGoesOn
  <2>3. OldFilesAreTold'
    BY <2>1, <2>2 DEF EditsAreTold, OldFilesAreTold
  <2>4. ASSUME NEW p \in Process, NEW r, job[p] = r
        PROVE  PassedFilesAreTold(job[p])' /\ ListedFilesAreReported(job[p])'
    <3>1. PassedFilesAreTold(r) /\ ListedFilesAreReported(r)
      BY <1>1, <2>4
    <3>2. PassedFilesAreTold(job[p])'
      BY <2>1, <2>2, <2>4, <3>1 DEF PassedFilesAreTold, Listed
    <3>3. ListedFilesAreReported(job[p])'
      <4>1. \A l \in r.listed :
               r.call = "since" /\ (r.step = "write" => l[1] # FirstOf(r.todo)) /\ mtime'[l[1]] = l[2]
                   => Titles(lines'[l[1]]) \subseteq Reported(r)
        BY <2>1, <3>1 DEF ListedFilesAreReported
      <4> QED BY <2>1, <2>4, <4>1 DEF ListedFilesAreReported
    <3> QED BY <3>2, <3>3
  <2> QED BY <2>3, <2>4 DEF EditsAreTold
<1> QED BY <1>2, <1>3, <1>4, <1>5, <1>6, <1>7, <1>8, <1>9, <1>10, <1>11
        DEF MarkdownNext, RewritesLine, UserStep

-----------------------------------------------------------------------------
\* A Since that nobody disturbs

LEMMA CalmStep ==
    ASSUME MarkdownInv, NEW p \in Process, NEW q, JobBecomes(p, q), job[p].call # "none", calm' => calm,
           calm /\ job[p].call = "since" /\ (\A f \in present : IsCalm(job[p], f)) =>
               \/ q.call = "since" /\ \A f \in present' : IsCalm(q, f)'
               \/ q.call = "none" /\ \A f \in present' : mtime'[f] <= seen'[f]
    PROVE  CalmIsAlone'
<1> SUFFICES ASSUME calm, calm' PROVE CalmIsAlone'
  BY DEF CalmIsAlone
<1>1. /\ \A o \in Process : o # p => job[o].call = "none"
      /\ job[p].call = "since" /\ \A f \in present : IsCalm(job[p], f)
  BY DEF MarkdownInv, CalmIsAlone
<1>2. job'[p] = q /\ \A o \in Process : o # p => job'[o].call = "none"
  BY <1>1 DEF JobBecomes
<1>3. \A o, e \in Process : job'[o].call # "none" /\ job'[e].call # "none" => o = e
  BY <1>2
<1>4. CASE q.call = "since" /\ \A f \in present' : IsCalm(q, f)'
  <2>1. ASSUME NEW o \in Process, job'[o].call # "none", NEW f \in present'
        PROVE  job'[o].call = "since" /\ IsCalm(job[o], f)'
    <3>1. o = p
      BY <1>2, <2>1
    <3> QED BY <1>2, <1>4, <3>1 DEF IsCalm, Stated, Listed
  <2>2. \A o \in Process : job'[o].call # "none" => job'[o].call = "since"
    BY <1>2, <1>4
  <2> QED BY <1>2, <1>3, <1>4, <2>1, <2>2 DEF CalmIsAlone
<1>5. CASE q.call = "none" /\ \A f \in present' : mtime'[f] <= seen'[f]
  BY <1>2, <1>3, <1>5 DEF CalmIsAlone
<1> QED BY <1>1, <1>4, <1>5

LEMMA CalmStay ==
    ASSUME MarkdownInv, [MarkdownNext]_markdownVars
    PROVE  CalmIsAlone'
<1> USE DEF MarkdownInv
<1>1. /\ mtime \in [File -> Nat] /\ seen \in [File -> Nat] /\ present \subseteq File
      /\ \A p \in Process : \A s \in job[p].stat \cup job[p].listed : s[1] \in File
      /\ \A p \in Process : \A s, t \in job[p].stat : s[1] = t[1] => s = t
  BY DEF MarkdownTypeOK, TimesArePast, JobsAreSound, MarkdownJob, FileStamps
<1>2. ASSUME NEW p \in Process, Begin(p)
      PROVE  CalmIsAlone'
  <2> SUFFICES ASSUME calm' PROVE CalmIsAlone'
    BY DEF CalmIsAlone
  <2>1. /\ JobBecomes(p, job'[p]) /\ job'[p].call = "since" /\ job'[p].step = "stat"
        /\ \A o \in Process : o # p => job[o].call = "none"
    BY <1>2, BeginDoes DEF IsFresh, Begin, TimesArePast, Others
  <2>2. PICK q : q = job'[p]
    OBVIOUS
  <2>3. /\ \A o \in Process : o # p => job'[o].call = "none"
        /\ job'[p] = q /\ q.call = "since" /\ q.step = "stat"
    BY <2>1, <2>2 DEF JobBecomes
  <2>4. \A f : IsCalm(q, f)'
    BY <2>3 DEF IsCalm
  <2>5. ASSUME NEW o \in Process, job'[o].call # "none", NEW f \in present'
        PROVE  IsCalm(job[o], f)'
    BY <2>3, <2>4, <2>5 DEF IsCalm, Stated, Listed
  <2>6. /\ \A o, e \in Process : job'[o].call # "none" /\ job'[e].call # "none" => o = e
        /\ \A o \in Process : job'[o].call # "none" => job'[o].call = "since"
    BY <2>3
  <2> QED BY <2>3, <2>5, <2>6 DEF CalmIsAlone
<1>3. ASSUME NEW p \in Process, Stat(p)
      PROVE  CalmIsAlone'
  <2>1. PICK q : q = job'[p]
    OBVIOUS
  <2>2. /\ JobBecomes(p, q) /\ job[p].call # "none" /\ q.call = "since" /\ q.listed = {}
        /\ q.todo = {f \in present : mtime[f] > seen[f]}
        /\ q.stat = {<<f, mtime[f]>> : f \in present}
        /\ UNCHANGED <<present, mtime, seen, calm>>
    BY <1>1, <1>3, <2>1, StatDoes DEF Stat, ghostVars, fileVars
  <2>3. ASSUME NEW f \in present
        PROVE  IsCalm(q, f)'
    <3>1. <<f, mtime[f]>> \in q.stat /\ f \in Stated(q)
      <4> DEFINE c == <<f, mtime[f]>>
      <4>1. c \in q.stat /\ c[1] = f
        BY <2>2
      <4> HIDE DEF c
      <4>2. f \in Stated(q)
        BY <4>1 DEF Stated
      <4> QED BY <4>1, <4>2 DEF c
    <3>2. f \notin q.todo => mtime[f] <= seen[f]
      BY <1>1, <2>2
    <3> QED BY <2>2, <3>1, <3>2 DEF IsCalm
  <2> QED BY <2>2, <2>3, CalmStep
<1>4. ASSUME NEW p \in Process, Read(p)
      PROVE  CalmIsAlone'
  <2> DEFINE f == CurrentFile(p)
  <2>1. PICK q : q = job'[p]
    OBVIOUS
  <2>2. /\ JobBecomes(p, q) /\ job[p].step = "read" /\ f \in job[p].todo /\ job[p].call # "none"
        /\ UNCHANGED <<present, mtime, seen, calm>>
        /\ \/ q = Idle /\ job[p].call # "since"
           \/ ReadsToWrite(p, q)
           \/ ReadsThrough(p, q)
           \/ ReadsNothing(p, q)
    BY <1>4, <2>1, ReadDoes DEF Read, ghostVars, fileVars, JobsAreSound, JobIsSound
  <2>3. ASSUME job[p].call = "since", NEW o \in present, IsCalm(job[p], o)
        PROVE  q.call = "since" /\ IsCalm(q, o)'
    <3>1. f \in present
      BY <2>2, <2>3 DEF JobsAreSound, JobIsSound
    <3>2. /\ q.call = "since" /\ q.stat = job[p].stat
          /\ q.listed = job[p].listed \cup {<<f, mtime[f]>>}
          /\ job[p].todo \subseteq q.todo \cup {f} /\ q.step \in {"read", "write", "restat"}
      BY <2>2, <2>3, <3>1 DEF ReadsToWrite, ReadsThrough, ReadsNothing, Visited
    <3>3. Listed(job[p]) \cup {f} \subseteq Listed(q) /\ Stated(q) = Stated(job[p])
      <4> DEFINE l == <<f, mtime[f]>>
      <4>1. l[1] = f /\ q.listed = job[p].listed \cup {l}
        BY <3>2
      <4> HIDE DEF l
      <4> QED BY <3>2, <4>1 DEF Listed, Stated
    <3> QED BY <2>2, <2>3, <3>2, <3>3 DEF IsCalm
  <2>4. job[p].call = "since" => q.call = "since"
    BY <2>2 DEF ReadsToWrite, ReadsThrough, ReadsNothing, Visited
  <2>5. calm' => calm
    BY <2>2
  <2>6. calm /\ job[p].call = "since" /\ (\A o \in present : IsCalm(job[p], o)) =>
            q.call = "since" /\ \A o \in present' : IsCalm(q, o)'
    BY <2>2, <2>3, <2>4
  <2> HIDE DEF f
  <2> QED BY <2>2, <2>5, <2>6, CalmStep
<1>5. ASSUME NEW p \in Process, InjectMarkers(p)
      PROVE  CalmIsAlone'
  <2> DEFINE f == CurrentFile(p)
  <2> DEFINE new == injectMarker(job[p].body)
  <2>1. PICK q : q = job'[p]
    OBVIOUS
  <2>2. /\ job[p].step = "write" /\ WritesTo(f, new) /\ JobBecomes(p, q)
        /\ Visited(p, q, job[p].got \cup Pairs(new),
                   {l \in job[p].listed : l[1] # f} \cup {<<f, clock + 1>>})
    BY <1>5, <2>1, InjectDoes
  <2>3. /\ f \in File /\ f \in job[p].todo /\ calm' = calm /\ job[p].call # "none"
        /\ job[p].call = "since" => f \in present
    BY <1>5, <2>2, WriterKnows DEF InjectMarkers
  <2>4. /\ \A o \in File : o # f => mtime'[o] = mtime[o]
        /\ present' = present \cup {f} /\ seen' = seen
    BY <2>2 DEF WritesTo
  <2> HIDE DEF new
  <2>5. ASSUME job[p].call = "since", \A o \in present : IsCalm(job[p], o), NEW o \in present'
        PROVE  q.call = "since" /\ IsCalm(q, o)'
    <3>1. /\ q.call = "since" /\ q.stat = job[p].stat /\ q.todo = job[p].todo \ {f}
          /\ q.listed = {l \in job[p].listed : l[1] # f} \cup {<<f, clock + 1>>}
          /\ q.step \in {"read", "restat"}
      BY <2>2, <2>5 DEF Visited
    <3> HIDE DEF f
    <3>2. /\ f \in Listed(q) /\ \A g \in Listed(job[p]) : g \in Listed(q)
          /\ Stated(q) = Stated(job[p])
      <4> DEFINE l == <<f, clock + 1>>
      <4>1. l[1] = f /\ q.listed = {k \in job[p].listed : k[1] # f} \cup {l}
        BY <3>1
      <4> HIDE DEF l
      <4>2. f \in Listed(q)
        BY <4>1 DEF Listed
      <4>3. \A g \in Listed(job[p]) : g \in Listed(q)
        BY <4>1, <4>2 DEF Listed
      <4> QED BY <3>1, <4>2, <4>3 DEF Stated
    <3>3. o \in present /\ IsCalm(job[p], o)
      BY <2>3, <2>4, <2>5
    <3>4. CASE o = f
      BY <2>2, <3>1, <3>2, <3>3, <3>4 DEF IsCalm
    <3>5. CASE o # f
      <4>1. mtime'[o] = mtime[o]
        BY <1>1, <2>4, <3>3, <3>5
      <4> QED BY <2>2, <2>4, <3>1, <3>2, <3>3, <3>5, <4>1 DEF IsCalm
    <3> QED BY <3>1, <3>4, <3>5
  <2>6. calm /\ job[p].call = "since" /\ (\A o \in present : IsCalm(job[p], o)) =>
            q.call = "since" /\ \A o \in present' : IsCalm(q, o)'
    <3> SUFFICES ASSUME job[p].call = "since", \A o \in present : IsCalm(job[p], o)
                 PROVE  q.call = "since" /\ \A o \in present' : IsCalm(q, o)'
      OBVIOUS
    <3>1. f \in present'
      BY <2>4
    <3> QED BY <2>5, <3>1
  <2> QED BY <2>2, <2>3, <2>6, CalmStep
<1>6. ASSUME NEW p \in Process, RewritesLine(p)
      PROVE  CalmIsAlone'
  <2>1. job[p].call \in {"add", "complete", "delete"} /\ calm' = calm
    BY <1>6, RewriteDoes
  <2>2. ~calm
    BY <2>1 DEF CalmIsAlone
  <2> QED BY <2>1, <2>2 DEF CalmIsAlone
<1>7. ASSUME NEW p \in Process, Restat(p)
      PROVE  CalmIsAlone'
  <2> DEFINE again(s) == IF s[1] \in present /\ s[1] \in Listed(job[p]) THEN mtime[s[1]] ELSE s[2]
  <2>1. PICK q : q = job'[p]
    OBVIOUS
  <2>2. /\ JobBecomes(p, q) /\ job[p].step = "restat" /\ job[p].call = "since"
        /\ q.stat = {<<s[1], again(s)>> : s \in job[p].stat} /\ q.call = "since"
        /\ q.step = "set" /\ UNCHANGED <<present, mtime, seen, calm>>
    BY <1>7, <2>1, RestatDoes DEF Restat, ghostVars, fileVars
  <2>3. ASSUME NEW f \in present, IsCalm(job[p], f)
        PROVE  IsCalm(q, f)'
    <3>1. f \in Stated(job[p]) /\ (f \in Listed(job[p]) \/ <<f, mtime[f]>> \in job[p].stat)
      BY <2>2, <2>3 DEF IsCalm
    <3>2. PICK s \in job[p].stat : s[1] = f /\ again(s) = mtime[f]
      <4>1. CASE f \in Listed(job[p])
        BY <3>1, <4>1 DEF Stated
      <4>2. CASE f \notin Listed(job[p])
        <5>1. <<f, mtime[f]>>[1] = f /\ <<f, mtime[f]>>[2] = mtime[f]
          OBVIOUS
        <5> QED BY <3>1, <4>2, <5>1
      <4> QED BY <4>1, <4>2
    <3>3. <<s[1], again(s)>> \in q.stat
      BY <2>2
    <3>4. <<f, mtime'[f]>> \in q.stat
      BY <2>2, <3>2, <3>3
    <3> QED BY <2>2, <3>4 DEF IsCalm
  <2>4. job[p].call # "none" /\ (calm' => calm)
    BY <2>2
  <2> HIDE DEF again
  <2> QED BY <2>2, <2>3, <2>4, CalmStep
<1>8. ASSUME NEW p \in Process, SetCheckpoint(p)
      PROVE  CalmIsAlone'
  <2>1. PICK q : q = job'[p]
    OBVIOUS
  <2>2. /\ JobBecomes(p, q) /\ job[p].step = "set" /\ job[p].call = "since" /\ q.step = "set"
        /\ q.call = "since" /\ UNCHANGED <<present, mtime, calm>>
    BY <1>8, <2>1, SetCheckpointDoes DEF SetCheckpoint
  <2>3. PICK s \in job[p].stat :
            seen' = [seen EXCEPT ![s[1]] = s[2]] /\ q.stat = job[p].stat \ {s}
    BY <1>8, <2>1, SetCheckpointDoes
  <2>4. ASSUME NEW f \in present, IsCalm(job[p], f)
        PROVE  IsCalm(q, f)'
    <3>1. \/ <<f, mtime[f]>> \in job[p].stat
          \/ f \notin Stated(job[p]) /\ mtime[f] <= seen[f]
      BY <2>2, <2>4 DEF IsCalm
    <3>2. f \in File /\ mtime[f] \in Nat
      BY <1>1
    <3>3. CASE f # s[1]
      <4>1. seen'[f] = seen[f]
        BY <1>1, <2>3, <3>2, <3>3
      <4>2. f \notin Stated(job[p]) => f \notin Stated(q)
        BY <2>3 DEF Stated
      <4>3. <<f, mtime[f]>> # s
        BY <3>3
      <4> QED BY <2>2, <2>3, <3>1, <4>1, <4>2, <4>3 DEF IsCalm
    <3>4. CASE f = s[1]
      <4> DEFINE c == <<f, mtime[f]>>
      <4>1. c[1] = f /\ c[2] = mtime[f]
        OBVIOUS
      <4>2. f \in Stated(job[p])
        BY <3>4 DEF Stated
      <4> HIDE DEF c
      <4>3. c = s
        BY <1>1, <3>1, <3>4, <4>1, <4>2 DEF c
      <4>4. seen'[f] = mtime[f]
        BY <1>1, <2>3, <3>2, <3>4, <4>1, <4>3
      <4>5. f \notin Stated(q)
        <5>1. \A t \in q.stat : t \in job[p].stat /\ t # s
          BY <2>3
        <5>2. \A t \in q.stat : t[1] # s[1]
          BY <1>1, <5>1
        <5> QED BY <3>4, <5>2 DEF Stated
      <4>6. mtime'[f] <= seen'[f]
        BY <2>2, <3>2, <4>4
      <4> QED BY <2>2, <4>5, <4>6 DEF IsCalm
    <3> QED BY <3>3, <3>4
  <2>5. job[p].call # "none" /\ (calm' => calm)
    BY <2>2
  <2> QED BY <2>2, <2>4, <2>5, CalmStep
<1>9. ASSUME NEW p \in Process, Return(p)
      PROVE  CalmIsAlone'
  <2>1. /\ JobBecomes(p, Idle) /\ UNCHANGED <<present, mtime, seen, calm>> /\ job[p].call # "none"
        /\ Idle.call = "none"
    BY <1>9, EndDoes DEF fileVars, Idle, Return
  <2>2. ASSUME job[p].call = "since", NEW f \in present, IsCalm(job[p], f)
        PROVE  mtime[f] <= seen[f]
    <3>1. job[p].step = "set" /\ job[p].stat = {}
      BY <1>9, <2>2 DEF Return, JobsAreSound, JobIsSound
    <3> QED BY <2>2, <3>1 DEF IsCalm
  <2>3. calm' => calm
    BY <2>1
  <2> QED BY <2>1, <2>2, <2>3, CalmStep
<1>10. ASSUME NEW p \in Process, Fails(p)
       PROVE  CalmIsAlone'
  BY <1>10 DEF Fails, CalmIsAlone
<1>11. CASE UserStep
  <2>1. calm' = FALSE
    BY <1>11, UserDoes DEF UserWrites
  <2> QED BY <2>1 DEF CalmIsAlone
<1>12. CASE UNCHANGED markdownVars
  BY <1>12 DEF markdownVars, fileVars, ghostVars, CalmIsAlone, IsCalm, Stated, Listed
<1> QED BY <1>2, <1>3, <1>4, <1>5, <1>6, <1>7, <1>8, <1>9, <1>10, <1>11, <1>12
        DEF MarkdownNext, RewritesLine, UserStep

-----------------------------------------------------------------------------

LEMMA MarkdownInvHolds == MarkdownSpec => []MarkdownInv
<1>1. MarkdownInit => MarkdownInv
  <2> SUFFICES ASSUME MarkdownInit PROVE MarkdownInv
    OBVIOUS
  <2> USE MarkdownAssumption
  <2>1. MaxIds \in Nat /\ MaxEdits \in Nat /\ MaxCalls \in Nat
    OBVIOUS
  <2>2. /\ \A f \in File : lines[f] = <<>> \/ \E t \in Title : lines[f] = <<New(t)>>
        /\ \A f \in File : f # Files[1] => lines[f] = <<>>
        /\ lines \in [File -> Seq(Line)]
    <3>1. PICK first \in {<<>>} \cup {<<New(t)>> : t \in Title} :
              lines = [f \in File |-> IF f = Files[1] THEN first ELSE <<>>]
      BY DEF MarkdownInit
    <3>2. \A t \in Title : New(t) \in Line
      BY <2>1 DEF New, Line, NoId
    <3>3. \A l \in Line : <<l>> \in Seq(Line)
      OBVIOUS
    <3>4. first \in Seq(Line) /\ <<>> \in Seq(Line)
      <4>1. first = <<>> \/ \E t \in Title : first = <<New(t)>>
        BY <3>1
      <4>2. \A t \in Title : <<New(t)>> \in Seq(Line)
        BY <3>2, <3>3
      <4>3. <<>> \in Seq(Line)
        OBVIOUS
      <4> QED BY <4>1, <4>2, <4>3
    <3> QED BY <3>1, <3>4
  <2>3. /\ job \in [Process -> MarkdownJob] /\ \A p \in Process : job[p] = Idle
        /\ \A p \in Process : JobIsSound(job[p])
    BY IdleIsSound DEF MarkdownInit
  <2>4. JobsAreSound
    BY <2>3 DEF JobsAreSound
  <2>5. Files[1] \in present /\ present \subseteq File
    BY DEF MarkdownInit, File, ToSet
  <2>6. /\ mtime = [f \in File |-> 1] /\ seen = [f \in File |-> 0] /\ clock = 1 /\ nextId = 1
        /\ edits = 0 /\ calls = 0 /\ handed = {} /\ calm = FALSE /\ excused = {} /\ clashed = FALSE
    BY DEF MarkdownInit
  <2>7. MarkdownTypeOK
    <3>1. mtime \in [File -> Nat] /\ seen \in [File -> Nat]
      BY <2>6
    <3>2. nextId \in 1..(MaxIds + 1) /\ edits \in 0..MaxEdits /\ calls \in 0..MaxCalls
      BY <2>1, <2>6
    <3>3. \A p \in Process : job[p].call \in Calls /\ job[p].body \in Seq(Line)
      BY <2>4 DEF JobsAreSound, MarkdownJob
    <3> QED BY <2>2, <2>5, <2>6, <3>1, <3>2, <3>3 DEF MarkdownTypeOK
  <2>8. /\ \A p \in Process : /\ job[p].stat = {} /\ job[p].listed = {} /\ job[p].got = {}
                              /\ job[p].body = <<>> /\ job[p].call = "none"
    BY <2>3 DEF Idle
  <2>9. TimesArePast
    <3>1. clock \in Nat /\ \A f \in File : mtime[f] <= clock /\ seen[f] <= clock
      BY <2>6
    <3>2. \A f \in File \ present : lines[f] = <<>>
      BY <2>2, <2>5
    <3> QED BY <2>6, <2>8, <3>1, <3>2 DEF TimesArePast
  <2>10. IdsAreGivenOnce
    <3>1. \A f \in File : \A i \in DOMAIN lines[f] : lines[f][i].id = NoId
      <4> SUFFICES ASSUME NEW f \in File, NEW i \in DOMAIN lines[f]
                   PROVE  lines[f][i].id = NoId
        OBVIOUS
      <4>1. lines[f] # <<>>
        OBVIOUS
      <4>2. PICK t \in Title : lines[f] = <<New(t)>>
        BY <2>2, <4>1
      <4>3. lines[f][i] = New(t)
        BY <4>2
      <4> QED BY <4>3 DEF New
    <3> QED BY <2>6, <2>8, <3>1 DEF IdsAreGivenOnce, NoId
  <2>11. PairsAreThere
    BY <2>6, <2>8 DEF PairsAreThere
  <2>12. EditsAreTold
    BY <2>5, <2>6, <2>8
       DEF EditsAreTold, OldFilesAreTold, PassedFilesAreTold, ListedFilesAreReported
  <2>13. CalmIsAlone
    BY <2>6 DEF CalmIsAlone
  <2> QED BY <2>4, <2>7, <2>9, <2>10, <2>11, <2>12, <2>13 DEF MarkdownInv
<1>2. MarkdownInv /\ [MarkdownNext]_markdownVars => MarkdownInv'
  <2> SUFFICES ASSUME MarkdownInv, [MarkdownNext]_markdownVars PROVE MarkdownInv'
    OBVIOUS
  <2>1. MarkdownTypeOK' /\ JobsAreSound'
    BY TypesStay
  <2>2. TimesArePast' /\ IdsAreGivenOnce'
    BY TimesStay, IdsStay
  <2>3. PairsAreThere' /\ EditsAreTold' /\ CalmIsAlone'
    BY PairsStay, EditsStay, CalmStay
  <2> QED BY <2>1, <2>2, <2>3 DEF MarkdownInv
<1> QED BY <1>1, <1>2, PTL DEF MarkdownSpec

LEMMA InvReports ==
    ASSUME MarkdownInv
    PROVE  MarkdownTypeOK /\ IdsAreStable /\ EveryEditIsReported /\ SinceGoesQuiet
<1> USE DEF MarkdownInv
<1>1. IdsAreStable
  BY DEF PairsAreThere, PairIsKept, IdsAreStable
<1>2. EveryEditIsReported
  <2> SUFFICES ASSUME NEW f \in present \ excused, NEW t \in Titles(lines[f]) \ told,
                      ~(mtime[f] > seen[f])
               PROVE  \E p \in Process : \E g \in job[p].got : g[1] = t
    BY DEF EveryEditIsReported
  <2>1. \E p \in Process : t \in Reported(job[p])
    BY DEF EditsAreTold, OldFilesAreTold, IsTold
  <2> QED BY <2>1 DEF Reported
<1>3. SinceGoesQuiet
  BY DEF CalmIsAlone, SinceGoesQuiet
<1> QED BY <1>1, <1>2, <1>3

\* Line l of a file is in body.
IsStill(l, body) == \E j \in DOMAIN body : body[j].title = l.title /\ (l.done => body[j].done)

IsDeleted(l) == \E p \in Process : /\ job[p].call = "delete" /\ job'[p].call = "none"
                                   /\ job[p].id = l.id

LEMMA LinesStay ==
    ASSUME MarkdownInv, [MarkdownNext]_markdownVars, edits' = edits, ~clashed'
    PROVE  \A f \in File : \A i \in DOMAIN lines[f] :
               IsStill(lines[f][i], lines'[f]) \/ IsDeleted(lines[f][i])
<1> USE DEF MarkdownInv
<1> DEFINE Kept == \A f \in File : \A i \in DOMAIN lines[f] :
                       IsStill(lines[f][i], lines'[f]) \/ IsDeleted(lines[f][i])
<1> SUFFICES Kept
  OBVIOUS
<1>1. lines' = lines => Kept
  BY DEF IsStill
<1>2. ASSUME NEW f \in File, NEW old, lines[f] = old, NEW body, WritesTo(f, body),
             \A i \in DOMAIN old : IsStill(old[i], body) \/ IsDeleted(old[i])
      PROVE  Kept
  <2> SUFFICES ASSUME NEW o \in File, NEW i \in DOMAIN lines[o]
               PROVE  IsStill(lines[o][i], lines'[o]) \/ IsDeleted(lines[o][i])
    OBVIOUS
  <2>1. CASE o = f
    BY <1>2, <2>1 DEF WritesTo
  <2>2. CASE o # f
    BY <1>2, <2>2 DEF WritesTo, IsStill
  <2> QED BY <2>1, <2>2
<1>3. ASSUME NEW p \in Process, InjectMarkers(p) PROVE Kept
  <2> DEFINE f == CurrentFile(p)
  <2> DEFINE old == job[p].body
  <2> DEFINE new == injectMarker(old)
  <2>1. job[p].step = "write" /\ WritesTo(f, new) /\ DOMAIN new = DOMAIN old
    BY <1>3, InjectDoes
  <2>2. \A i \in DOMAIN new : new[i].title = old[i].title /\ new[i].done = old[i].done
    BY <1>3, InjectDoes
  <2>3. lines[f] = old /\ f \in File
    BY <1>3, <2>1, WriterKnows DEF InjectMarkers, Rewrite
  <2> HIDE DEF f, old, new
  <2>4. \A i \in DOMAIN old : IsStill(old[i], new)
    BY <2>1, <2>2 DEF IsStill
  <2> QED BY <1>2, <2>1, <2>3, <2>4
<1>4. ASSUME NEW p \in Process, RewritesLine(p) PROVE Kept
  <2> DEFINE f == CurrentFile(p)
  <2> DEFINE old == job[p].body
  <2>1. /\ job[p].step = "write" /\ JobBecomes(p, Idle) /\ Idle.call = "none"
        /\ clashed' = (clashed \/ lines[f] # old)
        /\ job[p].call \in {"add", "complete", "delete"}
    BY <1>4, RewriteDoes DEF Idle
  <2>2. PICK body \in Seq(Line) : WritesTo(f, body) /\ RewrittenLine(p, body)
    BY <1>4, RewriteDoes
  <2>3. /\ old \in Seq(Line) /\ f \in File /\ lines[f] = old
        /\ job[p].call \in {"complete", "delete"} =>
               Target(p) \in DOMAIN old /\ old[Target(p)].id = job[p].id
    BY <2>1, WriterKnows
  <2>4. \A i \in DOMAIN old : IsStill(old[i], body) \/ IsDeleted(old[i])
    <3>1. CASE job[p].call = "add"
      <4>1. PICK t \in Title : body = Append(old, [title |-> t, id |-> nextId, done |-> FALSE])
        BY <2>2, <3>1 DEF RewrittenLine
      <4>2. nextId <= MaxIds
        BY <2>2, <3>1 DEF RewrittenLine
      <4> DEFINE l == [title |-> t, id |-> nextId, done |-> FALSE]
      <4>3. l \in Line
        BY <4>2 DEF MarkdownTypeOK, Line
      <4> HIDE DEF l, old
      <4>4. DOMAIN old \subseteq DOMAIN body /\ \A i \in DOMAIN old : body[i] = old[i]
        BY <2>3, <4>1, <4>3, LinesAreAppended DEF l
      <4> QED BY <4>4 DEF IsStill
    <3>2. CASE job[p].call = "complete"
      <4>1. body = [old EXCEPT ![Target(p)].done = TRUE]
        BY <2>2, <3>2 DEF RewrittenLine
      <4> HIDE DEF old
      <4>2. PICK k \in DOMAIN old : k = Target(p)
        BY <2>3, <3>2
      <4>3. body = [old EXCEPT ![k].done = TRUE]
        BY <4>1, <4>2
      <4>4. /\ DOMAIN body = DOMAIN old
            /\ \A i \in DOMAIN old : body[i].title = old[i].title /\ (old[i].done => body[i].done)
        BY <2>3, <4>3, LineIsChecked
      <4> QED BY <4>4 DEF IsStill
    <3>3. CASE job[p].call = "delete"
      <4>1. body = RemoveAt(old, Target(p))
        BY <2>2, <3>3 DEF RewrittenLine
      <4>2. IsDeleted(old[Target(p)])
        BY <2>1, <2>3, <3>3 DEF IsDeleted, JobBecomes
      <4> HIDE DEF old
      <4>3. PICK k \in DOMAIN old : k = Target(p)
        BY <2>3, <3>3
      <4>4. \A i \in DOMAIN old : i # k => \E j \in DOMAIN body : body[j] = old[i]
        <5> DEFINE after == RemoveAt(old, k)
        <5>1. \A i \in DOMAIN old : i # k => \E j \in DOMAIN after : after[j] = old[i]
          BY <2>3, OthersRemain
        <5>2. body = after
          BY <4>1, <4>3
        <5> HIDE DEF after
        <5> QED BY <5>1, <5>2
      <4> QED BY <4>2, <4>3, <4>4 DEF IsStill
    <3> QED BY <2>1, <3>1, <3>2, <3>3
  <2> HIDE DEF f, old
  <2> QED BY <1>2, <2>2, <2>3, <2>4
<1>5. CASE UserStep
  <2>1. PICK f \in File, body \in Seq(Line) : UserWrites(f, body)
    BY <1>5, UserDoes
  <2>2. f \notin present /\ WritesTo(f, body)
    BY <2>1 DEF UserWrites
  <2>3. lines[f] = <<>>
    BY <2>2 DEF TimesArePast
  <2> QED BY <1>2, <2>2, <2>3
<1>6. ASSUME NEW p \in Process, \/ Begin(p) \/ Stat(p) \/ Read(p) \/ Restat(p)
                                \/ SetCheckpoint(p) \/ Return(p) \/ Fails(p)
      PROVE  Kept
  <2>1. lines' = lines
    BY <1>6 DEF Begin, Stat, Read, Restat, SetCheckpoint, Return, Fails, fileVars
  <2> QED BY <1>1, <2>1
<1>7. CASE UNCHANGED markdownVars
  BY <1>1, <1>7 DEF markdownVars, fileVars
<1> HIDE DEF Kept
<1> QED BY <1>3, <1>4, <1>5, <1>6, <1>7 DEF MarkdownNext, RewritesLine, UserStep

THEOREM MarkdownLosesNothing == MarkdownSpec => LinesSurvive
<1>1. MarkdownInv /\ [MarkdownNext]_markdownVars =>
          [\A f \in File : edits' = edits /\ ~clashed' =>
              \A i \in DOMAIN lines[f] :
                  \/ \E j \in DOMAIN lines'[f] : /\ lines'[f][j].title = lines[f][i].title
                                                 /\ lines[f][i].done => lines'[f][j].done
                  \/ \E p \in Process : /\ job[p].call = "delete" /\ job'[p].call = "none"
                                        /\ job[p].id = lines[f][i].id]_markdownVars
  BY LinesStay DEF IsStill, IsDeleted
<1> QED BY <1>1, MarkdownInvHolds, PTL DEF MarkdownSpec, LinesSurvive
==============================================================================
