----------------------------- MODULE RotatingLog ------------------------------
(***************************************************************************)
(* logging.RotatingFile, the daemon log: before a line that would take a    *)
(* file that is not empty past its limit, the file is closed, renamed to a  *)
(* backup, reopened empty, and all but the newest backups are removed.  A   *)
(* writer has a mutex, so its calls come one after another; each can fail   *)
(* half-way.  A line is its number and where in its file it ends, its       *)
(* length one of a few.                                                     *)
(***************************************************************************)
EXTENDS Naturals, Sequences

CONSTANTS
    MaxBytes, MaxBackupFiles,
    Lengths,     \* the lengths of a line
    MaxLines     \* bound: lines that are written

ASSUME RotatingLogAssumption ==
    /\ MaxBytes \in Nat \ {0} /\ MaxBackupFiles \in Nat /\ MaxLines \in Nat
    /\ Lengths \subseteq Nat \ {0}

VARIABLES
    active,     \* the lines of the active file
    old,        \* the backups, oldest first
    size,       \* the size the writer believes the active file has
    isOpen,     \* whether the writer has a file
    accepted    \* how many lines Write took

logVars == <<active, old, size, isOpen, accepted>>

LogLine == [number : 1..MaxLines, upto : Nat]

RotatingLogTypeOK ==
    /\ active \in Seq(LogLine) /\ old \in Seq(Seq(LogLine))
    /\ size \in Nat /\ isOpen \in BOOLEAN /\ accepted \in 0..MaxLines

RotatingLogInit == active = <<>> /\ old = <<>> /\ size = 0 /\ isOpen = TRUE /\ accepted = 0

Bytes(file) == IF file = <<>> THEN 0 ELSE file[Len(file)].upto

---------------------------------------------------------------------------

\* A new writer goes on with the file that is there.
NewRotatingFile ==
    /\ ~isOpen /\ isOpen' = TRUE /\ size' = Bytes(active)
    /\ UNCHANGED <<active, old, accepted>>

PruneBackups(files) ==
    IF MaxBackupFiles = 0 \/ Len(files) <= MaxBackupFiles THEN files
    ELSE SubSeq(files, Len(files) - MaxBackupFiles + 1, Len(files))

Overflows(n) == size > 0 /\ size + n > MaxBytes

\* The next line, as it lies at the end of a file.
NextLine(file, n) == [number |-> accepted + 1, upto |-> Bytes(file) + n]

\* The line, into the file as it is or into the new one.
WriteLine(n) ==
    /\ isOpen /\ accepted < MaxLines
    /\ IF Overflows(n)
       THEN /\ old' = PruneBackups(Append(old, active))
            /\ active' = <<NextLine(<<>>, n)>> /\ size' = n
       ELSE /\ active' = Append(active, NextLine(active, n)) /\ size' = size + n
            /\ UNCHANGED old
    /\ accepted' = accepted + 1 /\ UNCHANGED isOpen

\* The rename or the reopening fails: the writer has no file any more, and
\* every later line fails.
RotateFails(n, renamed) ==
    /\ isOpen /\ Overflows(n) /\ isOpen' = FALSE /\ size' = 0
    /\ IF renamed THEN old' = Append(old, active) /\ active' = <<>>
       ELSE UNCHANGED <<active, old>>
    /\ UNCHANGED accepted

\* An old backup cannot be removed: this line is lost, the next one is not.
PruneFails(n) ==
    /\ isOpen /\ Overflows(n) /\ Len(old) >= MaxBackupFiles /\ MaxBackupFiles > 0
    /\ old' = Append(old, active) /\ active' = <<>> /\ size' = 0
    /\ UNCHANGED <<isOpen, accepted>>

\* Close, or the end of the process.
CloseLog == isOpen /\ isOpen' = FALSE /\ UNCHANGED <<active, old, size, accepted>>

RotatingLogNext ==
    \/ NewRotatingFile \/ CloseLog
    \/ \E n \in Lengths : \/ WriteLine(n) \/ PruneFails(n)
                          \/ \E renamed \in BOOLEAN : RotateFails(n, renamed)

RotatingLogSpec == RotatingLogInit /\ [][RotatingLogNext]_logVars

---------------------------------------------------------------------------
\* Properties

\* The number of the line after the last one of backup k.
NumberAfter(k) ==
    IF k < Len(old) THEN old[k + 1][1].number
    ELSE IF active = <<>> THEN accepted + 1 ELSE active[1].number

\* Nothing is missing inside a file.
NoGapIn(file) == \A i \in 1..Len(file) : file[i].number = file[1].number + i - 1

\* The files hold the newest of the accepted lines, in order and without a
\* gap: a failed rotation and a restart lose none of them.
NewestLinesRemain ==
    /\ active # <<>> => active[Len(active)].number = accepted
    /\ NoGapIn(active) /\ \A k \in 1..Len(old) : NoGapIn(old[k])
    /\ \A k \in 1..Len(old) :
           old[k] # <<>> /\ old[k][Len(old[k])].number + 1 = NumberAfter(k)
    /\ accepted > 0 => active # <<>> \/ old # <<>>

\* No file is past the limit unless it is one line, after a restart too.
FilesAreBounded ==
    /\ Len(active) > 1 => Bytes(active) <= MaxBytes
    /\ \A k \in 1..Len(old) : Len(old[k]) > 1 => Bytes(old[k]) <= MaxBytes
=============================================================================
