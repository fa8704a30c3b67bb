---------------------------- MODULE FormatProofs -----------------------------
(***************************************************************************)
(* The conversions of SourceFormats are right for texts of every length.   *)
(* What they compute is recursive, so the proofs are inductions, written   *)
(* with the set of what has been reached: a set of naturals that holds 0   *)
(* and with each number the next holds them all, and a set of sequences    *)
(* likewise.                                                               *)
(***************************************************************************)
EXTENDS SourceFormats, SequenceTheorems, WellFoundedInduction, TLAPS

---------------------------------------------------------------------------
(* Induction and recursion *)

\* Induction on the naturals.
LEMMA SetInduction ==
    ASSUME NEW S \in SUBSET Nat, 0 \in S, \A n \in S : n + 1 \in S
    PROVE  S = Nat
<1> SUFFICES ASSUME Nat \ S # {} PROVE FALSE
  OBVIOUS
<1>1. PICK n \in Nat \ S : \A m \in Nat \ S : ~(<<m, n>> \in OpToRel(<, Nat))
  BY NatLessThanWellFounded, WFMin
<1>2. n - 1 \in Nat /\ n - 1 < n
  OBVIOUS
<1>3. n - 1 \in S
  BY <1>1, <1>2 DEF OpToRel
<1> QED BY <1>2, <1>3

\* Induction on sequences, one more element at the end.
LEMMA AppendInduction ==
    ASSUME NEW T, NEW P \in SUBSET Seq(T), <<>> \in P, \A s \in P, x \in T : Append(s, x) \in P
    PROVE  P = Seq(T)
<1> DEFINE S == {n \in Nat : \A s \in Seq(T) : Len(s) = n => s \in P}
<1>1. 0 \in S
  OBVIOUS
<1>2. ASSUME NEW n \in S PROVE n + 1 \in S
  <2>1. ASSUME NEW s \in Seq(T), Len(s) = n + 1 PROVE s \in P
    <3>0. s # <<>>
      BY <2>1
    <3>1. PICK r \in Seq(T), x \in T : s = Append(r, x)
      BY <2>1, <3>0, SequenceEmptyOrAppend
    <3>2. Len(r) = n
      BY <2>1, <3>1
    <3> QED BY <3>1, <3>2
  <2> QED BY <2>1
<1>3. S = Nat
  <2> HIDE DEF S
  <2>1. S \in SUBSET Nat
    BY DEF S
  <2> QED BY <1>1, <1>2, <2>1, SetInduction
<1>4. \A s \in Seq(T) : Len(s) \in S
  BY <1>3
<1> QED BY <1>4

\* f begins with base and goes on from each value by the step made for it.
Follows(f, N, base, step) == f[0] = base /\ \A i \in 1..N : f[i] = step[i][f[i - 1]]

\* A function defined by what its next value is made of has a value everywhere.
LEMMA RecursionIsDefined ==
    ASSUME NEW T, NEW N \in Nat, NEW base \in T, NEW step \in [1..N -> [T -> T]]
    PROVE  \E f \in [0..N -> T] : Follows(f, N, base, step)
<1> DEFINE Begun(n) == \E f \in [0..n -> T] : Follows(f, n, base, step)
           S == {n \in Nat : n <= N => Begun(n)}
<1>1. 0 \in S
  <2> DEFINE f == [i \in 0..0 |-> base]
  <2>1. f \in [0..0 -> T]
    OBVIOUS
  <2>2. Follows(f, 0, base, step)
    BY DEF Follows
  <2> QED BY <2>1, <2>2
<1>2. ASSUME NEW n \in S PROVE n + 1 \in S
  <2>1. SUFFICES ASSUME n + 1 <= N PROVE Begun(n + 1)
    OBVIOUS
  <2>2. PICK f \in [0..n -> T] : Follows(f, n, base, step)
    BY <2>1
  <2> DEFINE g == [i \in 0..(n + 1) |-> IF i = n + 1 THEN step[i][f[n]] ELSE f[i]]
  <2>3. step[n + 1] \in [T -> T]
    BY <2>1
  <2>4. g \in [0..(n + 1) -> T]
    BY <2>3
  <2>5. g[0] = base
    BY <2>2 DEF Follows
  <2>6. ASSUME NEW i \in 1..(n + 1) PROVE g[i] = step[i][g[i - 1]]
    BY <2>2 DEF Follows
  <2> QED BY <2>4, <2>5, <2>6 DEF Follows
<1>3. S = Nat
  <2> HIDE DEF S
  <2>1. S \in SUBSET Nat
    BY DEF S
  <2> QED BY <1>1, <1>2, <2>1, SetInduction
<1> QED BY <1>3

\* The values of f and g are made in the same way up to N.
SameSteps(f, g, N) == f[0] = g[0] /\ \A i \in 1..N : f[i - 1] = g[i - 1] => f[i] = g[i]

\* Two functions whose values are made in the same way are equal as far as both go.
LEMMA RecursionIsUnique ==
    ASSUME NEW N \in Nat, NEW f, NEW g, SameSteps(f, g, N)
    PROVE  \A i \in 0..N : f[i] = g[i]
<1> DEFINE S == {n \in Nat : n <= N => f[n] = g[n]}
<1>1. 0 \in S
  BY DEF SameSteps
<1>2. ASSUME NEW n \in S PROVE n + 1 \in S
  BY DEF SameSteps
<1>3. S = Nat
  <2> HIDE DEF S
  <2>1. S \in SUBSET Nat
    BY DEF S
  <2> QED BY <1>1, <1>2, <2>1, SetInduction
<1> QED BY <1>3

---------------------------------------------------------------------------
(* Joining lines *)

\* What joinLines computes: f[k] is the first k lines joined.
JoinSteps(f, ls, e) ==
    /\ f[0] = <<>>
    /\ \A k \in 1..Len(ls) : f[k] = IF k = 1 THEN ls[1] ELSE f[k - 1] \o e \o ls[k]
    /\ joinLines(ls, e) = f[Len(ls)]

LEMMA JoinIsDefined ==
    ASSUME NEW B, NEW ls \in Seq(Seq(B)), NEW e \in Seq(B)
    PROVE  \E f \in [0..Len(ls) -> Seq(B)] : JoinSteps(f, ls, e)
<1> DEFINE N == Len(ls)
           F(f) == [k \in 0..N |-> IF k = 0 THEN <<>>
                                   ELSE IF k = 1 THEN ls[k] ELSE f[k - 1] \o e \o ls[k]]
           step == [k \in 1..N |-> [v \in Seq(B) |-> IF k = 1 THEN ls[1] ELSE v \o e \o ls[k]]]
<1>1. N \in Nat
  OBVIOUS
<1>2. step \in [1..N -> [Seq(B) -> Seq(B)]]
  <2>1. ASSUME NEW k \in 1..N, NEW v \in Seq(B)
        PROVE  (IF k = 1 THEN ls[1] ELSE v \o e \o ls[k]) \in Seq(B)
    <3>1. ls[k] \in Seq(B) /\ (k = 1 => ls[1] \in Seq(B))
      OBVIOUS
    <3>2. v \o e \o ls[k] \in Seq(B)
      BY <3>1, ConcatProperties
    <3> QED BY <3>1, <3>2
  <2> QED BY <2>1
<1>3. PICK f \in [0..N -> Seq(B)] : Follows(f, N, <<>>, step)
  <2> HIDE DEF step, N
  <2>1. <<>> \in Seq(B)
    OBVIOUS
  <2> QED BY <1>1, <1>2, <2>1, RecursionIsDefined
<1>4. /\ f[0] = <<>>
      /\ \A k \in 1..N : f[k] = IF k = 1 THEN ls[1] ELSE f[k - 1] \o e \o ls[k]
  <2>1. f[0] = <<>>
    BY <1>3 DEF Follows
  <2>2. ASSUME NEW k \in 1..N PROVE f[k] = IF k = 1 THEN ls[1] ELSE f[k - 1] \o e \o ls[k]
    <3>1. f[k] = step[k][f[k - 1]]
      BY <1>3 DEF Follows
    <3>2. f[k - 1] \in Seq(B)
      <4>1. k - 1 \in 0..N
        BY <1>1
      <4> HIDE DEF N
      <4> QED BY <4>1
    <3> QED BY <3>1, <3>2
  <2> QED BY <2>1, <2>2
<1>5. f = F(f)
  <2> HIDE DEF N
  <2>1. f = [k \in 0..N |-> f[k]]
    OBVIOUS
  <2>2. ASSUME NEW k \in 0..N PROVE f[k] = F(f)[k]
    <3>1. k = 0 \/ k \in 1..N
      BY <1>1
    <3> QED BY <1>4, <3>1
  <2>3. F(f) = [k \in 0..N |-> F(f)[k]]
    OBVIOUS
  <2> HIDE DEF F
  <2> QED BY <2>1, <2>2, <2>3
<1> DEFINE u == CHOOSE h : h = F(h)
<1>6. u = F(u)
  <2> HIDE DEF F
  <2> QED BY <1>5
<1>7. joinLines(ls, e) = u[N]
  BY DEF joinLines
<1>8. /\ u[0] = <<>>
      /\ \A k \in 1..N : u[k] = IF k = 1 THEN ls[1] ELSE u[k - 1] \o e \o ls[k]
  <2> HIDE DEF u, N
  <2>1. 0 \in 0..N /\ \A k \in 1..N : k \in 0..N /\ k # 0
    BY <1>1
  <2>2. \A k \in 0..N : u[k] = IF k = 0 THEN <<>> ELSE
                               IF k = 1 THEN ls[k] ELSE u[k - 1] \o e \o ls[k]
    BY <1>6
  <2> QED BY <2>1, <2>2
<1>9. \A k \in 0..N : u[k] = f[k]
  <2> HIDE DEF u, N
  <2>1. u[0] = f[0]
    BY <1>4, <1>8
  <2>2. ASSUME NEW k \in 1..N, u[k - 1] = f[k - 1] PROVE u[k] = f[k]
    BY <2>2, <1>4, <1>8
  <2>3. SameSteps(u, f, N)
    BY <2>1, <2>2 DEF SameSteps
  <2> QED BY <1>1, <2>3, RecursionIsUnique
<1>10. joinLines(ls, e) = f[N]
  <2> HIDE DEF u, N
  <2>1. N \in 0..N
    BY <1>1
  <2> QED BY <1>7, <1>9, <2>1
<1> HIDE DEF u, F, step
<1> QED BY <1>4, <1>10 DEF JoinSteps

\* No line, one line, one line more.
LEMMA JoinOfNone == ASSUME NEW B, NEW e \in Seq(B) PROVE joinLines(<<>>, e) = <<>>
<1>1. <<>> \in Seq(Seq(B)) /\ Len(<<>>) = 0
  OBVIOUS
<1>2. PICK f \in [0..Len(<<>>) -> Seq(B)] : JoinSteps(f, <<>>, e)
  BY <1>1, JoinIsDefined
<1> QED BY <1>1, <1>2 DEF JoinSteps

LEMMA JoinOfOne ==
    ASSUME NEW B, NEW x \in Seq(B), NEW e \in Seq(B) PROVE joinLines(<<x>>, e) = x
<1>1. <<x>> \in Seq(Seq(B)) /\ Len(<<x>>) = 1 /\ <<x>>[1] = x
  OBVIOUS
<1> DEFINE ls == <<x>>
<1>2. ls \in Seq(Seq(B)) /\ Len(ls) = 1 /\ ls[1] = x
  BY <1>1
<1> HIDE DEF ls
<1>3. joinLines(ls, e) = x
  <2>1. PICK f \in [0..Len(ls) -> Seq(B)] : JoinSteps(f, ls, e)
    BY <1>2, JoinIsDefined
  <2> QED BY <1>2, <2>1 DEF JoinSteps
<1> QED BY <1>3 DEF ls

LEMMA JoinOfAppend ==
    ASSUME NEW B, NEW ls \in Seq(Seq(B)), ls # <<>>, NEW x \in Seq(B), NEW e \in Seq(B)
    PROVE  joinLines(Append(ls, x), e) = joinLines(ls, e) \o e \o x
<1> DEFINE ms == Append(ls, x)
           n == Len(ls)
<1>1. /\ ms \in Seq(Seq(B)) /\ Len(ms) = n + 1 /\ Len(ls) = n /\ n \in Nat /\ n > 0
      /\ ms[n + 1] = x /\ \A k \in 1..n : ms[k] = ls[k]
  OBVIOUS
<1> HIDE DEF ms
<1>2. PICK f \in [0..n -> Seq(B)] : JoinSteps(f, ls, e)
  BY JoinIsDefined
<1>3. PICK g \in [0..(n + 1) -> Seq(B)] : JoinSteps(g, ms, e)
  BY <1>1, JoinIsDefined
<1>4. SameSteps(g, f, n)
  BY <1>1, <1>2, <1>3 DEF SameSteps, JoinSteps
<1>5. g[n] = f[n]
  <2>1. n \in Nat /\ n \in 0..n
    BY <1>1
  <2>2. \A i \in 0..n : g[i] = f[i]
    BY <1>4, <2>1, RecursionIsUnique
  <2> QED BY <2>1, <2>2
<1>6. joinLines(ls, e) = f[n] /\ joinLines(ms, e) = g[n + 1] /\ g[n + 1] = g[n] \o e \o x
  <2>1. joinLines(ls, e) = f[n] /\ joinLines(ms, e) = g[n + 1]
    BY <1>1, <1>2, <1>3 DEF JoinSteps
  <2>2. n + 1 \in 1..Len(ms) /\ n + 1 # 1 /\ (n + 1) - 1 = n
    BY <1>1
  <2>3. g[n + 1] = g[(n + 1) - 1] \o e \o ms[n + 1]
    BY <1>3, <2>2 DEF JoinSteps
  <2> QED BY <1>1, <2>1, <2>2, <2>3
<1> QED BY <1>5, <1>6 DEF ms

\* What joinLines returns is a text.
LEMMA JoinIsText ==
    ASSUME NEW B, NEW ls \in Seq(Seq(B)), NEW e \in Seq(B) PROVE joinLines(ls, e) \in Seq(B)
<1>1. PICK f \in [0..Len(ls) -> Seq(B)] : joinLines(ls, e) = f[Len(ls)]
  BY JoinIsDefined DEF JoinSteps
<1>2. Len(ls) \in 0..Len(ls)
  OBVIOUS
<1> QED BY <1>1, <1>2

---------------------------------------------------------------------------
(* Splitting at a separator *)

\* A byte more: a new piece, or the last one gets longer.
NextPieces(ps, b, sep) ==
    IF b = sep THEN Append(ps, <<>>) ELSE Append(Front(ps), Append(Last(ps), b))

LEMMA FrontAndLast ==
    ASSUME NEW T, NEW ls \in Seq(T), ls # <<>>
    PROVE  Front(ls) \in Seq(T) /\ Last(ls) \in T /\ ls = Append(Front(ls), Last(ls))
           /\ Len(Front(ls)) = Len(ls) - 1
<1> DEFINE n == Len(ls)
           r == SubSeq(ls, 1, n - 1)
<1>1. n \in Nat /\ n > 0 /\ \A i \in 1..n : ls[i] \in T
  OBVIOUS
<1>2. r \in Seq(T) /\ Len(r) = n - 1 /\ \A i \in 1..(n - 1) : r[i] = ls[i]
  <2> HIDE DEF n
  <2>1. /\ r \in Seq(T) /\ Len(r) = (IF 1 <= n - 1 THEN (n - 1) - 1 + 1 ELSE 0)
        /\ \A i \in 1..((n - 1) - 1 + 1) : r[i] = ls[1 + i - 1]
    BY <1>1, SubSeqProperties
  <2> QED BY <1>1, <2>1
<1>3. ls[n] \in T
  BY <1>1
<1> DEFINE q == Append(r, ls[n])
<1>4. q = ls
  <2>1. q \in Seq(T) /\ Len(q) = n /\ \A i \in 1..n : q[i] = ls[i]
    <3> HIDE DEF r, n
    <3> QED BY <1>1, <1>2, <1>3, AppendProperties
  <2> HIDE DEF q
  <2> QED BY <2>1, SeqEqual
<1> QED BY <1>2, <1>3, <1>4 DEF Front, Last

LEMMA ConcatAppend ==
    ASSUME NEW T, NEW s \in Seq(T), NEW r \in Seq(T), NEW b \in T
    PROVE  s \o Append(r, b) = Append(s \o r, b)
<1>1. Append(r, b) = r \o <<b>> /\ <<b>> \in Seq(T) /\ s \o r \in Seq(T)
  BY AppendIsConcat, ConcatProperties
<1>2. s \o (r \o <<b>>) = (s \o r) \o <<b>>
  BY <1>1, ConcatAssociative
<1>3. Append(s \o r, b) = (s \o r) \o <<b>>
  BY <1>1, AppendIsConcat
<1> QED BY <1>1, <1>2, <1>3

LEMMA NextPiecesType ==
    ASSUME NEW B, NEW ps \in Seq(Seq(B)) \ {<<>>}, NEW b \in B, NEW sep
    PROVE  NextPieces(ps, b, sep) \in Seq(Seq(B)) \ {<<>>}
<1>1. Front(ps) \in Seq(Seq(B)) /\ Last(ps) \in Seq(B)
  BY FrontAndLast
<1>2. <<>> \in Seq(B) /\ Append(Last(ps), b) \in Seq(B)
  BY <1>1
<1>3. ASSUME NEW r \in Seq(Seq(B)), NEW x \in Seq(B)
      PROVE  Append(r, x) \in Seq(Seq(B)) \ {<<>>}
  <2> DEFINE T == Seq(B)
  <2>1. r \in Seq(T) /\ x \in T
    OBVIOUS
  <2>2. Append(r, x) \in Seq(T) /\ Append(r, x) # <<>>
    <3> HIDE DEF T
    <3> QED BY <2>1, AppendProperties
  <2> QED BY <2>2
<1>4. Append(Front(ps), Append(Last(ps), b)) \in Seq(Seq(B)) \ {<<>>}
  BY <1>1, <1>2, <1>3
<1>5. Append(ps, <<>>) \in Seq(Seq(B)) \ {<<>>}
  BY <1>2, <1>3
<1> QED BY <1>4, <1>5 DEF NextPieces

\* What Pieces computes: f[i] is the result for the first i bytes.
PiecesSteps(f, s, sep) ==
    /\ f[0] = <<<<>>>>
    /\ \A i \in 1..Len(s) : f[i] = NextPieces(f[i - 1], s[i], sep)
    /\ Pieces(s, sep) = f[Len(s)]

LEMMA PiecesIsDefined ==
    ASSUME NEW B, NEW s \in Seq(B), NEW sep
    PROVE  \E f \in [0..Len(s) -> (Seq(Seq(B)) \ {<<>>})] : PiecesSteps(f, s, sep)
<1> DEFINE N == Len(s)
           T == (Seq(Seq(B)) \ {<<>>})
           F(f) == [i \in 0..N |-> IF i = 0 THEN <<<<>>>>
                          ELSE LET ps == f[i - 1]
                               IN IF s[i] = sep THEN Append(ps, <<>>)
                                  ELSE Append(Front(ps), Append(Last(ps), s[i]))]
           step == [i \in 1..N |-> [v \in T |-> NextPieces(v, s[i], sep)]]
<1>1. N \in Nat
  OBVIOUS
<1>2. step \in [1..N -> [T -> T]]
  <2>1. ASSUME NEW i \in 1..N, NEW v \in T PROVE NextPieces(v, s[i], sep) \in T
    <3>1. s[i] \in B
      OBVIOUS
    <3> QED BY <3>1, NextPiecesType
  <2> HIDE DEF T
  <2> QED BY <2>1
<1>3. PICK f \in [0..N -> T] : Follows(f, N, <<<<>>>>, step)
  <2>1. <<<<>>>> \in T
    OBVIOUS
  <2> HIDE DEF step, N, T
  <2> QED BY <1>1, <1>2, <2>1, RecursionIsDefined
<1>4. /\ f[0] = <<<<>>>>
      /\ \A i \in 1..N : f[i] = NextPieces(f[i - 1], s[i], sep)
  <2>1. f[0] = <<<<>>>>
    BY <1>3 DEF Follows
  <2>2. ASSUME NEW i \in 1..N PROVE f[i] = NextPieces(f[i - 1], s[i], sep)
    <3>1. f[i] = step[i][f[i - 1]]
      BY <1>3 DEF Follows
    <3>2. f[i - 1] \in T
      <4>1. i - 1 \in 0..N
        BY <1>1
      <4> HIDE DEF N, T
      <4> QED BY <4>1
    <3> HIDE DEF T
    <3> QED BY <3>1, <3>2
  <2> QED BY <2>1, <2>2
<1>5. f = F(f)
  <2> HIDE DEF N, T
  <2>1. f = [i \in 0..N |-> f[i]]
    OBVIOUS
  <2>2. ASSUME NEW i \in 0..N PROVE f[i] = F(f)[i]
    <3>1. i = 0 \/ i \in 1..N
      BY <1>1
    <3> QED BY <1>4, <3>1 DEF NextPieces
  <2>3. F(f) = [i \in 0..N |-> F(f)[i]]
    OBVIOUS
  <2> HIDE DEF F
  <2> QED BY <2>1, <2>2, <2>3
<1> DEFINE u == CHOOSE h : h = F(h)
<1>6. u = F(u)
  <2> HIDE DEF F
  <2> QED BY <1>5
<1>7. Pieces(s, sep) = u[N]
  BY DEF Pieces
<1>8. /\ u[0] = <<<<>>>>
      /\ \A i \in 1..N : u[i] = NextPieces(u[i - 1], s[i], sep)
  <2> HIDE DEF u, N
  <2>1. 0 \in 0..N /\ \A i \in 1..N : i \in 0..N /\ i # 0
    BY <1>1
  <2>2. \A i \in 0..N : u[i] = F(u)[i]
    BY <1>6
  <2> QED BY <2>1, <2>2 DEF NextPieces
<1>9. \A i \in 0..N : u[i] = f[i]
  <2> HIDE DEF u, N
  <2>1. SameSteps(u, f, N)
    BY <1>4, <1>8 DEF SameSteps
  <2> QED BY <1>1, <2>1, RecursionIsUnique
<1>10. Pieces(s, sep) = f[N]
  <2> HIDE DEF u, N
  <2>1. N \in 0..N
    BY <1>1
  <2> QED BY <1>7, <1>9, <2>1
<1> HIDE DEF u, F, step
<1> QED BY <1>4, <1>10 DEF PiecesSteps

LEMMA PiecesType ==
    ASSUME NEW B, NEW s \in Seq(B), NEW sep PROVE Pieces(s, sep) \in (Seq(Seq(B)) \ {<<>>})
<1>1. PICK f \in [0..Len(s) -> (Seq(Seq(B)) \ {<<>>})] : PiecesSteps(f, s, sep)
  BY PiecesIsDefined
<1>2. Len(s) \in 0..Len(s)
  OBVIOUS
<1> DEFINE T == (Seq(Seq(B)) \ {<<>>})
<1> HIDE DEF T
<1>3. f \in [0..Len(s) -> T] => f[Len(s)] \in T
  BY <1>2
<1> QED BY <1>1, <1>3 DEF PiecesSteps, T

LEMMA PiecesOfNone == ASSUME NEW sep PROVE Pieces(<<>>, sep) = <<<<>>>>
<1>1. <<>> \in Seq({}) /\ Len(<<>>) = 0
  OBVIOUS
<1>2. PICK f \in [0..Len(<<>>) -> (Seq(Seq({})) \ {<<>>})] : PiecesSteps(f, <<>>, sep)
  BY <1>1, PiecesIsDefined
<1> QED BY <1>1, <1>2 DEF PiecesSteps

LEMMA PiecesOfAppend ==
    ASSUME NEW B, NEW s \in Seq(B), NEW b \in B, NEW sep
    PROVE  Pieces(Append(s, b), sep) = NextPieces(Pieces(s, sep), b, sep)
<1> DEFINE r == Append(s, b)
           n == Len(s)
           T == (Seq(Seq(B)) \ {<<>>})
<1>1. /\ r \in Seq(B) /\ Len(r) = n + 1 /\ Len(s) = n /\ n \in Nat
      /\ r[n + 1] = b /\ \A k \in 1..n : r[k] = s[k]
  OBVIOUS
<1> HIDE DEF r
<1>2. PICK f \in [0..n -> T] : PiecesSteps(f, s, sep)
  BY PiecesIsDefined
<1> HIDE DEF n
<1>3. PICK g \in [0..(n + 1) -> T] : PiecesSteps(g, r, sep)
  BY <1>1, PiecesIsDefined
<1> HIDE DEF T
<1>4. SameSteps(g, f, n)
  BY <1>1, <1>2, <1>3 DEF SameSteps, PiecesSteps
<1>5. g[n] = f[n]
  <2>1. n \in Nat /\ n \in 0..n
    BY <1>1
  <2>2. \A i \in 0..n : g[i] = f[i]
    BY <1>4, <2>1, RecursionIsUnique
  <2> QED BY <2>1, <2>2
<1>6. Pieces(s, sep) = f[n] /\ Pieces(r, sep) = g[n + 1] /\ g[n + 1] = NextPieces(g[n], b, sep)
  <2>1. Pieces(s, sep) = f[n] /\ Pieces(r, sep) = g[n + 1]
    BY <1>1, <1>2, <1>3 DEF PiecesSteps
  <2>2. n + 1 \in 1..Len(r) /\ (n + 1) - 1 = n
    BY <1>1
  <2>3. g[n + 1] = NextPieces(g[(n + 1) - 1], r[n + 1], sep)
    BY <1>3, <2>2 DEF PiecesSteps
  <2> QED BY <1>1, <2>1, <2>2, <2>3
<1> QED BY <1>5, <1>6 DEF r

---------------------------------------------------------------------------
(* The number that digits spell *)

NextNumber(n, d) == IF d \in Digit THEN 10 * n + DigitValue[d] ELSE n

LEMMA DigitValueType == \A d \in Digit : DigitValue[d] \in 0..9
BY DEF Digit, DigitValue

LEMMA NextNumberType == ASSUME NEW n \in Nat, NEW d PROVE NextNumber(n, d) \in Nat
BY DigitValueType DEF NextNumber

\* What Number computes: f[i] is the result for the first i bytes.
NumberSteps(f, s) ==
    /\ f[0] = 0
    /\ \A i \in 1..Len(s) : f[i] = NextNumber(f[i - 1], s[i])
    /\ Number(s) = f[Len(s)]

LEMMA NumberIsDefined ==
    ASSUME NEW B, NEW s \in Seq(B)
    PROVE  \E f \in [0..Len(s) -> Nat] : NumberSteps(f, s)
<1> DEFINE N == Len(s)
           T == Nat
           F(f) == [i \in 0..N |-> IF i = 0 THEN 0
                          ELSE IF s[i] \in Digit THEN 10 * f[i - 1] + DigitValue[s[i]]
                               ELSE f[i - 1]]
           step == [i \in 1..N |-> [v \in T |-> NextNumber(v, s[i])]]
<1>1. N \in Nat
  OBVIOUS
<1>2. step \in [1..N -> [T -> T]]
  <2>1. ASSUME NEW i \in 1..N, NEW v \in T PROVE NextNumber(v, s[i]) \in T
    <3>1. s[i] \in B
      OBVIOUS
    <3> QED BY <3>1, NextNumberType
  <2> HIDE DEF T
  <2> QED BY <2>1
<1>3. PICK f \in [0..N -> T] : Follows(f, N, 0, step)
  <2>1. 0 \in T
    OBVIOUS
  <2> HIDE DEF step, N, T
  <2> QED BY <1>1, <1>2, <2>1, RecursionIsDefined
<1>4. /\ f[0] = 0
      /\ \A i \in 1..N : f[i] = NextNumber(f[i - 1], s[i])
  <2>1. f[0] = 0
    BY <1>3 DEF Follows
  <2>2. ASSUME NEW i \in 1..N PROVE f[i] = NextNumber(f[i - 1], s[i])
    <3>1. f[i] = step[i][f[i - 1]]
      BY <1>3 DEF Follows
    <3>2. f[i - 1] \in T
      <4>1. i - 1 \in 0..N
        BY <1>1
      <4> HIDE DEF N, T
      <4> QED BY <4>1
    <3> HIDE DEF T
    <3> QED BY <3>1, <3>2
  <2> QED BY <2>1, <2>2
<1>5. f = F(f)
  <2> HIDE DEF N, T
  <2>1. f = [i \in 0..N |-> f[i]]
    OBVIOUS
  <2>2. ASSUME NEW i \in 0..N PROVE f[i] = F(f)[i]
    <3>1. i = 0 \/ i \in 1..N
      BY <1>1
    <3> QED BY <1>4, <3>1 DEF NextNumber
  <2>3. F(f) = [i \in 0..N |-> F(f)[i]]
    OBVIOUS
  <2> HIDE DEF F
  <2> QED BY <2>1, <2>2, <2>3
<1> DEFINE u == CHOOSE h : h = F(h)
<1>6. u = F(u)
  <2> HIDE DEF F
  <2> QED BY <1>5
<1>7. Number(s) = u[N]
  BY DEF Number
<1>8. /\ u[0] = 0
      /\ \A i \in 1..N : u[i] = NextNumber(u[i - 1], s[i])
  <2> HIDE DEF u, N
  <2>1. 0 \in 0..N /\ \A i \in 1..N : i \in 0..N /\ i # 0
    BY <1>1
  <2>2. \A i \in 0..N : u[i] = F(u)[i]
    BY <1>6
  <2> QED BY <2>1, <2>2 DEF NextNumber
<1>9. \A i \in 0..N : u[i] = f[i]
  <2> HIDE DEF u, N
  <2>1. SameSteps(u, f, N)
    BY <1>4, <1>8 DEF SameSteps
  <2> QED BY <1>1, <2>1, RecursionIsUnique
<1>10. Number(s) = f[N]
  <2> HIDE DEF u, N
  <2>1. N \in 0..N
    BY <1>1
  <2> QED BY <1>7, <1>9, <2>1
<1> HIDE DEF u, F, step
<1> QED BY <1>4, <1>10 DEF NumberSteps

LEMMA NumberType ==
    ASSUME NEW B, NEW s \in Seq(B) PROVE Number(s) \in Nat
<1>1. PICK f \in [0..Len(s) -> Nat] : NumberSteps(f, s)
  BY NumberIsDefined
<1>2. Len(s) \in 0..Len(s)
  OBVIOUS
<1> DEFINE T == Nat
<1> HIDE DEF T
<1>3. f \in [0..Len(s) -> T] => f[Len(s)] \in T
  BY <1>2
<1> QED BY <1>1, <1>3 DEF NumberSteps, T

LEMMA NumberOfNone == Number(<<>>) = 0
<1>1. <<>> \in Seq({}) /\ Len(<<>>) = 0
  OBVIOUS
<1>2. PICK f \in [0..Len(<<>>) -> Nat] : NumberSteps(f, <<>>)
  BY <1>1, NumberIsDefined
<1> QED BY <1>1, <1>2 DEF NumberSteps

LEMMA NumberOfAppend ==
    ASSUME NEW B, NEW s \in Seq(B), NEW b \in B
    PROVE  Number(Append(s, b)) = NextNumber(Number(s), b)
<1> DEFINE r == Append(s, b)
           n == Len(s)
           T == Nat
<1>1. /\ r \in Seq(B) /\ Len(r) = n + 1 /\ Len(s) = n /\ n \in Nat
      /\ r[n + 1] = b /\ \A k \in 1..n : r[k] = s[k]
  OBVIOUS
<1> HIDE DEF r
<1>2. PICK f \in [0..n -> T] : NumberSteps(f, s)
  BY NumberIsDefined
<1> HIDE DEF n
<1>3. PICK g \in [0..(n + 1) -> T] : NumberSteps(g, r)
  BY <1>1, NumberIsDefined
<1> HIDE DEF T
<1>4. SameSteps(g, f, n)
  BY <1>1, <1>2, <1>3 DEF SameSteps, NumberSteps
<1>5. g[n] = f[n]
  <2>1. n \in Nat /\ n \in 0..n
    BY <1>1
  <2>2. \A i \in 0..n : g[i] = f[i]
    BY <1>4, <2>1, RecursionIsUnique
  <2> QED BY <2>1, <2>2
<1>6. Number(s) = f[n] /\ Number(r) = g[n + 1] /\ g[n + 1] = NextNumber(g[n], b)
  <2>1. Number(s) = f[n] /\ Number(r) = g[n + 1]
    BY <1>1, <1>2, <1>3 DEF NumberSteps
  <2>2. n + 1 \in 1..Len(r) /\ (n + 1) - 1 = n
    BY <1>1
  <2>3. g[n + 1] = NextNumber(g[(n + 1) - 1], r[n + 1])
    BY <1>3, <2>2 DEF NumberSteps
  <2> QED BY <1>1, <2>1, <2>2, <2>3
<1> QED BY <1>5, <1>6 DEF r

---------------------------------------------------------------------------
(* A file is its lines, joined *)

\* What may stand in a line, and the two line ends: LF after nothing or after CR.
FileByte == {"t", "p", CR, LF}
Byte == FileByte \cup {"m", "x"}
Prose == Byte \ {CR, LF}
Lines == Seq(Seq(Prose)) \ {<<>>}
Eol == {<<LF>>, <<CR, LF>>}
CROf(e) == IF e = <<LF>> THEN <<>> ELSE <<CR>>

LEMMA ByteFacts ==
    /\ CR \in Byte /\ LF \in Byte /\ CR # LF /\ CR \notin Prose /\ LF \notin Prose
    /\ Byte = Prose \cup {CR, LF} /\ "t" \in Prose /\ "m" \in Prose /\ "x" \in Prose
BY DEF Byte, FileByte, Prose, CR, LF

LEMMA EolFacts ==
    ASSUME NEW e \in Eol
    PROVE  /\ e \in Seq(Byte) /\ CROf(e) \in Seq(Byte) /\ CROf(e) \in Seq(Byte \ {LF})
           /\ e = CROf(e) \o <<LF>> /\ e # <<>> /\ Len(e) \in 1..2 /\ e[Len(e)] = LF
<1>1. CASE e = <<LF>>
  BY <1>1, ByteFacts DEF CROf
<1>2. CASE e = <<CR, LF>>
  <2>1. CROf(e) = <<CR>>
    <3>1. e # <<LF>>
      BY <1>2
    <3> QED BY <3>1 DEF CROf
  <2>2. <<CR>> \in Seq(Byte) /\ <<CR>> \in Seq(Byte \ {LF}) /\ <<CR, LF>> \in Seq(Byte)
    BY ByteFacts
  <2>3. <<CR, LF>> = <<CR>> \o <<LF>>
    <3>1. <<CR, LF>> = Append(<<CR>>, LF)
      OBVIOUS
    <3>2. <<CR>> \in Seq(Byte) /\ LF \in Byte
      BY ByteFacts
    <3>3. Append(<<CR>>, LF) = <<CR>> \o <<LF>>
      BY <3>2, AppendIsConcat
    <3> QED BY <3>1, <3>3
  <2>4. Len(<<CR, LF>>) = 2 /\ <<CR, LF>>[2] = LF /\ <<CR, LF>> # <<>>
    OBVIOUS
  <2> QED BY <1>2, <2>1, <2>2, <2>3, <2>4
<1> QED BY <1>1, <1>2 DEF Eol

\* Lines are texts.
LEMMA LineType ==
    /\ \A x \in Seq(Prose) : x \in Seq(Byte)
    /\ \A ls \in Seq(Seq(Prose)) : ls \in Seq(Seq(Byte))
<1>1. \A x \in Seq(Prose) : x \in Seq(Byte)
  BY DEF Prose
<1>2. Seq(Prose) \subseteq Seq(Byte)
  BY <1>1
<1> DEFINE S == Seq(Prose)
           T == Seq(Byte)
<1>3. S \subseteq T
  BY <1>2
<1>4. \A ls \in Seq(S) : ls \in Seq(T)
  <2> HIDE DEF S, T
  <2> QED BY <1>3, SeqMonotonic
<1> QED BY <1>1, <1>4

LEMMA LinesParts ==
    ASSUME NEW ls \in Lines
    PROVE  /\ ls \in Seq(Seq(Prose)) /\ ls \in Seq(Seq(Byte)) /\ ls # <<>>
           /\ Front(ls) \in Seq(Seq(Prose)) /\ Front(ls) \in Seq(Seq(Byte))
           /\ Last(ls) \in Seq(Prose) /\ Last(ls) \in Seq(Byte)
           /\ ls = Append(Front(ls), Last(ls)) /\ Len(Front(ls)) = Len(ls) - 1
           /\ Len(ls) \in Nat /\ Len(ls) > 0
<1>1. ls \in Seq(Seq(Prose)) /\ ls # <<>>
  BY DEF Lines
<1> DEFINE S == Seq(Prose)
<1>2. ls \in Seq(S) /\ ls # <<>>
  BY <1>1
<1>3. /\ Front(ls) \in Seq(S) /\ Last(ls) \in S /\ ls = Append(Front(ls), Last(ls))
      /\ Len(Front(ls)) = Len(ls) - 1 /\ Len(ls) \in Nat /\ Len(ls) > 0
  <2> HIDE DEF S
  <2>1. Len(ls) \in Nat /\ Len(ls) > 0
    BY <1>2
  <2> QED BY <1>2, <2>1, FrontAndLast
<1> QED BY <1>1, <1>3, LineType

LEMMA MoreLines ==
    ASSUME NEW ls \in Seq(Seq(Prose)), NEW x \in Seq(Prose)
    PROVE  /\ Append(ls, x) \in Lines /\ Len(Append(ls, x)) = Len(ls) + 1
           /\ Last(Append(ls, x)) = x /\ Front(Append(ls, x)) = ls
<1> DEFINE S == Seq(Prose)
           r == Append(ls, x)
<1>1. ls \in Seq(S) /\ x \in S
  OBVIOUS
<1>2. /\ r \in Seq(S) /\ r # <<>> /\ Len(r) = Len(ls) + 1 /\ r[Len(ls) + 1] = x
      /\ Len(ls) \in Nat /\ \A i \in 1..Len(ls) : r[i] = ls[i]
  <2> HIDE DEF S
  <2> QED BY <1>1, AppendProperties
<1>3. Last(r) = x
  <2> HIDE DEF r
  <2> QED BY <1>2 DEF Last
<1>4. r = Append(Front(r), Last(r)) /\ Front(r) \in Seq(S) /\ Last(r) \in S
  <2> HIDE DEF S, r
  <2> QED BY <1>2, FrontAndLast
<1>5. Front(r) = ls
  <2> HIDE DEF S
  <2> QED BY <1>1, <1>3, <1>4, AppendInjective
<1> QED BY <1>2, <1>3, <1>5 DEF Lines

\* What a joined text ends in.
LEMMA JoinEnds ==
    ASSUME NEW ls \in Lines, NEW e \in Eol
    PROVE  /\ joinLines(ls, e) \in Seq(Byte)
           /\ Front(ls) = <<>> => joinLines(ls, e) = Last(ls)
           /\ Front(ls) # <<>> => /\ Front(ls) \in Lines
                                  /\ joinLines(ls, e) = joinLines(Front(ls), e) \o e \o Last(ls)
<1> DEFINE F == Front(ls)
           l == Last(ls)
<1>1. /\ ls = Append(F, l) /\ F \in Seq(Seq(Byte)) /\ l \in Seq(Byte) /\ ls \in Seq(Seq(Byte))
      /\ F \in Seq(Seq(Prose)) /\ e \in Seq(Byte)
  BY LinesParts, EolFacts
<1>2. joinLines(ls, e) \in Seq(Byte)
  BY <1>1, JoinIsText
<1>3. ASSUME F = <<>> PROVE joinLines(ls, e) = l
  <2> HIDE DEF F, l
  <2>1. ls = <<l>>
    BY <1>1, <1>3
  <2> QED BY <1>1, <2>1, JoinOfOne
<1>4. ASSUME F # <<>> PROVE F \in Lines /\ joinLines(ls, e) = joinLines(F, e) \o e \o l
  <2> HIDE DEF F, l
  <2> QED BY <1>1, <1>4, JoinOfAppend DEF Lines
<1> QED BY <1>2, <1>3, <1>4

\* A byte more makes the last line longer; a line end more begins an empty line.
LEMMA JoinGrows ==
    ASSUME NEW ls \in Lines, NEW e \in Eol, NEW b \in Prose
    PROVE  \E ms \in Lines : joinLines(ms, e) = Append(joinLines(ls, e), b)
<1> DEFINE F == Front(ls)
           l == Last(ls)
           m == Append(l, b)
           ms == Append(F, m)
           s == joinLines(ls, e)
<1>1. /\ F \in Seq(Seq(Prose)) /\ l \in Seq(Prose) /\ l \in Seq(Byte) /\ b \in Byte
      /\ e \in Seq(Byte)
  BY LinesParts, EolFacts, ByteFacts
<1>2. m \in Seq(Prose) /\ m \in Seq(Byte)
  BY <1>1
<1>3. ms \in Lines /\ Front(ms) = F /\ Last(ms) = m
  BY <1>1, <1>2, MoreLines
<1>4. CASE F = <<>>
  BY <1>3, <1>4, JoinEnds
<1>5. CASE F # <<>>
  <2>1. F \in Lines /\ s = joinLines(F, e) \o e \o l /\ joinLines(ms, e) = joinLines(F, e) \o e \o m
    <3> HIDE DEF ms, m
    <3> QED BY <1>3, <1>5, JoinEnds
  <2>2. joinLines(F, e) \in Seq(Byte)
    <3> HIDE DEF F
    <3> QED BY <2>1, JoinEnds
  <2>3. joinLines(F, e) \o e \in Seq(Byte)
    BY <1>1, <2>2, ConcatProperties
  <2>4. \A r \in Seq(Byte) : r \o Append(l, b) = Append(r \o l, b)
    BY <1>1
  <2> QED BY <1>3, <2>1, <2>3, <2>4
<1> QED BY <1>4, <1>5

LEMMA JoinBreaks ==
    ASSUME NEW ls \in Lines, NEW e \in Eol
    PROVE  \E ms \in Lines : joinLines(ms, e) = joinLines(ls, e) \o e
<1> DEFINE ms == Append(ls, <<>>)
<1>1. ls \in Seq(Seq(Prose)) /\ ls # <<>> /\ <<>> \in Seq(Prose)
  BY LinesParts
<1>2. ms \in Lines /\ Front(ms) = ls /\ Last(ms) = <<>>
  BY <1>1, MoreLines
<1>3. joinLines(ms, e) = joinLines(ls, e) \o e \o <<>>
  <2> HIDE DEF ms
  <2> QED BY <1>1, <1>2, JoinEnds
<1>4. joinLines(ls, e) \o e \in Seq(Byte)
  BY JoinEnds, EolFacts, ConcatProperties
<1> QED BY <1>2, <1>3, <1>4, ConcatEmptySeq

\* Line ends of one sort: every LF is the end of an e, and every CR too, except
\* perhaps a CR at the very end.
Even(s, e) ==
    \A i \in 1..Len(s) :
        /\ s[i] = LF /\ e = <<CR, LF>> => i > 1 /\ s[i - 1] = CR
        /\ s[i] = CR => e = <<CR, LF>> /\ (i < Len(s) => s[i + 1] = LF)

\* Such a text is lines, joined, and perhaps half of a line end.
Written(s, e) ==
    \E ls \in Lines : s = joinLines(ls, e) \/ (e = <<CR, LF>> /\ s = joinLines(ls, e) \o <<CR>>)

\* The last byte of joined lines.
LEMMA JoinEndsIn ==
    ASSUME NEW ls \in Lines, NEW e \in Eol, NEW s, s = joinLines(ls, e)
    PROVE  /\ Last(ls) # <<>> => s # <<>> /\ s[Len(s)] \in Prose
           /\ Last(ls) = <<>> /\ Front(ls) # <<>> => s # <<>> /\ s[Len(s)] = LF
           /\ Last(ls) = <<>> /\ Front(ls) = <<>> => s = <<>>
<1> DEFINE F == Front(ls)
           l == Last(ls)
<1>1. l \in Seq(Prose) /\ l \in Seq(Byte) /\ e \in Seq(Byte) /\ e # <<>> /\ e[Len(e)] = LF
  BY LinesParts, EolFacts
<1>2. CASE F = <<>>
  <2>1. s = l
    BY <1>2, JoinEnds
  <2> QED BY <1>1, <1>2, <2>1
<1>3. CASE F # <<>>
  <2>1. F \in Lines /\ s = joinLines(F, e) \o e \o l
    BY <1>3, JoinEnds
  <2> DEFINE r == joinLines(F, e)
  <2>2. r \in Seq(Byte)
    BY <2>1, JoinEnds
  <2>3. s = r \o e \o l
    BY <2>1
  <2> HIDE DEF r, l
  <2>4. ASSUME l # <<>> PROVE s # <<>> /\ s[Len(s)] = l[Len(l)] /\ l[Len(l)] \in Prose
    BY <1>1, <2>2, <2>3, <2>4
  <2>5. ASSUME l = <<>> PROVE s # <<>> /\ s[Len(s)] = LF
    BY <1>1, <2>2, <2>3, <2>5
  <2> QED BY <1>3, <2>4, <2>5 DEF l
<1> QED BY <1>2, <1>3

\* One byte more of an even text.
LEMMA EvenIsWritten ==
    ASSUME NEW e \in Eol, NEW s \in Seq(FileByte), Even(s, e)
    PROVE  Written(s, e)
<1> DEFINE P == {r \in Seq(FileByte) : Even(r, e) => Written(r, e)}
<1>1. <<>> \in P
  <2> DEFINE ms == <<<<>>>>
  <2>1. ms \in Lines /\ joinLines(ms, e) = <<>>
    <3>1. <<>> \in Seq(Seq(Prose)) /\ <<>> \in Seq(Prose) /\ <<>> \in Seq(Byte)
      OBVIOUS
    <3>2. ms = Append(<<>>, <<>>)
      OBVIOUS
    <3>3. ms \in Lines
      BY <3>1, <3>2, MoreLines
    <3>4. joinLines(ms, e) = <<>>
      BY <3>1, EolFacts, JoinOfOne
    <3> QED BY <3>3, <3>4
  <2> QED BY <2>1 DEF Written
<1>2. ASSUME NEW r \in P, NEW b \in FileByte PROVE Append(r, b) \in P
  <2> DEFINE q == Append(r, b)
  <2>1. /\ r \in Seq(FileByte) /\ q \in Seq(FileByte) /\ Len(q) = Len(r) + 1 /\ q[Len(r) + 1] = b
        /\ \A i \in 1..Len(r) : q[i] = r[i]
    OBVIOUS
  <2> SUFFICES ASSUME Even(q, e) PROVE Written(q, e)
    BY <2>1
  <2>2. Even(r, e)
    <3> HIDE DEF q
    <3> SUFFICES ASSUME NEW i \in 1..Len(r)
                 PROVE  /\ r[i] = LF /\ e = <<CR, LF>> => i > 1 /\ r[i - 1] = CR
                        /\ r[i] = CR => e = <<CR, LF>> /\ (i < Len(r) => r[i + 1] = LF)
      BY DEF Even
    <3>1. i \in 1..Len(q) /\ q[i] = r[i] /\ Len(r) \in Nat
      BY <2>1
    <3>2. /\ q[i] = LF /\ e = <<CR, LF>> => i > 1 /\ q[i - 1] = CR
          /\ q[i] = CR => e = <<CR, LF>> /\ (i < Len(q) => q[i + 1] = LF)
      BY <3>1 DEF Even
    <3>3. i > 1 => q[i - 1] = r[i - 1]
      BY <2>1, <3>1
    <3>4. i < Len(r) => q[i + 1] = r[i + 1]
      BY <2>1, <3>1
    <3> QED BY <2>1, <3>1, <3>2, <3>3, <3>4
  <2>3. PICK ls \in Lines : \/ r = joinLines(ls, e)
                            \/ e = <<CR, LF>> /\ r = joinLines(ls, e) \o <<CR>>
    BY <2>2 DEF Written
  <2> DEFINE j == joinLines(ls, e)
  <2>4. j \in Seq(Byte) /\ e \in Seq(Byte)
    BY JoinEnds, EolFacts
  <2>5. /\ b = LF /\ e = <<CR, LF>> => Len(r) + 1 > 1 /\ q[Len(r)] = CR
        /\ b = CR => e = <<CR, LF>>
    <3> HIDE DEF q
    <3>1. Len(r) + 1 \in 1..Len(q) /\ Len(r) \in Nat /\ (Len(r) + 1) - 1 = Len(r)
      BY <2>1
    <3> QED BY <2>1, <3>1 DEF Even
  <2>6. CASE r = j
    <3>1. CASE b \in Prose
      BY <2>6, <3>1, JoinGrows DEF Written
    <3>2. CASE b = CR
      BY <2>1, <2>4, <2>5, <2>6, <3>2 DEF Written
    <3>3. CASE b = LF
      <4>1. CASE e = <<LF>>
        <5>1. q = j \o e
          BY <2>4, <2>6, <3>3, <4>1
        <5> QED BY <5>1, JoinBreaks DEF Written
      <4>2. CASE e = <<CR, LF>>
        <5>1. r # <<>> /\ r[Len(r)] = CR
          BY <2>1, <2>5, <3>3, <4>2
        <5>2. r = <<>> \/ r[Len(r)] \in Prose \/ r[Len(r)] = LF
          <6> HIDE DEF q
          <6> QED BY <2>6, JoinEndsIn
        <5> QED BY <5>1, <5>2, ByteFacts
      <4> QED BY <4>1, <4>2 DEF Eol
    <3> QED BY <3>1, <3>2, <3>3, ByteFacts DEF FileByte, Prose, Byte
  <2>7. CASE e = <<CR, LF>> /\ r = j \o <<CR>>
    <3>1. Len(r) = Len(j) + 1 /\ r[Len(r)] = CR /\ Len(r) \in 1..Len(q) /\ Len(r) < Len(q)
      BY <2>1, <2>4, <2>7
    <3>2. b = LF
      <4> HIDE DEF q, j
      <4> QED BY <2>1, <3>1 DEF Even
    <3>3. q = j \o e
      BY <2>4, <2>7, <3>2
    <3> QED BY <3>3, JoinBreaks DEF Written
  <2> QED BY <2>3, <2>6, <2>7
<1>3. P = Seq(FileByte)
  <2> HIDE DEF P
  <2>1. P \in SUBSET Seq(FileByte)
    BY DEF P
  <2> QED BY <1>1, <1>2, <2>1, AppendInduction
<1> QED BY <1>3

---------------------------------------------------------------------------
(* Splitting takes joined lines apart again *)

\* Bytes that are no separator make the last piece longer.
LEMMA PiecesGrow ==
    ASSUME NEW s \in Seq(Byte), NEW c \in Seq(Byte \ {LF})
    PROVE  /\ Pieces(s, LF) \in Seq(Seq(Byte)) \ {<<>>}
           /\ Pieces(s \o c, LF) = Append(Front(Pieces(s, LF)), Last(Pieces(s, LF)) \o c)
<1> DEFINE p == Pieces(s, LF)
           F == Front(p)
           l == Last(p)
           T == Byte \ {LF}
           P == {r \in Seq(T) : Pieces(s \o r, LF) = Append(F, l \o r)}
<1>1. p \in Seq(Seq(Byte)) \ {<<>>}
  BY PiecesType
<1>2. F \in Seq(Seq(Byte)) /\ l \in Seq(Byte) /\ p = Append(F, l)
  <2> HIDE DEF p
  <2> QED BY <1>1, FrontAndLast
<1> HIDE DEF F, l
<1>3. <<>> \in P
  BY <1>2
<1>4. ASSUME NEW r \in P, NEW b \in T PROVE Append(r, b) \in P
  <2>1. r \in Seq(Byte) /\ b \in Byte /\ b # LF /\ Append(r, b) \in Seq(T)
    OBVIOUS
  <2>2. /\ s \o r \in Seq(Byte) /\ s \o Append(r, b) = Append(s \o r, b)
        /\ l \o r \in Seq(Byte) /\ l \o Append(r, b) = Append(l \o r, b)
    <3> HIDE DEF P, T
    <3>1. s \o r \in Seq(Byte) /\ l \o r \in Seq(Byte)
      BY <2>1, <1>2, ConcatProperties
    <3>2. s \o Append(r, b) = Append(s \o r, b)
      BY <2>1, ConcatAppend
    <3>3. l \o Append(r, b) = Append(l \o r, b)
      BY <2>1, <1>2, ConcatAppend
    <3> QED BY <3>1, <3>2, <3>3
  <2> DEFINE q == Pieces(s \o r, LF)
  <2>3. q = Append(F, l \o r)
    OBVIOUS
  <2>4. Pieces(Append(s \o r, b), LF) = Append(Front(q), Append(Last(q), b))
    <3>1. Pieces(Append(s \o r, b), LF) = NextPieces(q, b, LF)
      BY <2>1, <2>2, PiecesOfAppend
    <3> QED BY <3>1, <2>1 DEF NextPieces
  <2>5. Front(q) = F /\ Last(q) = l \o r
    <3>1. q \in Seq(Seq(Byte)) \ {<<>>}
      BY <2>2, PiecesType
    <3>2. Front(q) \in Seq(Seq(Byte)) /\ Last(q) \in Seq(Byte) /\ q = Append(Front(q), Last(q))
      <4> HIDE DEF q
      <4> QED BY <3>1, FrontAndLast
    <3> DEFINE S == Seq(Byte)
    <3>3. Front(q) \in Seq(S) /\ Last(q) \in S /\ F \in Seq(S) /\ l \o r \in S
      BY <3>2, <2>2, <1>2
    <3> HIDE DEF q, S
    <3> QED BY <3>2, <3>3, <2>3, AppendInjective
  <2> HIDE DEF q, T
  <2> QED BY <2>1, <2>2, <2>4, <2>5
<1>5. P = Seq(T)
  <2> HIDE DEF P, T
  <2>1. P \in SUBSET Seq(T)
    BY DEF P
  <2> QED BY <1>3, <1>4, <2>1, AppendInduction
<1>6. c \in P
  BY <1>5
<1> QED BY <1>1, <1>6 DEF F, l

\* The pieces of joined lines: each keeps the first byte of a line end of two.
Kept(ls, e) == [k \in 1..Len(ls) |-> IF k < Len(ls) THEN ls[k] \o CROf(e) ELSE ls[k]]
KeptAll(ls, e) == [k \in 1..Len(ls) |-> ls[k] \o CROf(e)]

LEMMA KeptType ==
    ASSUME NEW ls \in Seq(Seq(Prose)), NEW e \in Eol
    PROVE  Kept(ls, e) \in Seq(Seq(Byte)) /\ KeptAll(ls, e) \in Seq(Seq(Byte))
<1>1. ASSUME NEW k \in 1..Len(ls) PROVE ls[k] \in Seq(Byte) /\ ls[k] \o CROf(e) \in Seq(Byte)
  <2>1. ls[k] \in Seq(Byte)
    BY LineType
  <2> QED BY <2>1, EolFacts, ConcatProperties
<1> DEFINE T == Seq(Byte)
<1>2. \A k \in 1..Len(ls) : ls[k] \in T /\ ls[k] \o CROf(e) \in T
  BY <1>1
<1>3. Len(ls) \in Nat
  OBVIOUS
<1> HIDE DEF T
<1>4. Kept(ls, e) \in [1..Len(ls) -> T] /\ KeptAll(ls, e) \in [1..Len(ls) -> T]
  BY <1>2 DEF Kept, KeptAll
<1>5. Kept(ls, e) \in Seq(T) /\ KeptAll(ls, e) \in Seq(T)
  <2>1. \A n \in Nat : \A f \in [1..n -> T] : f \in Seq(T)
    OBVIOUS
  <2> QED BY <1>3, <1>4, <2>1
<1> QED BY <1>5 DEF T

\* The last line end is cut off by KeptAll, and a line more follows it.
LEMMA KeptParts ==
    ASSUME NEW ls \in Lines, NEW e \in Eol, NEW x \in Seq(Prose)
    PROVE  /\ KeptAll(ls, e) = Append(Front(Kept(ls, e)), Last(Kept(ls, e)) \o CROf(e))
           /\ Kept(Append(ls, x), e) = Append(KeptAll(ls, e), x)
<1> DEFINE S == Seq(Byte)
           n == Len(ls)
           K == Kept(ls, e)
           A == KeptAll(ls, e)
           ms == Append(ls, x)
<1>1. ls \in Seq(Seq(Prose)) /\ n \in Nat /\ n > 0
  BY LinesParts
<1>2. K \in Seq(S) /\ A \in Seq(S) /\ Len(K) = n /\ Len(A) = n
  BY <1>1, KeptType DEF Kept, KeptAll
<1>3. \A k \in 1..n : A[k] = ls[k] \o CROf(e)
  BY DEF KeptAll
<1>4. \A k \in 1..n : K[k] = IF k < n THEN ls[k] \o CROf(e) ELSE ls[k]
  BY DEF Kept
<1>5. Front(K) \in Seq(S) /\ Last(K) \in S /\ K = Append(Front(K), Last(K)) /\ Len(Front(K)) = n - 1
  <2> HIDE DEF K, S
  <2>1. K # <<>>
    BY <1>1, <1>2
  <2> QED BY <1>2, <2>1, FrontAndLast
<1>6. A = Append(Front(K), Last(K) \o CROf(e))
  <2>1. Last(K) = K[n] /\ Last(K) \o CROf(e) \in S
    BY <1>2, <1>5, EolFacts DEF Last
  <2> HIDE DEF K, A, S
  <2> DEFINE R == Append(Front(K), Last(K) \o CROf(e))
  <2>2. R \in Seq(S) /\ Len(R) = n /\ R[n] = Last(K) \o CROf(e)
        /\ \A k \in 1..(n - 1) : R[k] = Front(K)[k]
    BY <1>1, <1>5, <2>1, AppendProperties
  <2>3. \A k \in 1..(n - 1) : K[k] = Front(K)[k]
    <3>1. \A k \in 1..Len(Front(K)) : Append(Front(K), Last(K))[k] = Front(K)[k]
      BY <1>5, AppendProperties
    <3> QED BY <1>5, <3>1
  <2> HIDE DEF R
  <2>4. ASSUME NEW k \in 1..n PROVE R[k] = A[k]
    <3>1. CASE k = n
      <4>1. n \in 1..n /\ ~(n < n)
        BY <1>1
      <4>2. K[n] = ls[n]
        BY <1>4, <4>1
      <4>3. A[n] = ls[n] \o CROf(e)
        BY <1>3, <4>1
      <4> QED BY <2>1, <2>2, <3>1, <4>2, <4>3
    <3>2. CASE k # n
      <4>1. k \in 1..(n - 1) /\ k < n
        BY <1>1, <3>2
      <4> QED BY <1>3, <1>4, <2>2, <2>3, <4>1
    <3> QED BY <3>1, <3>2
  <2>5. R = A
    BY <1>2, <2>2, <2>4, SeqEqual
  <2> QED BY <2>5 DEF R
<1>7. Kept(ms, e) = Append(A, x)
  <2>1. /\ ms \in Seq(Seq(Prose)) /\ Len(ms) = n + 1 /\ ms[n + 1] = x
        /\ \A k \in 1..n : ms[k] = ls[k]
    BY <1>1
  <2> HIDE DEF ms
  <2>2. Kept(ms, e) \in Seq(S) /\ Len(Kept(ms, e)) = n + 1 /\ x \in S
    BY <1>1, <2>1, KeptType, LineType DEF Kept
  <2>3. \A k \in 1..(n + 1) : Kept(ms, e)[k] = IF k < n + 1 THEN ms[k] \o CROf(e) ELSE ms[k]
    BY <2>1 DEF Kept
  <2> DEFINE R == Append(A, x)
  <2> HIDE DEF A, S
  <2>4. R \in Seq(S) /\ Len(R) = n + 1 /\ R[n + 1] = x /\ \A k \in 1..n : R[k] = A[k]
    BY <1>2, <2>2, AppendProperties
  <2> HIDE DEF R
  <2>5. ASSUME NEW k \in 1..(n + 1) PROVE R[k] = Kept(ms, e)[k]
    <3>1. CASE k = n + 1
      BY <1>1, <2>1, <2>3, <2>4, <3>1
    <3>2. CASE k # n + 1
      <4>1. k \in 1..n /\ k < n + 1
        BY <1>1, <3>2
      <4>2. R[k] = ls[k] \o CROf(e)
        BY <1>3, <2>4, <4>1 DEF A
      <4> QED BY <2>1, <2>3, <4>1, <4>2
    <3> QED BY <3>1, <3>2
  <2>6. R = Kept(ms, e)
    BY <2>2, <2>4, <2>5, SeqEqual
  <2> QED BY <2>6 DEF R
<1> QED BY <1>6, <1>7

LEMMA PiecesOfJoin ==
    ASSUME NEW e \in Eol, NEW ls \in Lines
    PROVE  /\ Pieces(joinLines(ls, e), LF) = Kept(ls, e)
           /\ Pieces(joinLines(ls, e) \o CROf(e), LF) = KeptAll(ls, e)
<1> DEFINE S == Seq(Prose)
           J(r) == joinLines(r, e)
           P == {r \in Seq(S) : r # <<>> => Pieces(J(r), LF) = Kept(r, e)}
<1>1. ASSUME NEW r \in Lines, Pieces(J(r), LF) = Kept(r, e)
      PROVE  Pieces(J(r) \o CROf(e), LF) = KeptAll(r, e)
  <2>1. J(r) \in Seq(Byte)
    BY JoinEnds
  <2> HIDE DEF J
  <2>2. Pieces(J(r) \o CROf(e), LF) = Append(Front(Kept(r, e)), Last(Kept(r, e)) \o CROf(e))
    BY <1>1, <2>1, EolFacts, PiecesGrow
  <2>3. <<>> \in Seq(Prose)
    OBVIOUS
  <2> QED BY <2>2, <2>3, KeptParts
<1>2. <<>> \in P
  OBVIOUS
<1>3. ASSUME NEW r \in P, NEW x \in S PROVE Append(r, x) \in P
  <2> DEFINE q == Append(r, x)
  <2>1. q \in Seq(S) /\ q \in Lines /\ Front(q) = r /\ Last(q) = x /\ Len(q) = Len(r) + 1
    BY MoreLines DEF Lines
  <2>2. x \in Seq(Byte) /\ x \in Seq(Byte \ {LF})
    <3>1. \A i \in 1..Len(x) : x[i] \in Byte \ {LF}
      BY DEF Prose
    <3> QED BY <3>1
  <2> SUFFICES Pieces(J(q), LF) = Kept(q, e)
    BY <2>1
  <2>3. CASE r = <<>>
    <3>1. J(q) = x
      <4> HIDE DEF q
      <4> QED BY <2>1, <2>3, JoinEnds
    <3>2. Pieces(<<>> \o x, LF) = Append(Front(<<<<>>>>), Last(<<<<>>>>) \o x)
      <4>1. <<>> \in Seq(Byte)
        OBVIOUS
      <4> QED BY <2>2, <4>1, PiecesGrow, PiecesOfNone
    <3>3. Front(<<<<>>>>) = <<>> /\ Last(<<<<>>>>) = <<>>
      BY DEF Front, Last
    <3>4. Pieces(x, LF) = <<x>>
      <4>1. <<>> \o x = x
        BY <2>2, ConcatEmptySeq
      <4>2. Pieces(x, LF) = Append(<<>>, x)
        BY <3>2, <3>3, <4>1
      <4> QED BY <4>2
    <3>5. Kept(<<x>>, e) = <<x>>
      BY DEF Kept
    <3> QED BY <2>3, <3>1, <3>4, <3>5
  <2>4. CASE r # <<>>
    <3>1. r \in Lines /\ J(q) = J(r) \o e \o x
      <4> HIDE DEF q
      <4> QED BY <2>1, <2>4, JoinEnds
    <3> DEFINE c == CROf(e)
               s == J(r) \o c
    <3>2. J(r) \in Seq(Byte) /\ c \in Seq(Byte) /\ e = c \o <<LF>>
      BY <3>1, JoinEnds, EolFacts
    <3>3. s \in Seq(Byte) /\ J(q) = Append(s, LF) \o x /\ Append(s, LF) \in Seq(Byte)
      <4> DEFINE j == J(r)
      <4>1. j \in Seq(Byte) /\ J(q) = j \o (c \o <<LF>>) \o x
        BY <3>1, <3>2
      <4> HIDE DEF j, c, J
      <4>2. j \o (c \o <<LF>>) = Append(j \o c, LF)
        <5>1. <<LF>> = Append(<<>>, LF) /\ <<>> \in Seq(Byte) /\ c \o <<>> = c
          BY <3>2
        <5>2. c \o <<LF>> = Append(c, LF)
          BY <3>2, <5>1, ByteFacts, ConcatAppend
        <5>3. j \o Append(c, LF) = Append(j \o c, LF)
          <6>1. j \in Seq(Byte) /\ c \in Seq(Byte) /\ LF \in Byte
            BY <3>2, <4>1, ByteFacts
          <6> QED BY <6>1, ConcatAppend
        <5> QED BY <5>2, <5>3
      <4>3. j \o c \in Seq(Byte) /\ Append(j \o c, LF) \in Seq(Byte)
        BY <3>2, <4>1, ByteFacts
      <4> QED BY <4>1, <4>2, <4>3 DEF j
    <3>4. Pieces(s, LF) = KeptAll(r, e)
      <4>1. Pieces(J(r), LF) = Kept(r, e)
        BY <2>4
      <4> HIDE DEF J
      <4> QED BY <1>1, <3>1, <4>1
    <3> HIDE DEF s, c
    <3>5. Pieces(Append(s, LF), LF) = Append(KeptAll(r, e), <<>>)
      <4>1. Pieces(Append(s, LF), LF) = NextPieces(KeptAll(r, e), LF, LF)
        BY <3>3, <3>4, ByteFacts, PiecesOfAppend
      <4> QED BY <4>1 DEF NextPieces
    <3> DEFINE w == Append(KeptAll(r, e), <<>>)
               U == Seq(Byte)
    <3>6. Front(w) = KeptAll(r, e) /\ Last(w) = <<>>
      <4>1. KeptAll(r, e) \in Seq(U) /\ <<>> \in U
        BY <3>1, LinesParts, KeptType
      <4> HIDE DEF U
      <4>2. /\ w \in Seq(U) /\ w # <<>> /\ Len(w) = Len(KeptAll(r, e)) + 1
            /\ w[Len(KeptAll(r, e)) + 1] = <<>>
        BY <4>1, AppendProperties
      <4>3. Last(w) = <<>>
        <5> HIDE DEF w
        <5> QED BY <4>2 DEF Last
      <4>4. w = Append(Front(w), Last(w)) /\ Front(w) \in Seq(U) /\ Last(w) \in U
        <5> HIDE DEF w
        <5> QED BY <4>2, FrontAndLast
      <4>5. Front(w) = KeptAll(r, e)
        BY <4>1, <4>3, <4>4, AppendInjective
      <4> QED BY <4>3, <4>5
    <3>7. Pieces(Append(s, LF) \o x, LF) = Append(KeptAll(r, e), <<>> \o x)
      <4> HIDE DEF w
      <4>1. Pieces(Append(s, LF), LF) = w
        BY <3>5 DEF w
      <4> QED BY <2>2, <3>3, <3>6, <4>1, PiecesGrow
    <3>8. <<>> \o x = x
      BY <2>2, ConcatEmptySeq
    <3> QED BY <3>1, <3>3, <3>7, <3>8, KeptParts
  <2> QED BY <2>3, <2>4
<1>4. P = Seq(S)
  <2> HIDE DEF P, S
  <2>1. P \in SUBSET Seq(S)
    BY DEF P
  <2> QED BY <1>2, <1>3, <2>1, AppendInduction
<1>5. Pieces(J(ls), LF) = Kept(ls, e)
  <2>1. ls \in Seq(S) /\ ls # <<>>
    BY DEF Lines
  <2> QED BY <1>4, <2>1
<1> QED BY <1>1, <1>5

---------------------------------------------------------------------------
(* Marking, completing, deleting and appending *)

LEMMA StripTakesCR ==
    ASSUME NEW x \in Seq(Prose), NEW e \in Eol
    PROVE  stripTrailingCR(x) = x /\ stripTrailingCR(x \o CROf(e)) = x
<1>1. stripTrailingCR(x) = x
  BY ByteFacts DEF stripTrailingCR, EndsIn, Last
<1>2. CASE CROf(e) = <<>>
  BY <1>1, <1>2
<1>3. CASE CROf(e) = <<CR>>
  <2>1. x \in Seq(Byte) /\ CR \in Byte
    BY LineType, ByteFacts
  <2>2. x \o <<CR>> = Append(x, CR) /\ Append(x, CR) \in Seq(Byte) /\ Append(x, CR) # <<>>
    BY <2>1, AppendIsConcat, AppendProperties
  <2>3. Append(x, CR)[Len(Append(x, CR))] = CR
    BY <2>1
  <2>4. Append(x, CR) = Append(Front(Append(x, CR)), CR) /\ Front(Append(x, CR)) \in Seq(Byte)
    BY <2>2, <2>3, FrontAndLast DEF Last
  <2>5. Front(Append(x, CR)) = x
    BY <2>1, <2>4, AppendInjective
  <2> DEFINE r == Append(x, CR)
  <2>6. EndsIn(r, CR) /\ Front(r) = x
    BY <2>2, <2>3, <2>5 DEF EndsIn, Last
  <2> HIDE DEF r
  <2>7. stripTrailingCR(r) = x
    BY <2>6 DEF stripTrailingCR
  <2> QED BY <1>1, <1>3, <2>2, <2>7 DEF r
<1> QED BY <1>2, <1>3 DEF CROf

\* splitLines returns the lines a text is joined from, with or without a line
\* end at the end.
LEMMA SplitOfJoin ==
    ASSUME NEW ls \in Lines, NEW e \in Eol
    PROVE  /\ Last(ls) # <<>> => splitLines(joinLines(ls, e)) = ls
           /\ splitLines(joinLines(ls, e) \o e) = ls
<1> DEFINE j == joinLines(ls, e)
           c == CROf(e)
           n == Len(ls)
           S == Seq(Prose)
<1>1. ls \in Seq(S) /\ n \in Nat /\ j \in Seq(Byte) /\ c \in Seq(Byte) /\ e = c \o <<LF>>
  BY LinesParts, JoinEnds, EolFacts
<1>2. ls = [k \in 1..n |-> ls[k]] /\ \A k \in 1..n : ls[k] \in S
  BY <1>1
<1>3. ASSUME Last(ls) # <<>> PROVE splitLines(j) = ls
  <2>1. j # <<>> /\ ~EndsIn(j, LF)
    BY <1>3, JoinEndsIn, ByteFacts DEF EndsIn, Last
  <2>2. splitLines(j) = [k \in DOMAIN Kept(ls, e) |-> stripTrailingCR(Kept(ls, e)[k])]
    <3> HIDE DEF j
    <3>1. Pieces(j, LF) = Kept(ls, e)
      BY PiecesOfJoin DEF j
    <3> QED BY <2>1, <3>1 DEF splitLines
  <2>3. ASSUME NEW k \in 1..n PROVE stripTrailingCR(Kept(ls, e)[k]) = ls[k]
    <3> HIDE DEF S
    <3>1. Kept(ls, e)[k] = ls[k] \/ Kept(ls, e)[k] = ls[k] \o CROf(e)
      BY DEF Kept
    <3> QED BY <1>2, <3>1, StripTakesCR DEF S
  <2>4. DOMAIN Kept(ls, e) = 1..n
    BY DEF Kept
  <2> HIDE DEF j, n
  <2> QED BY <1>2, <2>2, <2>3, <2>4
<1>4. splitLines(j \o e) = ls
  <2> DEFINE r == j \o c
  <2>1. r \in Seq(Byte) /\ j \o e = Append(r, LF)
    <3> HIDE DEF j, c
    <3>1. r \in Seq(Byte) /\ LF \in Byte
      BY <1>1, ByteFacts, ConcatProperties
    <3>2. j \o (c \o <<LF>>) = r \o <<LF>>
      BY <1>1, ByteFacts
    <3> QED BY <1>1, <3>1, <3>2, AppendIsConcat
  <2> HIDE DEF r
  <2>2. /\ Append(r, LF) # <<>> /\ EndsIn(Append(r, LF), LF) /\ Front(Append(r, LF)) = r
    <3>1. /\ Append(r, LF) \in Seq(Byte) /\ Append(r, LF) # <<>> /\ LF \in Byte
          /\ Append(r, LF)[Len(Append(r, LF))] = LF
      BY <2>1, ByteFacts
    <3>2. Append(r, LF) = Append(Front(Append(r, LF)), LF) /\ Front(Append(r, LF)) \in Seq(Byte)
      BY <3>1, FrontAndLast DEF Last
    <3>3. Front(Append(r, LF)) = r
      BY <2>1, <3>1, <3>2, AppendInjective
    <3> QED BY <3>1, <3>3 DEF EndsIn, Last
  <2>3. Pieces(r, LF) = KeptAll(ls, e)
    BY PiecesOfJoin DEF r
  <2>4. splitLines(j \o e) = [k \in DOMAIN KeptAll(ls, e) |-> stripTrailingCR(KeptAll(ls, e)[k])]
    <3> HIDE DEF j
    <3> QED BY <2>1, <2>2, <2>3 DEF splitLines
  <2>5. ASSUME NEW k \in 1..n PROVE stripTrailingCR(KeptAll(ls, e)[k]) = ls[k]
    <3> HIDE DEF S
    <3>1. KeptAll(ls, e)[k] = ls[k] \o CROf(e)
      BY DEF KeptAll
    <3> QED BY <1>2, <3>1, StripTakesCR DEF S
  <2>6. DOMAIN KeptAll(ls, e) = 1..n
    BY DEF KeptAll
  <2> HIDE DEF j, n
  <2> QED BY <1>2, <2>4, <2>5, <2>6
<1> QED BY <1>3, <1>4

\* A file with line ends of one sort is its lines joined with the line end it
\* uses, and one more at the end if it ends in one.
LEMMA PlainIsWritten ==
    ASSUME NEW s \in Seq(FileByte), s # <<>>, Plain(s)
    PROVE  /\ detectEOL(s) \in Eol
           /\ \E ls \in Lines :
                  /\ Last(ls) # <<>> /\ splitLines(s) = ls
                  /\ s = joinLines(ls, detectEOL(s))
                         \o (IF EndsIn(s, LF) THEN detectEOL(s) ELSE <<>>)
<1> DEFINE e == detectEOL(s)
<1>1. e \in Eol
  BY DEF detectEOL, Eol
<1>2. \A i \in 1..Len(s) : s[i] = CR => i < Len(s) /\ s[i + 1] = LF
  BY DEF Plain
<1>3. Even(s, e)
  <2>1. CASE \A i \in 1..Len(s) : s[i] # CR
    <3>1. e = <<LF>>
      BY <2>1 DEF detectEOL
    <3>2. <<LF>> # <<CR, LF>>
      OBVIOUS
    <3> QED BY <2>1, <3>1, <3>2 DEF Even
  <2>2. CASE \E i \in 1..Len(s) : s[i] = CR
    <3>1. e = <<CR, LF>>
      BY <1>2, <2>2 DEF detectEOL
    <3>2. \A i \in 1..Len(s) : s[i] = LF => i > 1 /\ s[i - 1] = CR
      BY <2>2 DEF Plain
    <3> QED BY <1>2, <3>1, <3>2 DEF Even
  <2> QED BY <2>1, <2>2
<1> HIDE DEF e
<1>4. PICK ls \in Lines : s = joinLines(ls, e)
  <2>1. PICK ls \in Lines : \/ s = joinLines(ls, e)
                            \/ e = <<CR, LF>> /\ s = joinLines(ls, e) \o <<CR>>
    BY <1>1, <1>3, EvenIsWritten DEF Written
  <2>2. ~(s = joinLines(ls, e) \o <<CR>>)
    <3> DEFINE j == joinLines(ls, e)
    <3>1. j \in Seq(Byte)
      BY <1>1, JoinEnds
    <3> HIDE DEF j
    <3>2. s = j \o <<CR>> => s[Len(s)] = CR /\ Len(s) \in 1..Len(s)
      BY <3>1
    <3>3. s # j \o <<CR>>
      BY <1>2, <3>2
    <3> QED BY <3>3 DEF j
  <2> QED BY <2>1, <2>2
<1> DEFINE F == Front(ls)
<1>5. CASE Last(ls) # <<>>
  <2>1. ~EndsIn(s, LF)
    BY <1>1, <1>4, <1>5, JoinEndsIn, ByteFacts DEF EndsIn, Last
  <2>2. s \o <<>> = s
    BY ConcatEmptySeq
  <2> QED BY <1>1, <1>4, <1>5, <2>1, <2>2, SplitOfJoin DEF e
<1>6. CASE Last(ls) = <<>>
  <2>1. F # <<>> /\ EndsIn(s, LF)
    <3>1. F # <<>>
      BY <1>1, <1>4, <1>6, JoinEndsIn
    <3>2. s[Len(s)] = LF
      BY <1>1, <1>4, <1>6, <3>1, JoinEndsIn
    <3> QED BY <3>1, <3>2 DEF EndsIn, Last
  <2>2. F \in Lines /\ s = joinLines(F, e) \o e
    <3>1. F \in Lines /\ s = joinLines(F, e) \o e \o <<>>
      BY <1>1, <1>4, <1>6, <2>1, JoinEnds
    <3> HIDE DEF F
    <3>2. joinLines(F, e) \o e \in Seq(Byte)
      BY <1>1, <3>1, JoinEnds, EolFacts, ConcatProperties
    <3> QED BY <3>1, <3>2, ConcatEmptySeq
  <2> HIDE DEF F
  <2>3. splitLines(s) = F
    BY <1>1, <2>2, SplitOfJoin
  <2>4. Last(F) # <<>>
    BY <2>1, <2>3 DEF Plain
  <2> QED BY <1>1, <2>1, <2>2, <2>3, <2>4 DEF e
<1> QED BY <1>5, <1>6

\* One byte of a text replaced.
PutAt(s, i, c) == [s EXCEPT ![i] = c]

LEMMA ExceptConcat ==
    ASSUME NEW s \in Seq(Byte), NEW r \in Seq(Byte), NEW c \in Byte
    PROVE  /\ \A i \in 1..Len(s) : PutAt(s, i, c) \o r = PutAt(s \o r, i, c)
           /\ \A i \in 1..Len(r) : s \o PutAt(r, i, c) = PutAt(s \o r, Len(s) + i, c)
<1> DEFINE v == s \o r
<1>1. /\ v \in Seq(Byte) /\ Len(v) = Len(s) + Len(r) /\ Len(s) \in Nat /\ Len(r) \in Nat
      /\ \A k \in 1..(Len(s) + Len(r)) : v[k] = IF k <= Len(s) THEN s[k] ELSE r[k - Len(s)]
  BY ConcatProperties
<1> HIDE DEF v
<1>2. ASSUME NEW i \in 1..Len(s) PROVE [s EXCEPT ![i] = c] \o r = [v EXCEPT ![i] = c]
  <2> DEFINE u == [s EXCEPT ![i] = c]
             a == u \o r
             b == [v EXCEPT ![i] = c]
  <2>1. /\ u \in Seq(Byte) /\ Len(u) = Len(s)
        /\ \A k \in 1..Len(s) : u[k] = IF k = i THEN c ELSE s[k]
    BY ExceptSeq
  <2>2. i \in 1..Len(v)
    BY <1>1
  <2>3. /\ b \in Seq(Byte) /\ Len(b) = Len(v)
        /\ \A k \in 1..Len(v) : b[k] = IF k = i THEN c ELSE v[k]
    BY <1>1, <2>2, ExceptSeq
  <2> HIDE DEF u, b
  <2>4. /\ a \in Seq(Byte) /\ Len(a) = Len(u) + Len(r)
        /\ \A k \in 1..(Len(u) + Len(r)) : a[k] = IF k <= Len(u) THEN u[k] ELSE r[k - Len(u)]
    BY <2>1, ConcatProperties
  <2> HIDE DEF a
  <2>5. ASSUME NEW k \in 1..Len(a) PROVE a[k] = b[k]
    <3>1. CASE k <= Len(s)
      BY <1>1, <2>1, <2>3, <2>4, <3>1
    <3>2. CASE k > Len(s)
      <4>1. k \in 1..(Len(s) + Len(r)) /\ ~(k <= Len(s)) /\ k # i
        BY <1>1, <2>1, <2>4, <3>2
      <4>2. a[k] = r[k - Len(s)]
        BY <2>1, <2>4, <4>1
      <4>3. b[k] = v[k]
        BY <1>1, <2>3, <4>1
      <4> QED BY <1>1, <4>1, <4>2, <4>3
    <3> QED BY <1>1, <2>1, <2>4, <3>1, <3>2
  <2>6. a = b
    BY <1>1, <2>1, <2>3, <2>4, <2>5, SeqEqual
  <2> QED BY <2>6 DEF a, b, u
<1>3. ASSUME NEW i \in 1..Len(r) PROVE s \o [r EXCEPT ![i] = c] = [v EXCEPT ![Len(s) + i] = c]
  <2> DEFINE u == [r EXCEPT ![i] = c]
             a == s \o u
             p == Len(s) + i
             b == [v EXCEPT ![p] = c]
  <2>1. /\ u \in Seq(Byte) /\ Len(u) = Len(r)
        /\ \A k \in 1..Len(r) : u[k] = IF k = i THEN c ELSE r[k]
    BY ExceptSeq
  <2>2. p \in 1..Len(v)
    BY <1>1
  <2>3. /\ b \in Seq(Byte) /\ Len(b) = Len(v)
        /\ \A k \in 1..Len(v) : b[k] = IF k = p THEN c ELSE v[k]
    <3> HIDE DEF p
    <3> QED BY <1>1, <2>2, ExceptSeq
  <2> HIDE DEF u, b
  <2>4. /\ a \in Seq(Byte) /\ Len(a) = Len(s) + Len(u)
        /\ \A k \in 1..(Len(s) + Len(u)) : a[k] = IF k <= Len(s) THEN s[k] ELSE u[k - Len(s)]
    BY <2>1, ConcatProperties
  <2> HIDE DEF a
  <2>5. ASSUME NEW k \in 1..Len(a) PROVE a[k] = b[k]
    <3>1. k \in 1..(Len(s) + Len(r)) /\ k \in 1..Len(v)
      BY <1>1, <2>1, <2>4
    <3>2. CASE k <= Len(s)
      <4>1. k # p
        BY <1>1, <3>2
      <4> HIDE DEF p
      <4>2. a[k] = s[k]
        BY <2>1, <2>4, <3>1, <3>2
      <4>3. b[k] = v[k]
        BY <2>3, <3>1, <4>1
      <4> QED BY <1>1, <3>1, <3>2, <4>2, <4>3
    <3>3. CASE ~(k <= Len(s))
      <4>1. k - Len(s) \in 1..Len(r) /\ (k - Len(s) = i <=> k = p)
        BY <1>1, <3>1, <3>3
      <4> HIDE DEF p
      <4>2. a[k] = u[k - Len(s)]
        BY <2>1, <2>4, <3>1, <3>3
      <4>3. u[k - Len(s)] = IF k = p THEN c ELSE r[k - Len(s)]
        BY <2>1, <4>1
      <4>4. b[k] = IF k = p THEN c ELSE v[k]
        BY <2>3, <3>1
      <4>5. v[k] = r[k - Len(s)]
        BY <1>1, <3>1, <3>3
      <4> QED BY <4>2, <4>3, <4>4, <4>5
    <3> QED BY <3>2, <3>3
  <2>6. a = b
    BY <1>1, <2>1, <2>3, <2>4, <2>5, SeqEqual
  <2> QED BY <2>6 DEF a, b, u
<1> QED BY <1>2, <1>3 DEF v, PutAt

\* The byte where line k begins when ls are joined with e.
PlaceOf(ls, e, k) == Len(joinLines(SubSeq(ls, 1, k - 1), e)) + (IF k = 1 THEN 1 ELSE Len(e) + 1)

\* Line k, of one byte, replaced by another line of one byte.
LineReplaced(ls, e, k, c) ==
    /\ PlaceOf(ls, e, k) \in 1..Len(joinLines(ls, e))
    /\ joinLines([ls EXCEPT ![k] = <<c>>], e) = PutAt(joinLines(ls, e), PlaceOf(ls, e, k), c)

LEMMA JoinReplaces ==
    ASSUME NEW e \in Eol, NEW c \in Prose, NEW k \in Nat \ {0},
           NEW ls \in Lines, k \in 1..Len(ls), ls[k] = <<"t">>
    PROVE  LineReplaced(ls, e, k, c)
<1> DEFINE S == Seq(Prose)
           J(r) == joinLines(r, e)
           P == {r \in Seq(S) : k <= Len(r) /\ r[k] = <<"t">> => LineReplaced(r, e, k, c)}
<1>1. c \in Byte /\ <<c>> \in S /\ "t" \in Byte /\ <<"t">> \in S
  BY ByteFacts
<1>2. <<>> \in P
  OBVIOUS
<1>3. ASSUME NEW r \in P, NEW x \in S, k <= Len(Append(r, x)), Append(r, x)[k] = <<"t">>
      PROVE  LineReplaced(Append(r, x), e, k, c)
  <2> DEFINE q == Append(r, x)
             n == Len(r)
  <2>1. /\ r \in Seq(S) /\ q \in Seq(S) /\ Len(q) = n + 1 /\ q[n + 1] = x /\ n \in Nat
        /\ \A i \in 1..n : q[i] = r[i]
    OBVIOUS
  <2>2. q \in Lines /\ Front(q) = r /\ Last(q) = x
    BY <2>1, MoreLines
  <2> SUFFICES LineReplaced(q, e, k, c)
    OBVIOUS
  <2>3. x \in Seq(Byte) /\ e \in Seq(Byte)
    BY LineType, EolFacts
  <2>4. CASE k = n + 1
    <3>1. x = <<"t">>
      BY <1>3, <2>1, <2>4
    <3>2. [q EXCEPT ![k] = <<c>>] = Append(r, <<c>>)
      <4> DEFINE a == [q EXCEPT ![k] = <<c>>]
                 b == Append(r, <<c>>)
      <4> HIDE DEF S
      <4>1. a \in Seq(S) /\ b \in Seq(S) /\ Len(a) = n + 1 /\ Len(b) = n + 1
        BY <1>1, <2>1, <2>4
      <4>2. ASSUME NEW i \in 1..(n + 1) PROVE a[i] = b[i]
        <5>1. b[i] = IF i = n + 1 THEN <<c>> ELSE r[i]
          <6>1. b[n + 1] = <<c>> /\ \A m \in 1..n : b[m] = r[m]
            BY <1>1, <2>1, AppendProperties
          <6> HIDE DEF b, n
          <6> QED BY <2>1, <6>1
        <5>2. a[i] = IF i = k THEN <<c>> ELSE q[i]
          <6> HIDE DEF q
          <6> QED BY <2>1
        <5> HIDE DEF a, b, q, n
        <5> QED BY <2>1, <2>4, <5>1, <5>2
      <4> HIDE DEF a, b, q, n
      <4>3. a = b
        BY <4>1, <4>2, SeqEqual
      <4> QED BY <4>3 DEF a, b
    <3>3. SubSeq(q, 1, k - 1) = r
      <4> DEFINE a == SubSeq(q, 1, k - 1)
      <4> HIDE DEF S, q
      <4>1. k - 1 = n /\ \A i \in 1..n : q[i] \in S
        BY <2>1, <2>4
      <4>2. /\ a \in Seq(S) /\ Len(a) = (IF 1 <= n THEN n - 1 + 1 ELSE 0)
            /\ \A i \in 1..(n - 1 + 1) : a[i] = q[1 + i - 1]
        BY <2>1, <4>1, SubSeqProperties
      <4>3. Len(a) = n /\ \A i \in 1..n : a[i] = r[i]
        BY <2>1, <4>2
      <4> HIDE DEF a, n
      <4>4. a = r
        BY <2>1, <4>2, <4>3, SeqEqual DEF n
      <4> QED BY <4>4 DEF a
    <3>4. /\ Append(r, <<c>>) \in Lines
          /\ Front(Append(r, <<c>>)) = r /\ Last(Append(r, <<c>>)) = <<c>>
      BY <1>1, <2>1, MoreLines
    <3>5. <<c>> = PutAt(x, 1, c) /\ Len(x) = 1
      BY <3>1 DEF PutAt
    <3>6. CASE r = <<>>
      <4>1. J(q) = x /\ J(Append(r, <<c>>)) = <<c>>
        <5> HIDE DEF q
        <5> QED BY <2>2, <3>4, <3>6, JoinEnds
      <4>2. k = 1 /\ PlaceOf(q, e, k) = 1
        <5>1. k = 1
          BY <2>4, <3>6
        <5>2. joinLines(<<>>, e) = <<>>
          BY <2>3, JoinOfNone
        <5> HIDE DEF q
        <5>3. PlaceOf(q, e, k) = Len(<<>>) + 1
          BY <3>3, <3>6, <5>1, <5>2 DEF PlaceOf
        <5> QED BY <5>1, <5>3
      <4>3. J([q EXCEPT ![k] = <<c>>]) = PutAt(J(q), 1, c) /\ 1 \in 1..Len(J(q))
        <5> HIDE DEF q
        <5>1. joinLines([q EXCEPT ![k] = <<c>>], e) = <<c>>
          BY <3>2, <4>1
        <5>2. joinLines(q, e) = x
          BY <4>1
        <5>3. 1 \in 1..Len(x)
          BY <3>5
        <5> HIDE DEF J
        <5> QED BY <3>5, <5>1, <5>2, <5>3 DEF J
      <4> HIDE DEF q
      <4> QED BY <4>2, <4>3 DEF LineReplaced
    <3>7. CASE r # <<>>
      <4>1. /\ r \in Lines /\ J(q) = J(r) \o e \o x
            /\ J(Append(r, <<c>>)) = J(r) \o e \o <<c>>
        <5> HIDE DEF q
        <5> QED BY <2>2, <3>4, <3>7, JoinEnds
      <4> DEFINE h == J(r) \o e
      <4>2. J(r) \in Seq(Byte) /\ h \in Seq(Byte) /\ Len(h) = Len(J(r)) + Len(e)
        BY <2>3, <4>1, JoinEnds, ConcatProperties
      <4>3. PlaceOf(q, e, k) = Len(h) + 1
        <5>1. k # 1
          BY <2>4, <3>7
        <5>2. PlaceOf(q, e, k) = Len(J(r)) + (Len(e) + 1)
          <6> HIDE DEF q
          <6> QED BY <3>3, <5>1 DEF PlaceOf
        <5>3. Len(J(r)) \in Nat /\ Len(e) \in Nat
          BY <2>3, <4>2
        <5> HIDE DEF q, h, J
        <5> QED BY <4>2, <5>2, <5>3
      <4>4. h \o <<c>> = PutAt(h \o x, Len(h) + 1, c)
        <5> HIDE DEF h
        <5>1. h \o PutAt(x, 1, c) = PutAt(h \o x, Len(h) + 1, c)
          <6>1. 1 \in 1..Len(x)
            BY <3>5
          <6>2. h \in Seq(Byte) /\ x \in Seq(Byte) /\ c \in Byte
            BY <1>1, <2>3, <4>2
          <6> QED BY <6>1, <6>2, ExceptConcat
        <5> QED BY <3>5, <5>1
      <4>5. Len(h) + 1 \in 1..Len(h \o x)
        <5>1. Len(h \o x) = Len(h) + Len(x) /\ Len(h) \in Nat
          <6>1. h \in Seq(Byte) /\ x \in Seq(Byte)
            BY <2>3, <4>2
          <6> HIDE DEF h
          <6> QED BY <6>1, ConcatProperties
        <5> HIDE DEF h
        <5> QED BY <3>5, <5>1
      <4> HIDE DEF q
      <4> QED BY <3>2, <4>1, <4>3, <4>4, <4>5 DEF LineReplaced
    <3> QED BY <3>6, <3>7
  <2>5. CASE k # n + 1
    <3> DEFINE w == [r EXCEPT ![k] = <<c>>]
    <3>1. k \in 1..n /\ r # <<>> /\ r[k] = <<"t">>
      BY <1>3, <2>1, <2>5
    <3>2. LineReplaced(r, e, k, c)
      BY <3>1
    <3>3. w \in Seq(S) /\ w # <<>> /\ Len(w) = n
      BY <1>1, <2>1, <3>1
    <3>4. [q EXCEPT ![k] = <<c>>] = Append(w, x)
      <4> DEFINE a == [q EXCEPT ![k] = <<c>>]
                 b == Append(w, x)
      <4> HIDE DEF S
      <4>1. a \in Seq(S) /\ b \in Seq(S) /\ Len(a) = n + 1 /\ Len(b) = n + 1
        BY <1>1, <2>1, <3>1, <3>3
      <4>2. ASSUME NEW i \in 1..(n + 1) PROVE a[i] = b[i]
        <5>1. b[i] = IF i = n + 1 THEN x ELSE w[i]
          <6>1. b[n + 1] = x /\ \A m \in 1..n : b[m] = w[m]
            <7> HIDE DEF w
            <7> QED BY <3>3, AppendProperties
          <6> HIDE DEF b, n, w
          <6> QED BY <2>1, <6>1
        <5>2. a[i] = IF i = k THEN <<c>> ELSE q[i]
          <6> HIDE DEF q
          <6> QED BY <2>1
        <5>3. \A m \in 1..n : w[m] = IF m = k THEN <<c>> ELSE r[m]
          BY <2>1
        <5> HIDE DEF a, b, q, n, w
        <5> QED BY <2>1, <3>1, <5>1, <5>2, <5>3
      <4> HIDE DEF a, b, q, n
      <4>3. a = b
        BY <4>1, <4>2, SeqEqual
      <4> QED BY <4>3 DEF a, b
    <3>5. SubSeq(q, 1, k - 1) = SubSeq(r, 1, k - 1)
      BY <2>1, <3>1
    <3>6. /\ Append(w, x) \in Lines /\ Front(Append(w, x)) = w /\ Last(Append(w, x)) = x
      BY <3>3, MoreLines
    <3>7. J(q) = J(r) \o e \o x /\ r \in Lines
      <4> HIDE DEF q
      <4> QED BY <2>2, <3>1, JoinEnds
    <3>8. J(Append(w, x)) = J(w) \o e \o x /\ J(w) \in Seq(Byte) /\ J(r) \in Seq(Byte)
      <4>1. w \in Lines
        BY <3>3 DEF Lines
      <4> HIDE DEF w
      <4> QED BY <3>3, <3>6, <3>7, <4>1, JoinEnds
    <3> DEFINE pos == PlaceOf(r, e, k)
    <3>9. PlaceOf(q, e, k) = pos
      <4> HIDE DEF q
      <4> QED BY <3>5 DEF PlaceOf
    <3>10. pos \in 1..Len(J(r)) /\ J(w) = PutAt(J(r), pos, c)
      BY <3>2 DEF LineReplaced
    <3> HIDE DEF q, w, pos, J
    <3>11. PutAt(J(r), pos, c) \o (e \o x) = PutAt(J(r) \o (e \o x), pos, c)
      <4>1. e \o x \in Seq(Byte)
        BY <2>3, ConcatProperties
      <4> DEFINE t == e \o x
                 g == J(r)
      <4>2. g \in Seq(Byte) /\ t \in Seq(Byte) /\ pos \in 1..Len(g) /\ c \in Byte
        BY <1>1, <3>8, <3>10, <4>1
      <4> HIDE DEF t, g
      <4>3. PutAt(g, pos, c) \o t = PutAt(g \o t, pos, c)
        BY <4>2, ExceptConcat
      <4> QED BY <4>3 DEF t, g
    <3>12. J(r) \o (e \o x) = J(r) \o e \o x /\ J(w) \o (e \o x) = J(w) \o e \o x
      <4>1. \A g \in Seq(Byte) : (g \o e) \o x = g \o (e \o x)
        BY <2>3, ConcatAssociative
      <4> QED BY <3>8, <4>1
    <3>13. pos \in 1..Len(J(r) \o e \o x)
      BY <2>3, <3>8, <3>10
    <3>14. J([q EXCEPT ![k] = <<c>>]) = PutAt(J(q), pos, c)
      <4>1. J([q EXCEPT ![k] = <<c>>]) = J(w) \o e \o x
        BY <3>4, <3>8
      <4>2. J(w) \o e \o x = PutAt(J(r), pos, c) \o (e \o x)
        BY <3>10, <3>12
      <4>3. PutAt(J(r) \o (e \o x), pos, c) = PutAt(J(q), pos, c)
        BY <3>7, <3>12
      <4> QED BY <3>11, <4>1, <4>2, <4>3
    <3> QED BY <3>7, <3>9, <3>13, <3>14 DEF LineReplaced, J
  <2> QED BY <2>4, <2>5
<1>4. P = Seq(S)
  <2>1. ASSUME NEW r \in P, NEW x \in S PROVE Append(r, x) \in P
    <3>1. Append(r, x) \in Seq(S)
      OBVIOUS
    <3> QED BY <1>3, <3>1
  <2> HIDE DEF P, S
  <2>2. P \in SUBSET Seq(S)
    BY DEF P
  <2> QED BY <1>2, <2>1, <2>2, AppendInduction
<1> QED BY <1>4 DEF Lines

\* What the four rewrites make of a file that is its lines ls joined with e,
\* with a line end at the end or not.
LEMMA RewritesOfWritten ==
    ASSUME NEW s \in Seq(FileByte), NEW e, e = detectEOL(s), e \in Eol, NEW ls \in Lines,
           Last(ls) # <<>>, splitLines(s) = ls,
           s = joinLines(ls, e) \o (IF EndsIn(s, LF) THEN e ELSE <<>>)
    PROVE  /\ \A k \in TaskLines(s) :
                  /\ injectInto(s, k) = [s EXCEPT ![At(s, k)] = "m"]
                  /\ completeIn(s, k) = [s EXCEPT ![At(s, k)] = "x"]
                  /\ LET rest == RemoveAt(splitLines(s), k)
                     IN rest # <<>> /\ Last(rest) # <<>> => splitLines(deleteFrom(s, k)) = rest
           /\ splitLines(appendLine(s)) = Append(splitLines(s), <<"t">>)
<1> DEFINE S == Seq(Prose)
           n == Len(ls)
           tail == IF EndsIn(s, LF) THEN e ELSE <<>>
           j == joinLines(ls, e)
<1>1. /\ ls \in Seq(S) /\ n \in Nat /\ n > 0 /\ j \in Seq(Byte) /\ e \in Seq(Byte)
      /\ tail \in Seq(Byte) /\ s = j \o tail
  BY LinesParts, JoinEnds, EolFacts
\* Joined lines whose last one is not empty do not end in LF.
<1>2. ASSUME NEW r \in Lines, Last(r) # <<>> PROVE ~EndsIn(joinLines(r, e), LF)
  <2> DEFINE q == joinLines(r, e)
  <2>1. q # <<>> /\ q[Len(q)] \in Prose
    BY <1>2, JoinEndsIn
  <2> QED BY <2>1, ByteFacts DEF EndsIn, Last
<1>3. ASSUME NEW k \in TaskLines(s), NEW c \in {"m", "x"}
      PROVE  /\ joinLines([ls EXCEPT ![k] = <<c>>], e) \o tail = [s EXCEPT ![At(s, k)] = c]
             /\ ~EndsIn(joinLines([ls EXCEPT ![k] = <<c>>], e), LF)
  <2>1. k \in 1..n /\ k \in Nat \ {0} /\ ls[k] = <<"t">>
    <3>1. k \in 1..n /\ ls[k] = <<"t">>
      <4>1. TaskLines(s) = {i \in DOMAIN ls : ls[i] = <<"t">>}
        BY DEF TaskLines
      <4>2. DOMAIN ls = 1..Len(ls)
        BY <1>1
      <4> QED BY <4>1, <4>2
    <3> QED BY <1>1, <3>1
  <2>2. c \in Prose /\ c \in Byte
    BY ByteFacts DEF Byte
  <2>3. LineReplaced(ls, e, k, c)
    BY <2>1, <2>2, JoinReplaces
  <2>4. At(s, k) = PlaceOf(ls, e, k)
    BY DEF At, PlaceOf
  <2> DEFINE w == [ls EXCEPT ![k] = <<c>>]
             pos == PlaceOf(ls, e, k)
  <2>5. pos \in 1..Len(j) /\ joinLines(w, e) = PutAt(j, pos, c)
    BY <2>3 DEF LineReplaced
  <2>6. PutAt(j, pos, c) \o tail = PutAt(j \o tail, pos, c)
    <3> HIDE DEF j, tail, pos
    <3> QED BY <1>1, <2>2, <2>5, ExceptConcat
  <2>7. w \in Lines /\ Last(w) # <<>>
    <3>1. <<c>> \in S /\ <<c>> # <<>>
      BY <2>2
    <3>2. /\ w \in Seq(S) /\ Len(w) = n /\ w # <<>>
          /\ \A i \in 1..n : w[i] = IF i = k THEN <<c>> ELSE ls[i]
      BY <1>1, <2>1, <3>1
    <3>3. n \in 1..n
      BY <1>1
    <3>4. w[n] # <<>>
      <4> HIDE DEF w
      <4>1. ls[n] # <<>>
        BY DEF Last
      <4> QED BY <3>1, <3>2, <3>3, <4>1
    <3>5. Last(w) = w[n]
      BY <3>2 DEF Last
    <3> QED BY <3>2, <3>4, <3>5 DEF Lines
  <2>8. ~EndsIn(joinLines(w, e), LF)
    <3> HIDE DEF w
    <3> QED BY <1>2, <2>7
  <2>9. joinLines(w, e) \o tail = [s EXCEPT ![At(s, k)] = c]
    <3> HIDE DEF w, j, tail, pos
    <3> QED BY <1>1, <2>4, <2>5, <2>6 DEF pos, PutAt
  <2> QED BY <2>8, <2>9
<1>4. ASSUME NEW q \in Seq(Byte) PROVE q \o <<>> = q
  BY ConcatEmptySeq
<1>5. ASSUME NEW k \in TaskLines(s)
      PROVE  /\ injectInto(s, k) = [s EXCEPT ![At(s, k)] = "m"]
             /\ completeIn(s, k) = [s EXCEPT ![At(s, k)] = "x"]
  <2>1. ASSUME NEW c \in {"m", "x"} PROVE joinLines([ls EXCEPT ![k] = <<c>>], e) \in Seq(Byte)
    <3>1. <<c>> \in Seq(Byte) /\ ls \in Seq(Seq(Byte))
      BY LinesParts DEF Byte
    <3> DEFINE T == Seq(Byte)
    <3>2. [ls EXCEPT ![k] = <<c>>] \in Seq(T)
      <4> HIDE DEF T
      <4>1. <<c>> \in T /\ ls \in Seq(T) /\ k \in 1..Len(ls)
        BY <1>1, <3>1 DEF TaskLines, T
      <4> QED BY <4>1, ExceptSeq
    <3> QED BY <1>1, <3>2, JoinIsText
  <2>2. CASE EndsIn(s, LF)
    <3>1. tail = e
      BY <2>2
    <3> HIDE DEF tail
    <3> QED BY <1>3, <2>2, <3>1 DEF injectInto, completeIn
  <2>3. CASE ~EndsIn(s, LF)
    <3>1. tail = <<>>
      BY <2>3
    <3> HIDE DEF tail
    <3>2. \A c \in {"m", "x"} : joinLines([ls EXCEPT ![k] = <<c>>], e) = [s EXCEPT ![At(s, k)] = c]
      BY <1>3, <1>4, <2>1, <3>1
    <3> QED BY <2>3, <3>2 DEF injectInto, completeIn
  <2> QED BY <2>2, <2>3
<1>6. ASSUME NEW k \in TaskLines(s), RemoveAt(ls, k) # <<>>, Last(RemoveAt(ls, k)) # <<>>
      PROVE  splitLines(deleteFrom(s, k)) = RemoveAt(ls, k)
  <2> DEFINE rest == RemoveAt(ls, k)
             out == joinLines(rest, e)
  <2>1. k \in 1..n
    BY <1>1 DEF TaskLines
  <2>2. rest \in Seq(S)
    <3> HIDE DEF S, n
    <3>1. \A i \in 1..Len(ls) : ls[i] \in S
      BY <1>1
    <3>2. SubSeq(ls, 1, k - 1) \in Seq(S) /\ SubSeq(ls, k + 1, Len(ls)) \in Seq(S)
      BY <1>1, <2>1, <3>1, SubSeqProperties DEF n
    <3> QED BY <3>2, ConcatProperties DEF RemoveAt
  <2>3. rest \in Lines
    BY <1>6, <2>2 DEF Lines
  <2> HIDE DEF rest
  <2>4. Last(rest) # <<>>
    BY <1>6 DEF rest
  <2>5. out \in Seq(Byte) /\ ~EndsIn(out, LF)
    BY <1>2, <2>3, <2>4, JoinEnds
  <2>6. deleteFrom(s, k) = IF EndsIn(s, LF) THEN out \o e ELSE out
    BY <2>5 DEF deleteFrom, rest
  <2>7. splitLines(out) = rest /\ splitLines(out \o e) = rest
    BY <2>3, <2>4, SplitOfJoin
  <2> HIDE DEF out
  <2>8. splitLines(deleteFrom(s, k)) = rest
    BY <2>6, <2>7
  <2> QED BY <2>8 DEF rest
<1>7. splitLines(appendLine(s)) = Append(ls, <<"t">>)
  <2> DEFINE ms == Append(ls, <<"t">>)
  <2>1. ms \in Lines /\ Front(ms) = ls /\ Last(ms) = <<"t">> /\ <<"t">> \in Seq(Byte)
    <3>1. <<"t">> \in S /\ <<"t">> \in Seq(Byte)
      BY ByteFacts
    <3> QED BY <1>1, <3>1, MoreLines
  <2>2. joinLines(ms, e) = j \o e \o <<"t">>
    <3>1. ls # <<>>
      BY LinesParts
    <3> HIDE DEF ms
    <3> QED BY <2>1, <3>1, JoinEnds
  <2>3. appendLine(s) = (j \o e) \o <<"t">> \o e
    <3>1. CASE EndsIn(s, LF)
      <4>1. tail = e
        BY <3>1
      <4> QED BY <1>1, <3>1, <4>1 DEF appendLine
    <3>2. CASE ~EndsIn(s, LF)
      <4>1. tail = <<>>
        BY <3>2
      <4>2. s = j
        BY <1>1, <1>4, <4>1
      <4>3. j # <<>>
        BY JoinEndsIn
      <4> QED BY <3>2, <4>2, <4>3 DEF appendLine
    <3> QED BY <3>1, <3>2
  <2>4. splitLines(joinLines(ms, e) \o e) = ms
    <3> HIDE DEF ms
    <3> QED BY <2>1, SplitOfJoin
  <2> HIDE DEF ms, j
  <2>5. splitLines(appendLine(s)) = ms
    BY <2>2, <2>3, <2>4
  <2> QED BY <2>5 DEF ms
<1> QED BY <1>5, <1>6, <1>7

\* The first line of an empty file.
LEMMA AppendToEmpty == splitLines(appendLine(<<>>)) = Append(splitLines(<<>>), <<"t">>)
<1> DEFINE e == <<LF>>
           ms == Append(<<>>, <<"t">>)
<1>1. e \in Eol /\ detectEOL(<<>>) = e /\ e \in Seq(Byte)
  BY ByteFacts DEF Eol, detectEOL
<1>2. ms \in Lines /\ <<"t">> \in Seq(Byte) /\ ms = <<<<"t">>>>
  <2>1. <<>> \in Seq(Seq(Prose)) /\ <<"t">> \in Seq(Prose) /\ <<"t">> \in Seq(Byte)
    BY ByteFacts
  <2>2. ms \in Lines
    BY <2>1, MoreLines
  <2> QED BY <2>1, <2>2
<1>3. joinLines(ms, e) = <<"t">>
  <2>1. joinLines(<<<<"t">>>>, e) = <<"t">>
    BY <1>1, <1>2, JoinOfOne
  <2> QED BY <1>2, <2>1
<1>4. splitLines(joinLines(ms, e) \o e) = ms
  <2> HIDE DEF ms, e
  <2> QED BY <1>1, <1>2, SplitOfJoin
<1>5. appendLine(<<>>) = <<"t">> \o e
  <2>1. appendLine(<<>>) = <<>> \o <<"t">> \o e
    BY <1>1 DEF appendLine
  <2>2. <<>> \o <<"t">> = <<"t">>
    OBVIOUS
  <2> QED BY <2>1, <2>2
<1>6. splitLines(<<>>) = <<>>
  BY DEF splitLines
<1> QED BY <1>3, <1>4, <1>5, <1>6

\* A file of any length: in plain files each rewrite changes its own line only.
LEMMA RewritesKeepOtherLines ==
    ASSUME body \in Seq(FileByte) PROVE OtherLinesAreKept
<1> SUFFICES ASSUME Plain(body) PROVE OtherLinesAreKept
  BY DEF OtherLinesAreKept
<1>1. CASE body = <<>>
  <2>1. TaskLines(body) = {}
    BY <1>1 DEF TaskLines, splitLines
  <2> QED BY <1>1, <2>1, AppendToEmpty DEF OtherLinesAreKept
<1>2. CASE body # <<>>
  <2>1. /\ detectEOL(body) \in Eol
        /\ \E ls \in Lines :
               /\ Last(ls) # <<>> /\ splitLines(body) = ls
               /\ body = joinLines(ls, detectEOL(body))
                         \o (IF EndsIn(body, LF) THEN detectEOL(body) ELSE <<>>)
    BY <1>2, PlainIsWritten
  <2>2. PICK ls \in Lines :
               /\ Last(ls) # <<>> /\ splitLines(body) = ls
               /\ body = joinLines(ls, detectEOL(body))
                         \o (IF EndsIn(body, LF) THEN detectEOL(body) ELSE <<>>)
    BY <2>1
  <2> DEFINE e == detectEOL(body)
  <2>3. /\ e = detectEOL(body) /\ e \in Eol
        /\ body = joinLines(ls, e) \o (IF EndsIn(body, LF) THEN e ELSE <<>>)
    BY <2>1, <2>2
  <2> HIDE DEF e
  <2> QED BY <2>2, <2>3, RewritesOfWritten DEF OtherLinesAreKept
<1> QED BY <1>1, <1>2

---------------------------------------------------------------------------
(* Stamps compare by value *)

\* How two numbers compare, in the way Go's functions say it.
Cmp(m, n) == IF m < n THEN -1 ELSE IF m > n THEN 1 ELSE 0

Power == [k \in 0..3 |-> IF k = 0 THEN 1 ELSE IF k = 1 THEN 10 ELSE IF k = 2 THEN 100 ELSE 1000]

LEMMA PowerFacts == Power[0] = 1 /\ Power[1] = 10 /\ Power[2] = 100 /\ Power[3] = 1000
BY DEF Power

LEMMA DigitValues == \A x, y \in Digit : DigitValue[x] = DigitValue[y] <=> x = y
BY DEF Digit, DigitValue

LEMMA NumberOfDigit ==
    ASSUME NEW s \in Seq(Digit), NEW x \in Digit
    PROVE  Number(Append(s, x)) = 10 * Number(s) + DigitValue[x]
BY NumberOfAppend DEF NextNumber

\* Texts of one length compare as the numbers they spell.
LEMMA OrderIsNumeric ==
    ASSUME NEW a \in Seq(Digit), NEW b \in Seq(Digit), Len(a) = Len(b)
    PROVE  Order(a, b) = Cmp(Number(a), Number(b))
<1> DEFINE P == {r \in Seq(Digit) : \A s \in Seq(Digit) : Len(r) = Len(s) =>
                     /\ Smaller(r, s) <=> Number(r) < Number(s)
                     /\ r = s <=> Number(r) = Number(s)}
<1>1. <<>> \in P
  <2>1. ASSUME NEW s \in Seq(Digit), Len(<<>>) = Len(s) PROVE s = <<>>
    BY <2>1
  <2>2. ~Smaller(<<>>, <<>>)
    BY DEF Smaller
  <2> QED BY <2>1, <2>2, NumberOfNone
<1>2. ASSUME NEW r \in P, NEW x \in Digit PROVE Append(r, x) \in P
  <2> DEFINE p == Append(r, x)
             n == Len(r)
  <2>1. /\ p \in Seq(Digit) /\ Len(p) = n + 1 /\ p[n + 1] = x /\ n \in Nat
        /\ \A i \in 1..n : p[i] = r[i]
    OBVIOUS
  <2>2. ASSUME NEW q \in Seq(Digit), Len(p) = Len(q)
        PROVE  (Smaller(p, q) <=> Number(p) < Number(q)) /\ (p = q <=> Number(p) = Number(q))
    <3>1. q # <<>>
      BY <2>1, <2>2
    <3>2. PICK s \in Seq(Digit), y \in Digit : q = Append(s, y)
      BY <3>1, SequenceEmptyOrAppend
    <3>3. /\ Len(s) = n /\ q[n + 1] = y /\ \A i \in 1..n : q[i] = s[i]
          /\ Len(q) = n + 1
      BY <2>1, <2>2, <3>2
    <3>4. /\ Smaller(r, s) <=> Number(r) < Number(s)
          /\ r = s <=> Number(r) = Number(s)
      BY <3>3
    <3>5. Smaller(p, q) <=> Smaller(r, s) \/ (r = s /\ DigitValue[x] < DigitValue[y])
      <4>1. ASSUME Smaller(r, s) PROVE Smaller(p, q)
        <5>1. PICK i \in DOMAIN r : /\ DigitValue[r[i]] < DigitValue[s[i]]
                                    /\ \A j \in 1..(i - 1) : r[j] = s[j]
          BY <4>1 DEF Smaller
        <5>2. i \in 1..n /\ i \in DOMAIN p /\ \A j \in 1..(i - 1) : j \in 1..n
          BY <2>1
        <5> HIDE DEF p, n
        <5> QED BY <2>1, <3>3, <5>1, <5>2 DEF Smaller
      <4>2. ASSUME r = s, DigitValue[x] < DigitValue[y] PROVE Smaller(p, q)
        <5>1. n + 1 \in DOMAIN p /\ \A j \in 1..((n + 1) - 1) : j \in 1..n
          BY <2>1
        <5>2. \A j \in 1..((n + 1) - 1) : p[j] = q[j]
          BY <2>1, <3>3, <4>2, <5>1
        <5>3. DigitValue[p[n + 1]] < DigitValue[q[n + 1]]
          BY <2>1, <3>3, <4>2
        <5> HIDE DEF p, n
        <5> QED BY <5>1, <5>2, <5>3 DEF Smaller
      <4>3. ASSUME Smaller(p, q) PROVE Smaller(r, s) \/ (r = s /\ DigitValue[x] < DigitValue[y])
        <5>1. PICK i \in DOMAIN p : /\ DigitValue[p[i]] < DigitValue[q[i]]
                                    /\ \A j \in 1..(i - 1) : p[j] = q[j]
          BY <4>3 DEF Smaller
        <5>2. i \in 1..(n + 1) /\ DOMAIN r = 1..n
          BY <2>1
        <5>3. CASE i \in 1..n
          <6>1. \A j \in 1..(i - 1) : j \in 1..n
            BY <2>1, <5>3
          <6> HIDE DEF p, n
          <6> QED BY <2>1, <3>3, <5>1, <5>2, <5>3, <6>1 DEF Smaller
        <5>4. CASE i = n + 1
          <6>1. \A j \in 1..n : r[j] = s[j]
            <7>1. \A j \in 1..n : j \in 1..(i - 1)
              BY <2>1, <5>4
            <7> HIDE DEF p, n
            <7> QED BY <2>1, <3>3, <5>1, <7>1
          <6>2. r = s
            BY <3>3, <6>1, SeqEqual
          <6> HIDE DEF p, n
          <6> QED BY <2>1, <3>3, <5>1, <5>4, <6>2
        <5> QED BY <2>1, <5>2, <5>3, <5>4
      <4> QED BY <4>1, <4>2, <4>3
    <3>6. p = q <=> r = s /\ x = y
      BY <3>2, AppendInjective
    <3>7. /\ Number(p) = 10 * Number(r) + DigitValue[x]
          /\ Number(q) = 10 * Number(s) + DigitValue[y]
      BY <3>2, NumberOfDigit
    <3>8. Number(r) \in Nat /\ Number(s) \in Nat
      BY NumberType
    <3>9. DigitValue[x] \in 0..9 /\ DigitValue[y] \in 0..9
      BY DigitValueType
    <3>10. DigitValue[x] = DigitValue[y] <=> x = y
      BY DigitValues
    <3> DEFINE m == Number(r)
               k == Number(s)
               v == DigitValue[x]
               w == DigitValue[y]
               f == Number(p)
               g == Number(q)
    <3>11. /\ f = 10 * m + v /\ g = 10 * k + w
           /\ m \in Nat /\ k \in Nat /\ v \in 0..9 /\ w \in 0..9
      BY <3>7, <3>8, <3>9
    <3>12. Smaller(p, q) <=> m < k \/ (m = k /\ v < w)
      BY <3>4, <3>5
    <3>13. p = q <=> m = k /\ v = w
      BY <3>4, <3>6, <3>10
    <3> HIDE DEF m, k, v, w, f, g
    <3>14. /\ m < k \/ (m = k /\ v < w) <=> f < g
           /\ m = k /\ v = w <=> f = g
      BY <3>11
    <3> QED BY <3>12, <3>13, <3>14 DEF f, g
  <2> QED BY <2>1, <2>2
<1>3. P = Seq(Digit)
  <2> HIDE DEF P
  <2>1. P \in SUBSET Seq(Digit)
    BY DEF P
  <2> QED BY <1>1, <1>2, <2>1, AppendInduction
<1>4. (Smaller(a, b) <=> Number(a) < Number(b)) /\ (a = b <=> Number(a) = Number(b))
  BY <1>3
<1>5. Number(a) \in Nat /\ Number(b) \in Nat
  BY NumberType
<1> QED BY <1>4, <1>5 DEF Order, Cmp

\* A number without leading zeros is larger than any that is shorter.
LEMMA ShorterIsSmaller ==
    ASSUME NEW b \in Seq(Digit), b # <<>>, b[1] # "0"
    PROVE  Number(b) > 0 /\ \A a \in Seq(Digit) : Len(a) < Len(b) => Number(a) < Number(b)
<1> DEFINE Large(s) == /\ Number(s) > 0
                       /\ \A a \in Seq(Digit) : Len(a) < Len(s) => Number(a) < Number(s)
           P == {s \in Seq(Digit) : s # <<>> /\ s[1] # "0" => Large(s)}
<1>1. <<>> \in P
  OBVIOUS
<1>2. ASSUME NEW s \in P, NEW y \in Digit, Append(s, y)[1] # "0" PROVE Large(Append(s, y))
  <2> DEFINE q == Append(s, y)
  <2>1. /\ q \in Seq(Digit) /\ Len(q) = Len(s) + 1 /\ s \in Seq(Digit) /\ Len(s) \in Nat
        /\ s # <<>> => Len(s) > 0 /\ s[1] = q[1]
        /\ s = <<>> => q[1] = y /\ Len(s) = 0
    OBVIOUS
  <2>2. Number(q) = 10 * Number(s) + DigitValue[y] /\ Number(s) \in Nat /\ DigitValue[y] \in 0..9
    BY <2>1, NumberOfDigit, NumberType, DigitValueType
  <2>3. CASE s = <<>>
    <3>1. Number(s) = 0 /\ DigitValue[y] > 0
      BY <1>2, <2>1, <2>3, NumberOfNone DEF Digit, DigitValue
    <3>2. \A a \in Seq(Digit) : Len(a) < Len(q) => a = <<>>
      BY <2>1, <2>3
    <3>3. Number(q) > 0
      <4> HIDE DEF q
      <4> QED BY <2>2, <3>1
    <3> HIDE DEF q
    <3> QED BY <3>2, <3>3, NumberOfNone DEF q
  <2>4. CASE s # <<>>
    <3>1. Large(s)
      BY <1>2, <2>1, <2>4
    <3>2. ASSUME NEW a \in Seq(Digit), Len(a) < Len(q) PROVE Number(a) < Number(q)
      <4>1. CASE a = <<>>
        <5> HIDE DEF q
        <5> QED BY <2>2, <3>1, <4>1, NumberOfNone
      <4>2. CASE a # <<>>
        <5>1. PICK c \in Seq(Digit), x \in Digit : a = Append(c, x)
          BY <4>2, SequenceEmptyOrAppend
        <5>2. Len(c) < Len(s)
          BY <2>1, <3>2, <5>1
        <5>3. Number(c) < Number(s)
          BY <3>1, <5>2
        <5>4. Number(a) = 10 * Number(c) + DigitValue[x]
          BY <5>1, NumberOfDigit
        <5>5. Number(c) \in Nat /\ DigitValue[x] \in 0..9
          BY NumberType, DigitValueType
        <5> DEFINE m == Number(c)
                   k == Number(s)
                   v == DigitValue[x]
                   w == DigitValue[y]
                   f == Number(a)
                   g == Number(q)
        <5>6. /\ f = 10 * m + v /\ g = 10 * k + w /\ m < k
              /\ m \in Nat /\ k \in Nat /\ v \in 0..9 /\ w \in 0..9
          BY <2>2, <5>3, <5>4, <5>5
        <5> HIDE DEF m, k, v, w, f, g
        <5>7. f < g
          BY <5>6
        <5> QED BY <5>7 DEF f, g
      <4> QED BY <4>1, <4>2
    <3>3. Number(q) > 0
      <4> HIDE DEF q
      <4> QED BY <2>2, <3>1
    <3> QED BY <3>2, <3>3
  <2> QED BY <2>3, <2>4
<1>3. P = Seq(Digit)
  <2>1. ASSUME NEW s \in P, NEW y \in Digit PROVE Append(s, y) \in P
    <3>1. Append(s, y) \in Seq(Digit)
      OBVIOUS
    <3> HIDE DEF Large
    <3> QED BY <1>2, <3>1
  <2> HIDE DEF P
  <2>2. P \in SUBSET Seq(Digit)
    BY DEF P
  <2> QED BY <1>1, <2>1, <2>2, AppendInduction
<1> QED BY <1>3

LEMMA LenIsSmall ==
    ASSUME NEW D, NEW d \in Seq(D), NEW k \in Nat, Len(d) <= k PROVE Len(d) \in 0..k
<1> DEFINE n == Len(d)
<1>1. n \in Nat /\ n <= k
  OBVIOUS
<1> HIDE DEF n
<1>2. n \in 0..k
  BY <1>1
<1> QED BY <1>2 DEF n

\* Digits behind others weigh less.
LEMMA NumberOfConcat ==
    ASSUME NEW B, NEW p \in Seq(B), Digit \subseteq B, NEW d \in Seq(Digit), Len(d) <= 3
    PROVE  Number(p \o d) = Power[Len(d)] * Number(p) + Number(d)
<1> DEFINE P == {s \in Seq(Digit) : Len(s) <= 3 =>
                     Number(p \o s) = Power[Len(s)] * Number(p) + Number(s)}
<1>1. Number(p) \in Nat
  BY NumberType
<1>2. <<>> \in P
  <2>1. p \o <<>> = p /\ Len(<<>>) = 0
    OBVIOUS
  <2> QED BY <1>1, <2>1, NumberOfNone, PowerFacts
<1>3. ASSUME NEW s \in P, NEW x \in Digit, Len(Append(s, x)) <= 3
      PROVE  Number(p \o Append(s, x)) = Power[Len(Append(s, x))] * Number(p) + Number(Append(s, x))
  <2>1. Len(Append(s, x)) = Len(s) + 1 /\ Len(s) \in 0..2 /\ s \in Seq(Digit)
    <3>1. s \in Seq(Digit) /\ Len(s) \in Nat /\ Len(Append(s, x)) = Len(s) + 1
      OBVIOUS
    <3>2. Len(Append(s, x)) <= 3
      BY <1>3
    <3> HIDE DEF P
    <3>3. Len(s) <= 2
      BY <3>1, <3>2
    <3>4. Len(s) \in 0..2
      BY <3>1, <3>3, LenIsSmall
    <3> QED BY <3>1, <3>4
  <2>2. s \in Seq(B) /\ x \in B /\ p \o s \in Seq(B)
    BY <2>1
  <2>3. p \o Append(s, x) = Append(p \o s, x)
    BY <2>2, ConcatAppend
  <2>4. /\ Number(Append(p \o s, x)) = 10 * Number(p \o s) + DigitValue[x]
        /\ Number(Append(s, x)) = 10 * Number(s) + DigitValue[x]
    BY <2>1, <2>2, NumberOfAppend DEF NextNumber
  <2>5. Number(p \o s) = Power[Len(s)] * Number(p) + Number(s)
    <3>1. Len(s) <= 3
      <4>1. \A k \in 0..2 : k <= 3
        OBVIOUS
      <4> HIDE DEF P
      <4> QED BY <2>1, <4>1
    <3> QED BY <3>1
  <2>6. Number(s) \in Nat /\ DigitValue[x] \in 0..9
    BY <2>1, NumberType, DigitValueType
  <2> DEFINE m == Number(p)
             k == Number(s)
             v == DigitValue[x]
             w == Number(p \o Append(s, x))
             z == Number(Append(s, x))
  <2>7. w = 10 * (Power[Len(s)] * m + k) + v /\ z = 10 * k + v
    BY <2>3, <2>4, <2>5
  <2>8. m \in Nat /\ k \in Nat /\ v \in 0..9
    BY <1>1, <2>6
  <2> HIDE DEF m, k, v, w, z
  <2>9. w = Power[Len(s) + 1] * m + z
    <3>1. CASE Len(s) = 0
      BY <2>7, <2>8, <3>1, PowerFacts
    <3>2. CASE Len(s) = 1
      BY <2>7, <2>8, <3>2, PowerFacts
    <3>3. CASE Len(s) = 2
      BY <2>7, <2>8, <3>3, PowerFacts
    <3> QED BY <2>1, <3>1, <3>2, <3>3
  <2> QED BY <2>1, <2>9 DEF m, w, z
<1>4. P = Seq(Digit)
  <2>1. ASSUME NEW s \in P, NEW x \in Digit PROVE Append(s, x) \in P
    <3>1. Append(s, x) \in Seq(Digit)
      OBVIOUS
    <3> QED BY <1>3, <3>1
  <2> HIDE DEF P
  <2>2. P \in SUBSET Seq(Digit)
    BY DEF P
  <2> QED BY <1>2, <2>1, <2>2, AppendInduction
<1> QED BY <1>4

LEMMA NumberIsSmall ==
    ASSUME NEW d \in Seq(Digit), Len(d) <= 3 PROVE Number(d) \in 0..(Power[Len(d)] - 1)
<1> DEFINE P == {s \in Seq(Digit) : Len(s) <= 3 => Number(s) < Power[Len(s)]}
<1>1. <<>> \in P
  BY NumberOfNone, PowerFacts
<1>2. ASSUME NEW s \in P, NEW x \in Digit PROVE Append(s, x) \in P
  <2>1. /\ Len(Append(s, x)) = Len(s) + 1 /\ Len(s) \in Nat
        /\ s \in Seq(Digit) /\ Append(s, x) \in Seq(Digit)
    OBVIOUS
  <2>2. ASSUME Len(Append(s, x)) <= 3 PROVE Number(Append(s, x)) < Power[Len(Append(s, x))]
    <3>1. Len(s) \in 0..2 /\ Number(s) < Power[Len(s)]
      <4>1. Len(s) \in 0..2 /\ Len(s) <= 3
        <5> HIDE DEF P
        <5>1. Len(s) <= 2 /\ Len(s) <= 3
          BY <2>1, <2>2
        <5> QED BY <2>1, <5>1, LenIsSmall
      <4> QED BY <4>1
    <3>2. Number(Append(s, x)) = 10 * Number(s) + DigitValue[x]
      BY <2>1, NumberOfDigit
    <3> DEFINE k == Number(s)
               v == DigitValue[x]
               z == Number(Append(s, x))
    <3>3. k \in Nat /\ v \in 0..9 /\ z = 10 * k + v /\ k < Power[Len(s)]
      BY <2>1, <3>1, <3>2, NumberType, DigitValueType
    <3> HIDE DEF k, v, z
    <3>4. z < Power[Len(s) + 1]
      <4> HIDE DEF P
      <4>1. CASE Len(s) = 0
        BY <3>3, <4>1, PowerFacts
      <4>2. CASE Len(s) = 1
        BY <3>3, <4>2, PowerFacts
      <4>3. CASE Len(s) = 2
        BY <3>3, <4>3, PowerFacts
      <4> QED BY <3>1, <4>1, <4>2, <4>3
    <3> QED BY <2>1, <3>4 DEF z
  <2> QED BY <2>1, <2>2
<1>3. P = Seq(Digit)
  <2> HIDE DEF P
  <2>1. P \in SUBSET Seq(Digit)
    BY DEF P
  <2> QED BY <1>1, <1>2, <2>1, AppendInduction
<1>4. Number(d) \in Nat /\ Number(d) < Power[Len(d)]
  BY <1>3, NumberType
<1>5. Len(d) \in 0..3
  BY LenIsSmall
<1>6. Power[Len(d)] \in Nat
  BY <1>5, PowerFacts
<1> QED BY <1>4, <1>6

\* A zero more at the end of a fraction.
LEMMA PadGrows ==
    ASSUME NEW d \in Seq(Digit), NEW n \in Nat, Len(d) <= n
    PROVE  /\ padRightZeros(d, n) \in Seq(Digit) /\ Len(padRightZeros(d, n)) = n
           /\ Number(padRightZeros(d, n + 1)) = 10 * Number(padRightZeros(d, n))
<1> DEFINE z(k) == [i \in 1..(k - Len(d)) |-> "0"]
<1>1. "0" \in Digit /\ DigitValue["0"] = 0
  BY DEF Digit, DigitValue
<1>2. ASSUME NEW k \in Nat, Len(d) <= k PROVE z(k) \in Seq(Digit) /\ Len(z(k)) = k - Len(d)
  <2>1. k - Len(d) \in Nat
    BY <1>2
  <2> QED BY <1>1, <2>1
<1>3. padRightZeros(d, n) \in Seq(Digit) /\ Len(padRightZeros(d, n)) = n
  <2>1. z(n) \in Seq(Digit) /\ Len(z(n)) = n - Len(d)
    BY <1>2
  <2>2. padRightZeros(d, n) = d \o z(n)
    BY DEF padRightZeros
  <2> HIDE DEF z
  <2> QED BY <2>1, <2>2, ConcatProperties
<1>4. z(n + 1) = Append(z(n), "0")
  <2> DEFINE a == z(n + 1)
             b == Append(z(n), "0")
             m == n - Len(d)
  <2>1. m \in Nat /\ z(n) \in Seq(Digit) /\ Len(z(n)) = m /\ \A i \in 1..m : z(n)[i] = "0"
    BY <1>2
  <2>2. a \in Seq(Digit) /\ Len(a) = m + 1 /\ \A i \in 1..(m + 1) : a[i] = "0"
    <3>1. n + 1 \in Nat /\ Len(d) <= n + 1 /\ (n + 1) - Len(d) = m + 1
      OBVIOUS
    <3> QED BY <1>2, <3>1
  <2> HIDE DEF z, m
  <2>3. b \in Seq(Digit) /\ Len(b) = m + 1 /\ \A i \in 1..(m + 1) : b[i] = "0"
    BY <1>1, <2>1
  <2> HIDE DEF a, b
  <2>4. a = b
    BY <2>2, <2>3, SeqEqual
  <2> QED BY <2>4 DEF a, b
<1>5. padRightZeros(d, n + 1) = Append(padRightZeros(d, n), "0")
  <2>1. z(n) \in Seq(Digit)
    BY <1>2
  <2>2. padRightZeros(d, n) = d \o z(n) /\ padRightZeros(d, n + 1) = d \o z(n + 1)
    BY DEF padRightZeros
  <2> HIDE DEF z
  <2>3. d \o Append(z(n), "0") = Append(d \o z(n), "0")
    BY <1>1, <2>1, ConcatAppend
  <2> QED BY <1>4, <2>2, <2>3
<1>6. Number(padRightZeros(d, n)) \in Nat
  BY <1>3, NumberType
<1> DEFINE p == padRightZeros(d, n)
<1>7. Number(Append(p, "0")) = 10 * Number(p) + DigitValue["0"]
  <2> HIDE DEF p
  <2> QED BY <1>1, <1>3, NumberOfDigit DEF p
<1>8. Number(Append(p, "0")) = 10 * Number(p)
  <2> DEFINE k == Number(p)
  <2>1. k \in Nat /\ Number(Append(p, "0")) = 10 * k + 0
    BY <1>1, <1>6, <1>7
  <2> HIDE DEF k, p
  <2> QED BY <2>1 DEF k
<1> QED BY <1>3, <1>5, <1>8

LEMMA PadOfItself == ASSUME NEW d \in Seq(Digit) PROVE padRightZeros(d, Len(d)) = d
<1>1. [i \in 1..(Len(d) - Len(d)) |-> "0"] = <<>>
  OBVIOUS
<1> QED BY <1>1 DEF padRightZeros

\* The thousandths of a fraction of up to three digits.
Thousandths(d) == Number(padRightZeros(d, 3))

LEMMA ThousandthsOf ==
    ASSUME NEW d \in Seq(Digit), Len(d) <= 3
    PROVE  Thousandths(d) = Power[3 - Len(d)] * Number(d) /\ Thousandths(d) \in 0..999
<1> DEFINE N(n) == Number(padRightZeros(d, n))
<1>1. Len(d) \in 0..3 /\ N(Len(d)) = Number(d) /\ Number(d) \in Nat
  <2>1. Len(d) \in 0..3
    BY LenIsSmall
  <2> QED BY <2>1, PadOfItself, NumberType
<1>2. \A n \in 0..2 : Len(d) <= n => N(n + 1) = 10 * N(n) /\ N(n) \in Nat
  <2>1. ASSUME NEW n \in 0..2, Len(d) <= n PROVE N(n + 1) = 10 * N(n) /\ N(n) \in Nat
    <3>1. n \in Nat
      OBVIOUS
    <3> QED BY <2>1, <3>1, PadGrows, NumberType
  <2> QED BY <2>1
<1>3. N(3) \in 0..999
  <2>1. padRightZeros(d, 3) \in Seq(Digit) /\ Len(padRightZeros(d, 3)) = 3
    <3>1. 3 \in Nat
      OBVIOUS
    <3> QED BY <3>1, PadGrows
  <2>2. Number(padRightZeros(d, 3)) \in 0..(Power[3] - 1)
    <3> DEFINE p == padRightZeros(d, 3)
    <3>0. p \in Seq(Digit) /\ Len(p) = 3
      BY <2>1
    <3> HIDE DEF p
    <3>1. p \in Seq(Digit) /\ Len(p) = 3 /\ Len(p) <= 3
      BY <3>0
    <3>2. Number(p) \in 0..(Power[Len(p)] - 1)
      BY <3>1, NumberIsSmall
    <3> QED BY <3>1, <3>2 DEF p
  <2>3. Power[3] - 1 = 999
    BY PowerFacts
  <2> QED BY <2>2, <2>3
<1> HIDE DEF N
<1>4. N(3) = Power[3 - Len(d)] * Number(d)
  <2> DEFINE k == Number(d)
  <2>1. k \in Nat /\ N(Len(d)) = k
    BY <1>1
  <2> HIDE DEF k
  <2>2. CASE Len(d) = 3
    BY <2>1, <2>2, PowerFacts DEF k
  <2>3. CASE Len(d) = 2
    <3>1. N(3) = 10 * N(2)
      BY <1>2, <2>3
    <3> QED BY <2>1, <2>3, <3>1, PowerFacts DEF k
  <2>4. CASE Len(d) = 1
    <3>1. N(3) = 10 * N(2) /\ N(2) = 10 * N(1)
      BY <1>2, <2>4
    <3>2. N(1) = k
      BY <2>1, <2>4
    <3> QED BY <2>1, <2>4, <3>1, <3>2, PowerFacts DEF k
  <2>5. CASE Len(d) = 0
    <3>1. N(3) = 10 * N(2) /\ N(2) = 10 * N(1) /\ N(1) = 10 * N(0)
      BY <1>2, <2>5
    <3>2. N(0) = k
      BY <2>1, <2>5
    <3> QED BY <2>1, <2>5, <3>1, <3>2, PowerFacts DEF k
  <2> QED BY <1>1, <2>2, <2>3, <2>4, <2>5
<1> QED BY <1>3, <1>4 DEF Thousandths, N

\* Fractions compare by their thousandths.
LEMMA FractionsCompare ==
    ASSUME NEW a \in Seq(Digit), NEW b \in Seq(Digit), Len(a) <= 3, Len(b) <= 3
    PROVE  compareFractionalPart(a, b) = Cmp(Thousandths(a), Thousandths(b))
<1> DEFINE n == IF Len(a) > Len(b) THEN Len(a) ELSE Len(b)
           A(k) == Number(padRightZeros(a, k))
           B(k) == Number(padRightZeros(b, k))
<1>1. n \in 0..3 /\ Len(a) <= n /\ Len(b) <= n
  <2>1. Len(a) \in 0..3 /\ Len(b) \in 0..3
    BY LenIsSmall
  <2> DEFINE x == Len(a)
             y == Len(b)
  <2>2. x \in 0..3 /\ y \in 0..3 /\ n = IF x > y THEN x ELSE y
    BY <2>1
  <2> HIDE DEF x, y, n
  <2>3. n \in 0..3 /\ x <= n /\ y <= n
    BY <2>2
  <2> QED BY <2>3 DEF x, y
<1>2. compareFractionalPart(a, b) = Cmp(A(n), B(n))
  <2> DEFINE p == padRightZeros(a, n)
             q == padRightZeros(b, n)
  <2>1. compareFractionalPart(a, b) = Order(p, q)
    BY DEF compareFractionalPart
  <2>2. p \in Seq(Digit) /\ q \in Seq(Digit) /\ Len(p) = Len(q)
    <3>1. n \in Nat
      BY <1>1
    <3> HIDE DEF n
    <3> QED BY <1>1, <3>1, PadGrows
  <2> HIDE DEF p, q, n
  <2>3. Order(p, q) = Cmp(Number(p), Number(q))
    BY <2>2, OrderIsNumeric
  <2> QED BY <2>1, <2>3 DEF p, q
<1> HIDE DEF n
<1>3. ASSUME NEW k \in 0..3, Len(a) <= k, Len(b) <= k
      PROVE  /\ A(k) \in Nat /\ B(k) \in Nat
             /\ A(k + 1) = 10 * A(k) /\ B(k + 1) = 10 * B(k)
  <2>1. k \in Nat
    OBVIOUS
  <2> QED BY <1>3, <2>1, PadGrows, NumberType
<1>4. ASSUME NEW k \in 0..2, Len(a) <= k, Len(b) <= k
      PROVE  /\ Len(a) <= k + 1 /\ Len(b) <= k + 1
             /\ Cmp(A(k + 1), B(k + 1)) = Cmp(A(k), B(k))
  <2> DEFINE u == A(k)
             v == B(k)
  <2>1. u \in Nat /\ v \in Nat /\ A(k + 1) = 10 * u /\ B(k + 1) = 10 * v
    <3>1. k \in 0..3
      OBVIOUS
    <3> HIDE DEF A, B
    <3> QED BY <1>3, <1>4, <3>1
  <2>2. Len(a) <= k + 1 /\ Len(b) <= k + 1
    <3>1. Len(a) \in Nat /\ Len(b) \in Nat
      OBVIOUS
    <3> QED BY <1>4, <3>1
  <2> HIDE DEF A, B, u, v
  <2>3. Cmp(A(k + 1), B(k + 1)) = Cmp(u, v)
    BY <2>1 DEF Cmp
  <2> QED BY <2>2, <2>3 DEF u, v
<1> HIDE DEF A, B
<1>5. Cmp(A(3), B(3)) = Cmp(A(n), B(n))
  <2>1. CASE n = 3
    BY <2>1
  <2>2. CASE n = 2
    BY <1>1, <1>4, <2>2
  <2>3. CASE n = 1
    <3>1. Len(a) <= 1 /\ Len(b) <= 1
      BY <1>1, <2>3
    <3>2. Len(a) <= 2 /\ Len(b) <= 2 /\ Cmp(A(2), B(2)) = Cmp(A(1), B(1))
      BY <1>4, <3>1
    <3>3. Cmp(A(3), B(3)) = Cmp(A(2), B(2))
      BY <1>4, <3>2
    <3> QED BY <2>3, <3>2, <3>3
  <2>4. CASE n = 0
    <3>1. Len(a) <= 0 /\ Len(b) <= 0
      BY <1>1, <2>4
    <3>2. Len(a) <= 1 /\ Len(b) <= 1 /\ Cmp(A(1), B(1)) = Cmp(A(0), B(0))
      BY <1>4, <3>1
    <3>3. Len(a) <= 2 /\ Len(b) <= 2 /\ Cmp(A(2), B(2)) = Cmp(A(1), B(1))
      BY <1>4, <3>2
    <3>4. Cmp(A(3), B(3)) = Cmp(A(2), B(2))
      BY <1>4, <3>3
    <3> QED BY <2>4, <3>2, <3>3, <3>4
  <2> QED BY <1>1, <2>1, <2>2, <2>3, <2>4
<1> QED BY <1>2, <1>5 DEF A, B, Thousandths

\* A part of s that is r byte for byte.
LEMMA PartOf ==
    ASSUME NEW T, NEW s, NEW p \in Nat, NEW r \in Seq(T),
           \A k \in 1..Len(r) : s[p + k] = r[k]
    PROVE  SubSeq(s, p + 1, p + Len(r)) = r
<1> DEFINE n == Len(r)
           a == SubSeq(s, p + 1, p + n)
<1>1. n \in Nat /\ \A k \in 1..n : r[k] \in T
  OBVIOUS
<1>2. ASSUME NEW k \in (p + 1)..(p + n) PROVE s[k] \in T
  <2> DEFINE m == k - p
  <2>1. m \in 1..n /\ p + m = k
    BY <1>1
  <2> HIDE DEF m
  <2>2. s[p + m] = r[m]
    BY <2>1
  <2> QED BY <1>1, <2>1, <2>2
<1>3. p + 1 \in Int /\ p + n \in Int
  BY <1>1
<1> HIDE DEF n
<1>4. /\ a \in Seq(T) /\ Len(a) = (IF p + 1 <= p + n THEN (p + n) - (p + 1) + 1 ELSE 0)
      /\ \A k \in 1..((p + n) - (p + 1) + 1) : a[k] = s[(p + 1) + k - 1]
  BY <1>2, <1>3, SubSeqProperties
<1> HIDE DEF a
<1>5. Len(a) = n
  BY <1>1, <1>4
<1>6. ASSUME NEW k \in 1..n PROVE a[k] = r[k]
  <2>1. k \in 1..((p + n) - (p + 1) + 1) /\ (p + 1) + k - 1 = p + k
    BY <1>1
  <2>2. a[k] = s[p + k]
    BY <1>4, <2>1
  <2> QED BY <2>2 DEF n
<1>7. a = r
  BY <1>4, <1>5, <1>6, SeqEqual DEF n
<1> QED BY <1>7 DEF a, n

\* What is before and behind the dot of a stamp.
Dotted(s, i, d) ==
    /\ s \in Seq(Digit \cup {"."}) /\ Len(s) = Len(i) + 1 + Len(d)
    /\ \A k \in DOMAIN s : s[k] = "." <=> k = Len(i) + 1
    /\ Len(i) + 1 \in DOMAIN s
    /\ SubSeq(s, 1, Len(i)) = i /\ SubSeq(s, Len(i) + 2, Len(s)) = d

LEMMA DotFacts ==
    ASSUME NEW i \in Seq(Digit), NEW d \in Seq(Digit)
    PROVE  Dotted(i \o <<".">> \o d, i, d)
<1> SUFFICES ASSUME NEW s, s = i \o <<".">> \o d PROVE Dotted(s, i, d)
  OBVIOUS
<1> DEFINE T == Digit \cup {"."}
           m == Len(i)
           n == Len(d)
           h == i \o <<".">>
<1>1. i \in Seq(T) /\ d \in Seq(T) /\ <<".">> \in Seq(T) /\ m \in Nat /\ n \in Nat
  OBVIOUS
<1>2. "." \notin Digit
  BY DEF Digit
<1>3. /\ h \in Seq(T) /\ Len(h) = m + 1 /\ h[m + 1] = "." /\ \A k \in 1..m : h[k] = i[k]
  <2>1. h = Append(i, ".")
    BY <1>1, AppendIsConcat
  <2> QED BY <1>1, <2>1, AppendProperties
<1> HIDE DEF h, T
<1>4. /\ s \in Seq(T) /\ Len(s) = (m + 1) + n
      /\ \A k \in 1..((m + 1) + n) : s[k] = IF k <= m + 1 THEN h[k] ELSE d[k - (m + 1)]
  <2>1. s = h \o d
    BY DEF h
  <2> QED BY <1>1, <1>3, <2>1, ConcatProperties
<1>5. \A k \in 1..m : i[k] \in Digit
  OBVIOUS
<1>6. \A k \in 1..n : d[k] \in Digit
  OBVIOUS
<1>7. DOMAIN s = 1..((m + 1) + n)
  BY <1>4
<1> HIDE DEF m, n
<1>8. \A k \in 1..m : k \in 1..((m + 1) + n) /\ s[k] = i[k]
  BY <1>1, <1>3, <1>4
<1>9. \A k \in 1..n : (m + 1) + k \in 1..((m + 1) + n) /\ s[(m + 1) + k] = d[k]
  <2>1. ASSUME NEW k \in 1..n PROVE (m + 1) + k \in 1..((m + 1) + n) /\ s[(m + 1) + k] = d[k]
    <3> DEFINE p == (m + 1) + k
    <3>1. p \in 1..((m + 1) + n) /\ ~(p <= m + 1) /\ p - (m + 1) = k
      BY <1>1
    <3> HIDE DEF p
    <3>2. s[p] = d[k]
      BY <1>4, <3>1
    <3> QED BY <3>1, <3>2 DEF p
  <2> QED BY <2>1
<1>10. m + 1 \in 1..((m + 1) + n) /\ s[m + 1] = "."
  BY <1>1, <1>3, <1>4
<1>11. ASSUME NEW k \in DOMAIN s PROVE s[k] = "." <=> k = m + 1
  <2>1. CASE k \in 1..m
    <3>1. s[k] \in Digit /\ k # m + 1
      BY <1>1, <1>5, <1>8, <2>1
    <3> QED BY <1>2, <3>1
  <2>2. CASE k = m + 1
    BY <1>10, <2>2
  <2>3. CASE k > m + 1
    <3> DEFINE p == k - (m + 1)
    <3>1. p \in 1..n /\ (m + 1) + p = k
      BY <1>1, <1>7, <2>3
    <3> HIDE DEF p
    <3>2. s[k] \in Digit
      BY <1>6, <1>9, <3>1
    <3> QED BY <1>1, <1>2, <2>3, <3>2
  <2> QED BY <1>1, <1>7, <2>1, <2>2, <2>3
<1>12. SubSeq(s, 1, m) = i
  <2>1. \A k \in 1..Len(i) : s[0 + k] = i[k]
    BY <1>1, <1>8 DEF m
  <2>2. SubSeq(s, 0 + 1, 0 + Len(i)) = i
    BY <2>1, PartOf
  <2>3. 0 + 1 = 1 /\ 0 + m = m
    BY <1>1
  <2> QED BY <2>2, <2>3 DEF m
<1>13. SubSeq(s, m + 2, Len(s)) = d
  <2>1. m + 1 \in Nat /\ \A k \in 1..Len(d) : s[(m + 1) + k] = d[k]
    <3>1. m + 1 \in Nat
      BY <1>1
    <3>2. \A k \in 1..Len(d) : s[(m + 1) + k] = d[k]
      BY <1>9 DEF n
    <3> QED BY <3>1, <3>2
  <2>2. SubSeq(s, (m + 1) + 1, (m + 1) + Len(d)) = d
    BY <2>1, PartOf
  <2>3. (m + 1) + 1 = m + 2 /\ Len(s) = (m + 1) + Len(d)
    BY <1>1, <1>4 DEF n
  <2> QED BY <2>2, <2>3
<1>14. Len(s) = m + 1 + n
  BY <1>1, <1>4
<1> QED BY <1>4, <1>7, <1>10, <1>11, <1>12, <1>13, <1>14 DEF m, n, T, Dotted

\* A stamp is its whole part and the digits of its fraction, if any.
StampOf(s, i, d) == s = i \o <<".">> \o d \/ (d = <<>> /\ s = i)

LEMMA StampParts ==
    ASSUME NEW i \in Seq(Digit), i # <<>>, NEW d \in Seq(Digit), Len(d) <= 3,
           NEW s, StampOf(s, i, d)
    PROVE  /\ s # <<>> /\ splitTS(s) = <<i, d>>
           /\ Value(s) = 1000 * Number(i) + Thousandths(d) /\ Value(s) \in Nat
<1>1. /\ Number(i) \in Nat /\ Number(d) \in Nat /\ Thousandths(d) \in 0..999
      /\ Thousandths(d) = Power[3 - Len(d)] * Number(d)
  BY NumberType, ThousandthsOf
<1>2. CASE s = i \o <<".">> \o d
  <2> DEFINE T == Digit \cup {"."}
             m == Len(i)
  <2>1. /\ s \in Seq(T) /\ Len(s) = m + 1 + Len(d) /\ m \in Nat /\ Len(d) \in Nat
        /\ \A k \in DOMAIN s : s[k] = "." <=> k = m + 1
        /\ m + 1 \in DOMAIN s
        /\ SubSeq(s, 1, m) = i /\ SubSeq(s, m + 2, Len(s)) = d
    <3>1. m \in Nat /\ Len(d) \in Nat
      OBVIOUS
    <3>2. Dotted(s, i, d)
      BY <1>2, DotFacts
    <3> QED BY <3>1, <3>2 DEF Dotted
  <2>2. s # <<>>
    BY <2>1
  <2>3. splitTS(s) = <<i, d>>
    <3> DEFINE dots == {k \in DOMAIN s : s[k] = "."}
               dot == CHOOSE k \in dots : \A j \in dots : k <= j
    <3>1. dots = {m + 1}
      <4> HIDE DEF m
      <4> QED BY <2>1
    <3>2. dot = m + 1
      <4>1. m + 1 <= m + 1
        BY <2>1
      <4> HIDE DEF m, dots
      <4> QED BY <3>1, <4>1
    <3>3. splitTS(s) = <<SubSeq(s, 1, dot - 1), SubSeq(s, dot + 1, Len(s))>>
      <4>1. dots # {}
        BY <3>1
      <4> QED BY <4>1 DEF splitTS
    <3>4. (m + 1) - 1 = m /\ (m + 1) + 1 = m + 2
      BY <2>1
    <3> HIDE DEF dot, m
    <3> QED BY <2>1, <3>2, <3>3, <3>4
  <2>4. FirstOfByte(s, ".") = m + 1
    <3>1. \A j \in 1..((m + 1) - 1) : j \in DOMAIN s /\ j # m + 1
      BY <2>1
    <3> HIDE DEF m
    <3>2. /\ m + 1 \in DOMAIN s /\ s[m + 1] = "." /\ \A j \in 1..((m + 1) - 1) : s[j] # "."
      BY <2>1, <3>1
    <3> QED BY <2>1, <3>2 DEF FirstOfByte
  <2>5. "." \in ToSet(s)
    BY <2>1 DEF ToSet
  <2>6. Len(s) - FirstOfByte(s, ".") = Len(d)
    <3> DEFINE k == Len(d)
    <3>1. k \in Nat /\ Len(s) = m + 1 + k
      BY <2>1
    <3> HIDE DEF m, k
    <3>2. Len(s) - FirstOfByte(s, ".") = k
      BY <2>1, <2>4, <3>1
    <3> QED BY <3>2 DEF k
  <2>7. Number(s) = Power[Len(d)] * Number(i) + Number(d)
    <3>1. i \in Seq(T) /\ "." \in T /\ Digit \subseteq T
      OBVIOUS
    <3>2. i \o <<".">> = Append(i, ".") /\ Append(i, ".") \in Seq(T)
      BY <3>1, AppendIsConcat, AppendProperties
    <3>3. Number(Append(i, ".")) = Number(i)
      BY <3>1, NumberOfAppend DEF NextNumber, Digit
    <3> HIDE DEF T
    <3>4. Number(Append(i, ".") \o d) = Power[Len(d)] * Number(Append(i, ".")) + Number(d)
      BY <3>1, <3>2, NumberOfConcat
    <3> QED BY <1>2, <3>2, <3>3, <3>4
  <2> DEFINE k == Len(d)
             scale == CASE k = 0 -> 1000 [] k = 1 -> 100 [] k = 2 -> 10 [] k = 3 -> 1
  <2>8. k \in 0..3
    BY LenIsSmall
  <2>9. Value(s) = Number(s) * scale
    <3> HIDE DEF k
    <3>1. Len(s) - FirstOfByte(s, ".") = k
      BY <2>6 DEF k
    <3> QED BY <2>2, <2>5, <3>1 DEF Value
  <2> DEFINE a == Number(i)
             b == Number(d)
  <2>10. /\ a \in Nat /\ b \in Nat /\ Value(s) = (Power[k] * a + b) * scale
         /\ Thousandths(d) = Power[3 - k] * b
    BY <1>1, <2>7, <2>9
  <2> HIDE DEF k, a, b, m
  <2>11. Value(s) = 1000 * a + Thousandths(d)
    <3>1. CASE k = 0
      <4>1. scale = 1000 /\ Power[k] = 1 /\ Power[3 - k] = 1000
        BY <3>1, PowerFacts
      <4> HIDE DEF scale
      <4> QED BY <2>10, <4>1
    <3>2. CASE k = 1
      <4>1. scale = 100 /\ Power[k] = 10 /\ Power[3 - k] = 100
        BY <3>2, PowerFacts
      <4> HIDE DEF scale
      <4> QED BY <2>10, <4>1
    <3>3. CASE k = 2
      <4>1. scale = 10 /\ Power[k] = 100 /\ Power[3 - k] = 10
        BY <3>3, PowerFacts
      <4> HIDE DEF scale
      <4> QED BY <2>10, <4>1
    <3>4. CASE k = 3
      <4>1. scale = 1 /\ Power[k] = 1000 /\ Power[3 - k] = 1
        BY <3>4, PowerFacts
      <4> HIDE DEF scale
      <4> QED BY <2>10, <4>1
    <3> QED BY <2>8, <3>1, <3>2, <3>3, <3>4
  <2>12. Value(s) \in Nat
    <3> DEFINE t == Thousandths(d)
    <3>1. t \in Nat
      <4>1. t \in 0..999
        BY <1>1
      <4> HIDE DEF t
      <4> QED BY <4>1
    <3>2. Value(s) = 1000 * a + t
      BY <2>11
    <3>3. a \in Nat
      BY <2>10
    <3> HIDE DEF t, scale
    <3>4. 1000 * a + t \in Nat
      BY <3>1, <3>3
    <3> QED BY <3>2, <3>4
  <2> QED BY <2>2, <2>3, <2>11, <2>12 DEF a
<1>3. CASE d = <<>> /\ s = i
  <2>1. \A k \in DOMAIN s : s[k] # "."
    BY <1>3 DEF Digit
  <2>2. s # <<>> /\ "." \notin ToSet(s)
    BY <1>3, <2>1 DEF ToSet
  <2>3. splitTS(s) = <<i, d>>
    <3>1. {k \in DOMAIN s : s[k] = "."} = {}
      BY <2>1
    <3> QED BY <1>3, <3>1 DEF splitTS
  <2>4. Thousandths(d) = 0
    <3>1. Len(d) = 0 /\ Number(d) = 0 /\ Power[3 - Len(d)] = 1000
      BY <1>3, NumberOfNone, PowerFacts
    <3> QED BY <1>1, <3>1
  <2>5. Value(s) = Number(s) * 1000
    BY <2>2 DEF Value
  <2> QED BY <1>1, <1>3, <2>2, <2>3, <2>4, <2>5
<1> QED BY <1>2, <1>3 DEF StampOf

\* A stamp as Slack writes it, its whole part as long as it likes, its fraction
\* of three digits at most; or none.
IsStamp(s) ==
    s # <<>> => \E i, d \in Seq(Digit) : /\ i # <<>> /\ i[1] # "0" /\ Len(d) <= 3
                                        /\ StampOf(s, i, d)

\* The stamps of the run are of that form.
LEMMA StampsAreStamps ==
    ASSUME NEW s \in Stamps PROVE IsStamp(s)
<1> SUFFICES ASSUME s # <<>>
             PROVE  \E i, d \in Seq(Digit) : /\ i # <<>> /\ i[1] # "0" /\ Len(d) <= 3
                                             /\ StampOf(s, i, d)
  BY DEF IsStamp
<1>1. PICK i \in Wholes, f \in Fractions : s = i \o f
  BY DEF Stamps
<1>2. i \in Seq(Digit) /\ i # <<>> /\ i[1] # "0"
  <2>1. "0" \in Digit /\ "1" \in Digit /\ "9" \in Digit
    BY DEF Digit
  <2>2. CASE i = <<"1">>
    BY <2>1, <2>2
  <2>3. CASE i = <<"9">>
    BY <2>1, <2>3
  <2>4. CASE i = <<"1", "0">>
    BY <2>1, <2>4
  <2>5. CASE i = <<"1", "9">>
    BY <2>1, <2>5
  <2> QED BY <2>2, <2>3, <2>4, <2>5 DEF Wholes
<1>3. CASE f = <<>>
  <2>1. s = i /\ <<>> \in Seq(Digit) /\ Len(<<>>) <= 3
    BY <1>1, <1>2, <1>3, ConcatEmptySeq
  <2> QED BY <1>2, <2>1 DEF StampOf
<1>4. CASE f # <<>>
  <2>1. PICK d \in Strings(Digit, 3) : f = <<".">> \o d
    BY <1>4 DEF Fractions
  <2>2. PICK k \in 0..3 : d \in [1..k -> Digit]
    BY DEF Strings
  <2>3. d \in Seq(Digit) /\ Len(d) = k
    BY <2>2
  <2>4. Len(d) <= 3
    BY <2>3
  <2>5. s = i \o <<".">> \o d
    <3> DEFINE T == Digit \cup {"."}
    <3>1. i \in Seq(T) /\ <<".">> \in Seq(T) /\ d \in Seq(T)
      BY <1>2, <2>3
    <3> QED BY <1>1, <2>1, <3>1, ConcatAssociative
  <2> QED BY <1>2, <2>3, <2>4, <2>5 DEF StampOf
<1> QED BY <1>3, <1>4

\* Integer part first, then the fractions padded to one length, is by value.
THEOREM CompareIsByValue ==
    ASSUME NEW a, IsStamp(a), NEW b, IsStamp(b)
    PROVE  compareTS(a, b) = (IF Value(a) < Value(b) THEN -1
                              ELSE IF Value(a) > Value(b) THEN 1 ELSE 0)
<1>1. Value(<<>>) = -1
  BY DEF Value
<1>2. ASSUME NEW s, IsStamp(s), s # <<>> PROVE Value(s) \in Nat
  <2>1. PICK i, d \in Seq(Digit) : i # <<>> /\ Len(d) <= 3 /\ StampOf(s, i, d)
    BY <1>2 DEF IsStamp
  <2> QED BY <2>1, StampParts
<1>3. Value(a) \in Int /\ Value(b) \in Int
  BY <1>1, <1>2
<1>4. CASE a = b
  BY <1>3, <1>4 DEF compareTS
<1>5. CASE a # b /\ (a = <<>> \/ b = <<>>)
  <2>1. CASE a = <<>>
    <3>1. Value(a) = -1 /\ Value(b) \in Nat
      BY <1>1, <1>2, <1>5, <2>1
    <3> QED BY <1>5, <2>1, <3>1 DEF compareTS
  <2>2. CASE a # <<>>
    <3>1. b = <<>> /\ Value(b) = -1 /\ Value(a) \in Nat
      BY <1>1, <1>2, <1>5, <2>2
    <3> QED BY <1>5, <2>2, <3>1 DEF compareTS
  <2> QED BY <2>1, <2>2
<1>6. CASE a # b /\ a # <<>> /\ b # <<>>
  <2>1. PICK i, d \in Seq(Digit) : i # <<>> /\ i[1] # "0" /\ Len(d) <= 3 /\ StampOf(a, i, d)
    BY <1>6 DEF IsStamp
  <2>2. PICK k, f \in Seq(Digit) : k # <<>> /\ k[1] # "0" /\ Len(f) <= 3 /\ StampOf(b, k, f)
    BY <1>6 DEF IsStamp
  <2>3. splitTS(a) = <<i, d>> /\ Value(a) = 1000 * Number(i) + Thousandths(d)
    BY <2>1, StampParts
  <2>4. splitTS(b) = <<k, f>> /\ Value(b) = 1000 * Number(k) + Thousandths(f)
    BY <2>2, StampParts
  <2> DEFINE m == Number(i)
             n == Number(k)
             v == Thousandths(d)
             w == Thousandths(f)
  <2>5. m \in Nat /\ n \in Nat /\ v \in 0..999 /\ w \in 0..999
    BY <2>1, <2>2, NumberType, ThousandthsOf
  <2>6. compareIntegerPart(i, k) = Cmp(m, n)
    <3>1. CASE Len(i) < Len(k)
      <4>1. m < n
        BY <2>2, <3>1, ShorterIsSmaller
      <4>2. compareIntegerPart(i, k) = -1
        BY <3>1 DEF compareIntegerPart
      <4> QED BY <4>1, <4>2 DEF Cmp
    <3>2. CASE Len(i) > Len(k)
      <4>1. n < m /\ ~(m < n)
        <5>1. n < m
          BY <2>1, <3>2, ShorterIsSmaller
        <5> HIDE DEF m, n
        <5> QED BY <2>5, <5>1
      <4>2. compareIntegerPart(i, k) = 1
        BY <3>2 DEF compareIntegerPart
      <4> HIDE DEF m, n
      <4> QED BY <2>5, <4>1, <4>2 DEF Cmp
    <3>3. CASE Len(i) = Len(k)
      <4>1. compareIntegerPart(i, k) = Order(i, k)
        BY <3>3 DEF compareIntegerPart
      <4> QED BY <3>3, <4>1, OrderIsNumeric
    <3>4. Len(i) \in Nat /\ Len(k) \in Nat
      OBVIOUS
    <3> QED BY <3>1, <3>2, <3>3, <3>4
  <2>7. compareFractionalPart(d, f) = Cmp(v, w)
    BY <2>1, <2>2, FractionsCompare
  <2>8. compareTS(a, b) = IF Cmp(m, n) # 0 THEN Cmp(m, n) ELSE Cmp(v, w)
    BY <1>6, <2>3, <2>4, <2>6, <2>7 DEF compareTS
  <2>9. Value(a) = 1000 * m + v /\ Value(b) = 1000 * n + w
    BY <2>3, <2>4
  <2> HIDE DEF m, n, v, w
  <2> QED BY <2>5, <2>8, <2>9 DEF Cmp
<1> QED BY <1>4, <1>5, <1>6

\* Of any two stamps the one with the greater value is the later one.
LEMMA StampsAlwaysCompare == ASSUME IsStamp(ts1), IsStamp(ts2) PROVE StampsCompareByValue
BY CompareIsByValue DEF StampsCompareByValue

---------------------------------------------------------------------------
(* Taking ids apart *)

\* A byte that occurs has a last place and a first one.
LEMMA LastByteIsThere ==
    ASSUME NEW B, NEW s \in Seq(B), NEW b, b \in ToSet(s)
    PROVE  LastOf(s, b) \in 1..Len(s) /\ s[LastOf(s, b)] = b
<1> DEFINE Is(r, i) == r[i] = b /\ \A j \in (i + 1)..Len(r) : r[j] # b
           P == {r \in Seq(B) : b \in ToSet(r) => \E i \in 1..Len(r) : Is(r, i)}
<1>1. <<>> \in P
  BY DEF ToSet
<1>2. ASSUME NEW r \in P, NEW x \in B PROVE Append(r, x) \in P
  <2> DEFINE q == Append(r, x)
             n == Len(r)
  <2>1. /\ q \in Seq(B) /\ Len(q) = n + 1 /\ n \in Nat /\ q[n + 1] = x
        /\ \A k \in 1..n : q[k] = r[k]
    OBVIOUS
  <2> SUFFICES ASSUME b \in ToSet(q) PROVE \E i \in 1..Len(q) : Is(q, i)
    BY <2>1
  <2> HIDE DEF q
  <2>2. CASE x = b
    <3>1. Is(q, n + 1) /\ n + 1 \in 1..Len(q)
      BY <2>1, <2>2
    <3> QED BY <3>1
  <2>3. CASE x # b
    <3>1. PICK k \in 1..(n + 1) : q[k] = b
      BY <2>1 DEF ToSet
    <3>2. k \in 1..n /\ r[k] = b
      BY <2>1, <2>3, <3>1
    <3>3. b \in ToSet(r)
      BY <3>2 DEF ToSet
    <3>4. PICK i \in 1..n : Is(r, i)
      BY <3>3
    <3>5. Is(q, i) /\ i \in 1..Len(q)
      BY <2>1, <2>3, <3>4
    <3> QED BY <3>5
  <2> QED BY <2>2, <2>3
<1>3. P = Seq(B)
  <2>1. P \in SUBSET Seq(B)
    OBVIOUS
  <2> HIDE DEF P
  <2> QED BY <1>1, <1>2, <2>1, AppendInduction
<1>4. \E i \in DOMAIN s : Is(s, i)
  BY <1>3
<1>5. Is(s, LastOf(s, b)) /\ LastOf(s, b) \in DOMAIN s
  BY <1>4 DEF LastOf
<1> QED BY <1>5

LEMMA FirstByteIsThere ==
    ASSUME NEW B, NEW s \in Seq(B), NEW b, b \in ToSet(s)
    PROVE  FirstOfByte(s, b) \in 1..Len(s) /\ s[FirstOfByte(s, b)] = b
<1> DEFINE Is(r, i) == r[i] = b /\ \A j \in 1..(i - 1) : r[j] # b
           P == {r \in Seq(B) : b \in ToSet(r) => \E i \in 1..Len(r) : Is(r, i)}
<1>1. <<>> \in P
  BY DEF ToSet
<1>2. ASSUME NEW r \in P, NEW x \in B PROVE Append(r, x) \in P
  <2> DEFINE q == Append(r, x)
             n == Len(r)
  <2>1. /\ q \in Seq(B) /\ Len(q) = n + 1 /\ n \in Nat /\ q[n + 1] = x
        /\ \A k \in 1..n : q[k] = r[k]
    OBVIOUS
  <2> SUFFICES ASSUME b \in ToSet(q) PROVE \E i \in 1..Len(q) : Is(q, i)
    BY <2>1
  <2> HIDE DEF q
  <2>2. CASE b \in ToSet(r)
    <3>1. PICK i \in 1..n : Is(r, i)
      BY <2>2
    <3>2. Is(q, i) /\ i \in 1..Len(q)
      BY <2>1, <3>1
    <3> QED BY <3>2
  <2>3. CASE b \notin ToSet(r)
    <3>1. \A k \in 1..n : r[k] # b
      BY <2>3 DEF ToSet
    <3>2. PICK k \in 1..(n + 1) : q[k] = b
      BY <2>1 DEF ToSet
    <3>3. k = n + 1
      BY <2>1, <3>1, <3>2
    <3>4. Is(q, n + 1) /\ n + 1 \in 1..Len(q)
      BY <2>1, <3>1, <3>2, <3>3
    <3> QED BY <3>4
  <2> QED BY <2>2, <2>3
<1>3. P = Seq(B)
  <2>1. P \in SUBSET Seq(B)
    OBVIOUS
  <2> HIDE DEF P
  <2> QED BY <1>1, <1>2, <2>1, AppendInduction
<1>4. \E i \in DOMAIN s : Is(s, i)
  BY <1>3
<1>5. Is(s, FirstOfByte(s, b)) /\ FirstOfByte(s, b) \in DOMAIN s
  BY <1>4 DEF FirstOfByte
<1> QED BY <1>5

\* A text is what stands before one of its bytes, that byte, and what follows.
LEMMA AroundAByte ==
    ASSUME NEW B, NEW s \in Seq(B), NEW i \in 1..Len(s)
    PROVE  /\ SubSeq(s, 1, i - 1) \in Seq(B) /\ SubSeq(s, i + 1, Len(s)) \in Seq(B)
           /\ s = SubSeq(s, 1, i - 1) \o <<s[i]>> \o SubSeq(s, i + 1, Len(s))
<1> DEFINE n == Len(s)
<1>1. n \in Nat /\ \A k \in 1..n : s[k] \in B
  OBVIOUS
<1>2. /\ SubSeq(s, 1, i - 1) \in Seq(B) /\ SubSeq(s, i + 1, n) \in Seq(B)
      /\ SubSeq(s, 1, i) \in Seq(B)
  <2>1. \A k \in 1..(i - 1) : s[k] \in B
    BY <1>1
  <2>2. \A k \in (i + 1)..n : s[k] \in B
    BY <1>1
  <2>3. \A k \in 1..i : s[k] \in B
    BY <1>1
  <2>4. 1 \in Int /\ i - 1 \in Int /\ i + 1 \in Int /\ n \in Int /\ i \in Int
    BY <1>1
  <2> QED BY <2>1, <2>2, <2>3, <2>4, SubSeqProperties
<1>3. SubSeq(s, 1, i) = SubSeq(s, 1, i - 1) \o <<s[i]>>
  <2>1. 1 \in 1..Len(s) /\ i \in 1..Len(s)
    OBVIOUS
  <2> QED BY <2>1, SubSeqRecursiveSecond
<1>4. SubSeq(s, 1, i) \o SubSeq(s, i + 1, n) = SubSeq(s, 1, n)
  <2>1. 1 \in 1..(n + 1) /\ i \in (1 - 1)..n /\ n \in i..n
    BY <1>1
  <2> QED BY <2>1, ConcatAdjacentSubSeq
<1>5. SubSeq(s, 1, n) = s
  BY SubSeqFull
<1> QED BY <1>2, <1>3, <1>4, <1>5

\* A number with a "1" among its digits is positive.
LEMMA NumberIsPositive ==
    ASSUME NEW B, NEW s \in Seq(B), IsNumber(s) PROVE Number(s) > 0
<1> DEFINE D == {"0", "1"}
           P == {r \in Seq(D) : "1" \in ToSet(r) => Number(r) > 0}
<1>1. <<>> \in P
  BY DEF ToSet
<1>2. ASSUME NEW r \in P, NEW x \in D PROVE Append(r, x) \in P
  <2> DEFINE q == Append(r, x)
             n == Len(r)
             v == Number(r)
  <2>1. /\ q \in Seq(D) /\ Len(q) = n + 1 /\ n \in Nat /\ q[n + 1] = x
        /\ \A k \in 1..n : q[k] = r[k]
    OBVIOUS
  <2> SUFFICES ASSUME "1" \in ToSet(q) PROVE Number(q) > 0
    BY <2>1
  <2>2. Number(q) = 10 * v + DigitValue[x] /\ v \in Nat
    <3>1. r \in Seq(D)
      OBVIOUS
    <3>2. Number(q) = NextNumber(v, x) /\ v \in Nat
      BY <3>1, NumberOfAppend, NumberType
    <3> QED BY <3>2 DEF NextNumber, Digit
  <2>3. DigitValue["0"] = 0 /\ DigitValue["1"] = 1
    BY DEF DigitValue, Digit
  <2>4. CASE x = "1"
    <3> HIDE DEF q, v
    <3> QED BY <2>2, <2>3, <2>4
  <2>5. CASE x = "0"
    <3> HIDE DEF q
    <3>1. PICK k \in 1..(n + 1) : q[k] = "1"
      BY <2>1 DEF ToSet
    <3>2. k \in 1..n /\ r[k] = "1"
      BY <2>1, <2>5, <3>1
    <3>3. v > 0
      BY <3>2 DEF ToSet
    <3> HIDE DEF v
    <3> QED BY <2>2, <2>3, <2>5, <3>3
  <2> QED BY <2>4, <2>5
<1>3. P = Seq(D)
  <2>1. P \in SUBSET Seq(D)
    OBVIOUS
  <2> HIDE DEF P
  <2> QED BY <1>1, <1>2, <2>1, AppendInduction
<1>4. s \in Seq(D) /\ "1" \in ToSet(s)
  BY DEF IsNumber, ToSet
<1> QED BY <1>3, <1>4

\* An id that is accepted is the text its parts were taken from.
LEMMA IdsAlwaysComeApart ==
    ASSUME NEW B, text \in Seq(B) PROVE IdsComeApart
<1> DEFINE p == parseExternalID(text)
           h == LastOf(text, "#")
           prefix == SubSeq(text, 1, h - 1)
           number == SubSeq(text, h + 1, Len(text))
           d == FirstOfByte(prefix, "/")
           owner == SubSeq(prefix, 1, d - 1)
           repo == SubSeq(prefix, d + 1, Len(prefix))
<1> SUFFICES ASSUME p # Invalid
             PROVE  /\ text = p.owner \o <<"/">> \o p.repo \o <<"#">> \o number
                    /\ p.number > 0 /\ Head(p.owner) # "-" /\ Head(p.repo) # "-"
  BY DEF IdsComeApart
<1>1. /\ "#" \in ToSet(text) /\ "/" \in ToSet(prefix)
      /\ ownerRepoSegment(owner) /\ ownerRepoSegment(repo) /\ IsNumber(number)
      /\ p = [owner |-> owner, repo |-> repo, number |-> Number(number)]
  BY DEF parseExternalID
<1>2. p.owner = owner /\ p.repo = repo /\ p.number = Number(number)
  <2> DEFINE v == Number(number)
  <2>1. p = [owner |-> owner, repo |-> repo, number |-> v]
    BY <1>1
  <2> HIDE DEF p, owner, repo, v
  <2>2. p.owner = owner /\ p.repo = repo /\ p.number = v
    BY <2>1
  <2> QED BY <2>2 DEF v
<1> HIDE DEF p
<1>3. h \in 1..Len(text) /\ text[h] = "#"
  BY <1>1, LastByteIsThere
<1> HIDE DEF h
<1>4. prefix \in Seq(B) /\ number \in Seq(B) /\ text = prefix \o <<"#">> \o number
  BY <1>3, AroundAByte
<1> HIDE DEF prefix, number
<1>5. d \in 1..Len(prefix) /\ prefix[d] = "/"
  BY <1>1, <1>4, FirstByteIsThere
<1> HIDE DEF d
<1>6. owner \in Seq(B) /\ repo \in Seq(B) /\ prefix = owner \o <<"/">> \o repo
  BY <1>4, <1>5, AroundAByte
<1>7. Head(owner) # "-" /\ Head(repo) # "-"
  BY <1>1 DEF ownerRepoSegment, Letter
<1>8. Number(number) > 0
  BY <1>1, <1>4, NumberIsPositive
<1> HIDE DEF owner, repo
<1> QED BY <1>2, <1>4, <1>6, <1>7, <1>8

---------------------------------------------------------------------------
(* Manifests *)

\* What a manifest that loads declares is either mandatory or has been compared
\* with what is implemented.
LEMMA DeclaredIsAlwaysImplemented == DeclaredIsImplemented
<1> DEFINE d == LoadManifest(caps)
<1>1. d \subseteq Mandatory \cup Optional
  BY DEF LoadManifest, Known
<1> HIDE DEF d
<1>2. ASSUME NEW impl \in SUBSET Optional, ValidateAgainstManifest(d, impl)
      PROVE  d \subseteq Mandatory \cup impl
  BY <1>1, <1>2 DEF ValidateAgainstManifest
<1> QED BY <1>2 DEF DeclaredIsImplemented, d

---------------------------------------------------------------------------

\* Inputs of the right kinds, of any length: files, stamps, and texts of bytes.
FormatInputs ==
    /\ body \in Seq(FileByte)
    /\ IsStamp(ts1) /\ IsStamp(ts2)
    /\ text \in Seq({"a", "1", "-", "/", "#"})

LEMMA InputsAreConverted == FormatInputs => ConversionsAreRight
BY RewritesKeepOtherLines, StampsAlwaysCompare, IdsAlwaysComeApart,
   DeclaredIsAlwaysImplemented
   DEF FormatInputs, ConversionsAreRight

LEMMA InputsBegin == FormatInit => FormatInputs
<1>1. \A S, n : Strings(S, n) \subseteq Seq(S)
  <2> SUFFICES ASSUME NEW S, NEW n, NEW s \in Strings(S, n) PROVE s \in Seq(S)
    OBVIOUS
  <2>1. PICK k \in 0..n : s \in [1..k -> S]
    BY DEF Strings
  <2>2. k \in Nat
    OBVIOUS
  <2> QED BY <2>1, <2>2
<1>2. IsStamp(<<>>) /\ \A S : <<>> \in Seq(S)
  BY DEF IsStamp
<1>3. \A s \in Stamps : IsStamp(s)
  BY StampsAreStamps
<1> QED BY <1>1, <1>2, <1>3 DEF FormatInit, FormatInputs, FileByte

==============================================================================
