---------------------------- MODULE SourceFormats ----------------------------
(***************************************************************************)
(* The conversions the sources rest on: rewriting one line of a text file  *)
(* (markdown/writer.go), comparing Slack time stamps (slack.go), taking an *)
(* external id apart again (github.go), and what a manifest must be like   *)
(* (manifest.go, registry.go).  A text is a sequence of bytes as far as    *)
(* these functions tell bytes apart.  The state is one input.              *)
(***************************************************************************)
EXTENDS Integers, Sequences, FiniteSets, SequencesExt

CONSTANTS MaxBody, MaxId    \* bounds: lengths of the texts

ASSUME FormatAssumption == MaxBody \in Nat /\ MaxId \in Nat

VARIABLES
    body,       \* a file: "t" an open task's text, "p" prose, CR and LF
    ts1, ts2,   \* Slack stamps: sequences of digits and dots
    text,       \* something that may be an id
    caps        \* the capabilities a plugin.toml lists

formatVars == <<body, ts1, ts2, text, caps>>

CR == "\r"
LF == "\n"
Strings(S, n) == UNION {[1..k -> S] : k \in 0..n}

---------------------------------------------------------------------------
\* markdown/writer.go

\* The pieces of s between the places where a separator stands.
Pieces(s, sep) ==
    LET pieces[i \in 0..Len(s)] ==
            IF i = 0 THEN <<<<>>>>
            ELSE LET ps == pieces[i - 1]
                 IN IF s[i] = sep THEN Append(ps, <<>>)
                    ELSE Append(Front(ps), Append(Last(ps), s[i]))
    IN pieces[Len(s)]

EndsIn(s, b) == s # <<>> /\ Last(s) = b
stripTrailingCR(s) == IF EndsIn(s, CR) THEN Front(s) ELSE s

splitLines(s) ==
    IF s = <<>> THEN <<>>
    ELSE LET raw == Pieces(IF EndsIn(s, LF) THEN Front(s) ELSE s, LF)
         IN [k \in DOMAIN raw |-> stripTrailingCR(raw[k])]

detectEOL(s) ==
    IF \E i \in 1..(Len(s) - 1) : s[i] = CR /\ s[i + 1] = LF THEN <<CR, LF>> ELSE <<LF>>

joinLines(ls, eol) ==
    LET upTo[k \in 0..Len(ls)] == IF k = 0 THEN <<>>
                                  ELSE IF k = 1 THEN ls[k] ELSE upTo[k - 1] \o eol \o ls[k]
    IN upTo[Len(ls)]

\* injectMarker: line k gets its marker; the last newline is put back unless
\* the rejoined text ends in one.
injectInto(s, k) ==
    LET out == joinLines([splitLines(s) EXCEPT ![k] = <<"m">>], detectEOL(s))
    IN IF EndsIn(s, LF) /\ ~EndsIn(out, LF) THEN out \o detectEOL(s) ELSE out

\* A mutant: the last newline is not put back.
completeJoined(s, k) == joinLines([splitLines(s) EXCEPT ![k] = <<"x">>], detectEOL(s))

\* Complete always puts it back.
completeIn(s, k) ==
    LET out == joinLines([splitLines(s) EXCEPT ![k] = <<"x">>], detectEOL(s))
    IN IF EndsIn(s, LF) THEN out \o detectEOL(s) ELSE out

deleteFrom(s, k) ==
    LET out == joinLines(RemoveAt(splitLines(s), k), detectEOL(s))
    IN IF EndsIn(s, LF) /\ ~EndsIn(out, LF) THEN out \o detectEOL(s) ELSE out

appendLine(s) ==
    (IF s # <<>> /\ ~EndsIn(s, LF) THEN s \o detectEOL(s) ELSE s) \o <<"t">> \o detectEOL(s)

\* The checklist lines parse finds.
TaskLines(s) == {k \in DOMAIN splitLines(s) : splitLines(s)[k] = <<"t">>}

---------------------------------------------------------------------------
\* slack.go (and its copy in reaction.go)

Digit == {"0", "1", "9"}
DigitValue == [d \in Digit |-> CASE d = "0" -> 0 [] d = "1" -> 1 [] d = "9" -> 9]

\* The number that the digits of s spell.
Number(s) ==
    LET upTo[i \in 0..Len(s)] ==
            IF i = 0 THEN 0
            ELSE IF s[i] \in Digit THEN 10 * upTo[i - 1] + DigitValue[s[i]] ELSE upTo[i - 1]
    IN upTo[Len(s)]

\* Go's comparison of strings that are equally long.
Smaller(a, b) == \E i \in DOMAIN a : /\ DigitValue[a[i]] < DigitValue[b[i]]
                                     /\ \A j \in 1..(i - 1) : a[j] = b[j]
Order(a, b) == IF a = b THEN 0 ELSE IF Smaller(a, b) THEN -1 ELSE 1

splitTS(s) == LET dots == {i \in DOMAIN s : s[i] = "."}
              IN IF dots = {} THEN <<s, <<>>>>
                 ELSE LET d == CHOOSE i \in dots : \A j \in dots : i <= j
                      IN <<SubSeq(s, 1, d - 1), SubSeq(s, d + 1, Len(s))>>

compareIntegerPart(a, b) ==
    IF Len(a) < Len(b) THEN -1 ELSE IF Len(a) > Len(b) THEN 1 ELSE Order(a, b)

padRightZeros(s, n) == s \o [k \in 1..(n - Len(s)) |-> "0"]

compareFractionalPart(a, b) ==
    LET n == IF Len(a) > Len(b) THEN Len(a) ELSE Len(b)
    IN Order(padRightZeros(a, n), padRightZeros(b, n))

compareTS(a, b) ==
    IF a = b THEN 0
    ELSE IF a = <<>> THEN -1
    ELSE IF b = <<>> THEN 1
    ELSE LET x == splitTS(a)
             y == splitTS(b)
             c == compareIntegerPart(x[1], y[1])
         IN IF c # 0 THEN c ELSE compareFractionalPart(x[2], y[2])

---------------------------------------------------------------------------
\* github.go: "<owner>/<repo>#<number>"

Invalid == [owner |-> <<>>, repo |-> <<>>, number |-> 0]
Letter == {"a", "1", "0"}
IsNumber(s) == s # <<>> /\ ToSet(s) \subseteq {"0", "1"} /\ "1" \in ToSet(s)

ownerRepoSegment(s) == s # <<>> /\ Head(s) \in Letter /\ ToSet(s) \subseteq Letter \cup {"-"}

LastOf(s, b) == CHOOSE i \in DOMAIN s : s[i] = b /\ \A j \in (i + 1)..Len(s) : s[j] # b
FirstOfByte(s, b) == CHOOSE i \in DOMAIN s : s[i] = b /\ \A j \in 1..(i - 1) : s[j] # b

parseExternalID(s) ==
    IF "#" \notin ToSet(s) THEN Invalid
    ELSE LET prefix == SubSeq(s, 1, LastOf(s, "#") - 1)
             number == SubSeq(s, LastOf(s, "#") + 1, Len(s))
         IN IF "/" \notin ToSet(prefix) THEN Invalid
            ELSE LET owner == SubSeq(prefix, 1, FirstOfByte(prefix, "/") - 1)
                     repo == SubSeq(prefix, FirstOfByte(prefix, "/") + 1, Len(prefix))
                 IN IF ownerRepoSegment(owner) /\ ownerRepoSegment(repo) /\ IsNumber(number)
                    THEN [owner |-> owner, repo |-> repo, number |-> Number(number)]
                    ELSE Invalid

---------------------------------------------------------------------------
\* manifest.go and registry.go

Mandatory == {"list", "setup", "auth-status"}
Optional == {"since", "add", "complete", "delete"}
Known == Mandatory \cup Optional

\* LoadManifestFromBytes, after the three required fields.
LoadManifest(cs) ==
    IF /\ ToSet(cs) \subseteq Known /\ Mandatory \subseteq ToSet(cs)
       /\ Cardinality(ToSet(cs)) = Len(cs)
    THEN ToSet(cs) ELSE {}

\* ValidateAgainstManifest: what is declared has to be implemented.
ValidateAgainstManifest(declared, implemented) ==
    \A c \in Optional : c \in declared => c \in implemented

---------------------------------------------------------------------------

Wholes == {<<"1">>, <<"9">>, <<"1", "0">>, <<"1", "9">>}
Fractions == {<<>>} \cup {<<".">> \o d : d \in Strings(Digit, 3)}
Stamps == {<<>>} \cup {i \o f : i \in Wholes, f \in Fractions}

\* One function's inputs at a time.
FormatInit ==
    \E f \in {"file", "stamps", "id", "manifest"} :
        LET Only(g, S) == IF f = g THEN S ELSE {<<>>}
        IN /\ body \in Only("file", Strings({"t", "p", CR, LF}, MaxBody))
           /\ ts1 \in Only("stamps", Stamps) /\ ts2 \in Only("stamps", Stamps)
           /\ text \in Only("id", Strings({"a", "1", "-", "/", "#"}, MaxId))
           /\ caps \in Only("manifest", Strings(Known \cup {"fly"}, 4))

\* A file whose line ends are all alike and that does not end in an empty line.
Plain(s) ==
    /\ \A i \in DOMAIN s : s[i] = CR => i < Len(s) /\ s[i + 1] = LF
    /\ \/ \A i \in DOMAIN s : s[i] # CR
       \/ \A i \in DOMAIN s : s[i] = LF => i > 1 /\ s[i - 1] = CR
    /\ EndsIn(s, LF) => Last(splitLines(s)) # <<>>

\* The byte where line k begins.
At(s, k) == Len(joinLines(SubSeq(splitLines(s), 1, k - 1), detectEOL(s)))
            + (IF k = 1 THEN 1 ELSE Len(detectEOL(s)) + 1)

\* The user's prose is left as it was: marking, completing or deleting a task
\* changes the bytes of its own line only, in files with line ends of one sort
\* and no empty line at the end; an append leaves every line before it.
OtherLinesAreKept ==
    Plain(body) =>
        /\ \A k \in TaskLines(body) :
               /\ injectInto(body, k) = [body EXCEPT ![At(body, k)] = "m"]
               /\ completeIn(body, k) = [body EXCEPT ![At(body, k)] = "x"]
               /\ LET rest == RemoveAt(splitLines(body), k)
                  IN rest # <<>> /\ Last(rest) # <<>> => splitLines(deleteFrom(body, k)) = rest
        /\ splitLines(appendLine(body)) = Append(splitLines(body), <<"t">>)

\* The value of a stamp in thousandths.
Value(s) ==
    IF s = <<>> THEN -1
    ELSE LET frac == IF "." \in ToSet(s) THEN Len(s) - FirstOfByte(s, ".") ELSE 0
         IN Number(s) * (CASE frac = 0 -> 1000 [] frac = 1 -> 100 [] frac = 2 -> 10 [] frac = 3 -> 1)

\* Stamps compare by value, however many digits they are written with: a cursor
\* that compared them as text would go back at the first longer one.
StampsCompareByValue ==
    compareTS(ts1, ts2) = (IF Value(ts1) < Value(ts2) THEN -1
                           ELSE IF Value(ts1) > Value(ts2) THEN 1 ELSE 0)

\* An id that is accepted names one issue, whose id is that text, and none of
\* its parts could be taken for an option of gh.
IdsComeApart ==
    LET p == parseExternalID(text)
    IN p # Invalid => /\ text = p.owner \o <<"/">> \o p.repo \o <<"#">>
                                 \o SubSeq(text, LastOf(text, "#") + 1, Len(text))
                      /\ p.number > 0 /\ Head(p.owner) # "-" /\ Head(p.repo) # "-"

\* A manifest that loads has list, setup and auth-status and no capability
\* twice, and a plugin that passes can be asked for all that it declares.
DeclaredIsImplemented ==
    LET d == LoadManifest(caps)
    IN d # {} => \A impl \in SUBSET Optional :
           ValidateAgainstManifest(d, impl) => d \subseteq Mandatory \cup impl

\* The conversions do what their references say for every text up to the bounds:
\* rewriting a line, comparing stamps, taking ids apart, loading manifests.
ConversionsAreRight ==
    OtherLinesAreKept /\ StampsCompareByValue /\ IdsComeApart /\ DeclaredIsImplemented
=============================================================================
