--------------------------- MODULE FieldExtractor ---------------------------
(***************************************************************************)
(* extract_informations_from_md                                            *)
(* (.github/scripts/sync-copywriter-changes/sync_md_to_metadata.py).       *)
(*                                                                         *)
(* Title, severity and category: re.search(r'<key>:\s*"([^"]+)"', content) *)
(* over the whole document, then .group(1).strip().  The description:      *)
(*                                                                         *)
(*   re.search(r"### Description\s*\n\s*\n(.*?)(?=\n## )", content,        *)
(*             re.DOTALL).group(1).strip(), then re.sub(r"\n{3,}", "\n\n") *)
(*                                                                         *)
(* A document is a sequence of tokens: NL (newline), SP (space), X (any    *)
(* other character), H (the two characters "##") and D (the literal        *)
(* "### Description"), Q (a double quote) and KT, KS, KC (the literals     *)
(* "title:", "severity:", "category:", wherever they occur, "subtitle:"    *)
(* included).  "\n## " is <<NL, H, SP>>; D never supplies the "## " of a   *)
(* heading because a '#' precedes it inside D.                             *)
(*                                                                         *)
(* Python's backtracking engine returns, of all the ways the pattern       *)
(* matches, the one at the leftmost start; there, the longest first \s*,   *)
(* then the longest second \s*, then the shortest lazy group.              *)
(***************************************************************************)
EXTENDS Naturals, Sequences, FiniteSets, SequencesExt

CONSTANTS NL, SP, X, H, D, Q, KT, KS, KC, None, Docs

Ws == {NL, SP}

Positions(c, t) == {i \in 1..Len(c) : c[i] = t}

AllWs(c, i, j) == \A k \in i..j : c[k] \in Ws

\* (?=\n## ) at position e.
HeadingAt(c, e) == e + 2 <= Len(c) /\ c[e] = NL /\ c[e + 1] = H /\ c[e + 2] = SP

Headings(c) == {e \in 1..Len(c) : HeadingAt(c, e)}

\* Every <<start, first \n, second \n, lookahead>> at which the pattern matches.
DescMatches(c) ==
    { m \in Positions(c, D) \X Positions(c, NL) \X Positions(c, NL) \X Headings(c) :
        /\ m[1] < m[2] /\ m[2] < m[3] /\ m[3] < m[4]
        /\ AllWs(c, m[1] + 1, m[2] - 1)
        /\ AllWs(c, m[2] + 1, m[3] - 1) }

\* The group's bounds <<first, end + 1>> of the match re.search returns.
Pick(M) ==
    LET s  == Min({m[1] : m \in M})
        p1 == Max({m[2] : m \in {m1 \in M : m1[1] = s}})
        p2 == Max({m[3] : m \in {m1 \in M : m1[1] = s /\ m1[2] = p1}})
    IN <<p2 + 1, Min({m[4] : m \in {m1 \in M : m1[1] = s /\ m1[2] = p1 /\ m1[3] = p2}})>>

\* Mutant: .lstrip() for .strip().
StripLeft(c) ==
    LET keep == {i \in 1..Len(c) : c[i] \notin Ws}
    IN IF keep = {} THEN <<>> ELSE SubSeq(c, Min(keep), Len(c))

\* str.strip(): leading and trailing whitespace removed.
Strip(c) ==
    LET keep == {i \in 1..Len(c) : c[i] \notin Ws}
    IN IF keep = {} THEN <<>> ELSE SubSeq(c, Min(keep), Max(keep))

\* Length of the run of newlines c starts with.
NlRun(c) == Max({0} \cup {k \in 1..Len(c) : \A i \in 1..k : c[i] = NL})

\* Every maximal run of at least n newlines replaced by two.
RECURSIVE CollapseNl(_, _)
CollapseNl(c, n) ==
    IF c = <<>> THEN <<>>
    ELSE LET k == NlRun(c) IN
         IF k = 0 THEN <<c[1]>> \o CollapseNl(Tail(c), n)
         ELSE (IF k >= n THEN <<NL, NL>> ELSE SubSeq(c, 1, k))
                  \o CollapseNl(SubSeq(c, k + 1, Len(c)), n)

\* Lines 42-50 of sync_md_to_metadata.py.
Description(c) ==
    LET M == DescMatches(c) IN
    IF M = {} THEN None
    ELSE LET g == Pick(M) IN CollapseNl(Strip(SubSeq(c, g[1], g[2] - 1)), 3)

\* Every <<key, opening quote, closing quote>> at which key:\s*"([^"]+)"
\* matches: whitespace only up to the quote, at least one character that
\* is not a quote, then a quote.  \s* and [^"]+ are greedy, but a shorter
\* \s* leaves a space before the quote and a shorter [^"]+ leaves a
\* non-quote, so each key position has at most this one match.
ScalarMatches(c, k) ==
    { m \in Positions(c, k) \X Positions(c, Q) \X Positions(c, Q) :
        /\ m[1] < m[2] /\ m[2] + 1 < m[3]
        /\ AllWs(c, m[1] + 1, m[2] - 1)
        /\ \A i \in m[2] + 1 .. m[3] - 1 : c[i] # Q }

\* Lines 34-39, 52-57 and 60-65: the leftmost match wins, group(1).strip().
Scalar(c, k) ==
    LET M == ScalarMatches(c, k) IN
    IF M = {} THEN None
    ELSE LET m == CHOOSE m \in M : \A m2 \in M : m[1] <= m2[1]
         IN Strip(SubSeq(c, m[2] + 1, m[3] - 1))

VARIABLES doc, queryName, description, severity, category, extracted

vars == <<doc, queryName, description, severity, category, extracted>>

Init ==
    /\ doc \in Docs
    /\ queryName = None /\ description = None
    /\ severity = None /\ category = None
    /\ extracted = FALSE

\* One call of extract_informations_from_md: four independent searches.
Extract ==
    /\ ~extracted
    /\ queryName' = Scalar(doc, KT)
    /\ description' = Description(doc)
    /\ severity' = Scalar(doc, KS)
    /\ category' = Scalar(doc, KC)
    /\ extracted' = TRUE
    /\ UNCHANGED doc

Done == extracted /\ UNCHANGED vars

Next == Extract \/ Done

Spec == Init /\ [][Next]_vars /\ WF_vars(Extract)

-----------------------------------------------------------------------------
\* The section as the spec writes it (scenario 3): heading, a blank line,
\* the prose, a blank line, the next section.
Template(d) == <<D, NL, NL>> \o d \o <<NL, NL, H, SP>>

\* A description the extractor returns reads back unchanged from a
\* document that renders it in that template: the text stored in
\* descriptionText survives a docs round trip, so the sync is idempotent.
ReadsBackTemplate ==
    (extracted /\ description # None) => Description(Template(description)) = description

\* A line of d that is a "## " heading with a title.
HeadingLineIn(d) ==
    \E i \in 1..Len(d) - 2 :
        /\ i = 1 \/ d[i - 1] = NL
        /\ d[i] = H /\ d[i + 1] = SP /\ d[i + 2] \notin Ws

\* Spec 4.2: the description is the text strictly between the Description
\* heading and the next "## " heading, so it never holds a heading line of
\* the following section.
DescriptionStaysInSection ==
    (extracted /\ description # None) => ~HeadingLineIn(description)
=============================================================================
